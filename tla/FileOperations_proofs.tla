----------------------- MODULE FileOperations_proofs -----------------------
(***************************************************************************)
(* What TLAPS proves of FileOperations for any handlers, entries and       *)
(* bounds: the types, that nothing copied or moved is lost, and that what  *)
(* was there is kept without overwrite.                                    *)
(***************************************************************************)
EXTENDS FileOperations, FiniteSetTheorems, SequenceTheorems, WellFoundedInduction, TLAPS

(* What a step of a plan is: what it does, where, and where it leads.      *)

Kinds     == {"found", "vacant", "input", "open", "put", "cut", "size", "hash", "remove", "rename", "link",
              "fetch", "retry", "local", "again"}
Places    == {"source", "dest", "part", "uploading"}
Contents  == {"input", "written", "archive", "packed", "response", "sent"}
OpenModes == {"excl", "trunc", "append", "existing", "create", "response"}
Modes     == {"any", "all", "entry", "must", "single", "none", "v1", "sent"} \cup OpenModes \cup Nat \cup SUBSET Nat

Steps == [kind : Kinds, place : Places \cup Contents \cup {"open", "none"}, mode : Modes,
          code : Answers \ {"none"}, next : Nat \ {0}, orElse : Nat]

\* The steps that lead on or to an answer; no request makes a source.
PlainSteps == {s \in Steps :
    /\ s.kind \notin {"input", "retry", "again"}
    /\ s.kind = "open" => s.place \in {"dest", "part", "uploading"}
    /\ s.kind = "rename" => s.place \in {"part", "uploading"}
    /\ s.kind = "link" => s.place = "dest"}

LEMMA StepFacts ==
    /\ \A place \in Places :
         {Found(place), Vacant(place), Lacks(place), Cut(place), Remove(place), RemoveAny(place)} \subseteq PlainSteps
    /\ \A place \in Places \ {"source"} : \A mode \in OpenModes : Open(place, mode) \in PlainSteps
    /\ \A content \in Contents : Put(content) \in PlainSteps
    /\ \A range \in SUBSET Nat : PutSent(range) \in PlainSteps
    /\ \A place \in Places \cup {"open"} : \A n \in Nat : SizeIs(place, n) \in PlainSteps
    /\ \A place \in Places : \A v \in {"none", "v1", "sent"} : Hash(place, v) \in PlainSteps
    /\ {RemoveMoved, Fetch, Local, Rename("part"), Rename("uploading"), Link("dest")} \subseteq PlainSteps
    /\ \A s \in PlainSteps : \A k \in Nat \ {0} :
         {Then(s, k), Otherwise(s, k), Ignoring(s), [s EXCEPT !.code = "partial"]} \subseteq PlainSteps
<1> USE DEF PlainSteps, Steps, Kinds, Answers, Step, Modes, OpenModes, Contents, Places
<1>1. \A place \in Places :
         {Found(place), Vacant(place), Lacks(place), Cut(place), Remove(place), RemoveAny(place)} \subseteq PlainSteps
  BY DEF Found, Vacant, Lacks, Cut, Remove, RemoveAny
<1>2. \A place \in Places \ {"source"} : \A mode \in OpenModes : Open(place, mode) \in PlainSteps
  BY DEF Open
<1>3. \A content \in Contents : Put(content) \in PlainSteps
  BY DEF Put, Size
<1>4. \A range \in SUBSET Nat : PutSent(range) \in PlainSteps
  BY DEF PutSent
<1>5. \A place \in Places \cup {"open"} : \A n \in Nat : SizeIs(place, n) \in PlainSteps
  BY DEF SizeIs
<1>6. \A place \in Places : \A v \in {"none", "v1", "sent"} : Hash(place, v) \in PlainSteps
  BY DEF Hash
<1>7. {RemoveMoved, Fetch, Local, Rename("part"), Rename("uploading"), Link("dest")} \subseteq PlainSteps
  BY DEF RemoveMoved, Fetch, Local, Rename, Link
<1>8. \A s \in PlainSteps : \A k \in Nat \ {0} :
        {Then(s, k), Otherwise(s, k), Ignoring(s), [s EXCEPT !.code = "partial"]} \subseteq PlainSteps
  BY DEF Then, Otherwise, Ignoring
<1> QED  BY <1>1, <1>2, <1>3, <1>4, <1>5, <1>6, <1>7, <1>8

\* The steps that lead back, or past what follows them.
LEMMA LoopFacts ==
    /\ \A k \in Nat \ {0} : Again(k) \in Steps /\ Again(k).kind = "again" /\ Again(k).mode = k
    /\ \A k \in Nat \ {0} : Retry(k) \in Steps /\ Retry(k).kind = "retry" /\ Retry(k).mode = k
    /\ Input("source") \in Steps /\ Input("source").kind = "input" /\ Input("source").place = "source"
    /\ \A k \in Nat \ {0} : LET s == Then(Ignoring(Rename("source")), k) IN
         s \in Steps /\ s.kind = "rename" /\ s.place = "source"
<1> USE DEF Steps, Kinds, Answers, Step, Modes, OpenModes, Contents, Places
<1>1. \A k \in Nat \ {0} : Again(k) \in Steps /\ Again(k).kind = "again" /\ Again(k).mode = k
  BY DEF Again
<1>2. \A k \in Nat \ {0} : Retry(k) \in Steps /\ Retry(k).kind = "retry" /\ Retry(k).mode = k
  BY DEF Retry
<1>3. Input("source") \in Steps /\ Input("source").kind = "input" /\ Input("source").place = "source"
  BY DEF Input
<1>4. \A k \in Nat \ {0} : LET s == Then(Ignoring(Rename("source")), k) IN
         s \in Steps /\ s.kind = "rename" /\ s.place = "source"
  BY DEF Then, Ignoring, Otherwise, Rename
<1> QED  BY <1>1, <1>2, <1>3, <1>4

----------------------------------------------------------------------------
(* What a plan is: it goes back to steps it has, skips to a step it has,   *)
(* makes no source, and makes entries of the destination only when it goes *)
(* over the entries.                                                       *)

SoundStep(p, i) ==
    /\ p[i].kind \in {"retry", "again"} => p[i].mode \in 1..(i - 1)
    /\ p[i].kind = "input" => p[i].place = "source" /\ i + 3 <= Len(p)
    /\ p[i].kind = "open" => p[i].place \in {"dest", "part", "uploading"}
    /\ p[i].kind = "rename" => p[i].place \in {"source", "part", "uploading"}
    /\ p[i].kind = "link" => p[i].place = "dest"

Loops(p)     == \E i \in 1..Len(p) : p[i].kind = "again"
SoundPlan(p) ==
    /\ p \in Seq(Steps) /\ Len(p) > 0
    /\ \A i \in 1..Len(p) : SoundStep(p, i)
    /\ Loops(p) => \A i \in 1..Len(p) : p[i].kind \in {"open", "rename"} => p[i].place \in {"source", "dest"}

PlainPlans == {p \in Seq(PlainSteps) : Len(p) > 0}

LEMMA PlainSound == \A p \in PlainPlans : SoundPlan(p) /\ ~Loops(p)
<1> SUFFICES ASSUME NEW p \in PlainPlans PROVE SoundPlan(p) /\ ~Loops(p)
  OBVIOUS
<1>1. p \in Seq(Steps) /\ Len(p) > 0 /\ Len(p) \in Nat
  BY DEF PlainPlans, PlainSteps
<1>2. \A i \in 1..Len(p) : p[i] \in PlainSteps
  BY DEF PlainPlans
<1>3. \A i \in 1..Len(p) : SoundStep(p, i)
  BY <1>2 DEF SoundStep, PlainSteps
<1>4. ~Loops(p)
  BY <1>2 DEF Loops, PlainSteps
<1> QED  BY <1>1, <1>3, <1>4 DEF SoundPlan

\* Plans of plain steps are made of plain steps.
LEMMA PlainTuples ==
    /\ \A a \in PlainSteps : <<a>> \in PlainPlans
    /\ \A a, b \in PlainSteps : <<a, b>> \in PlainPlans
    /\ \A a, b, c \in PlainSteps : <<a, b, c>> \in PlainPlans
    /\ \A a, b, c, d, e \in PlainSteps : <<a, b, c, d, e>> \in PlainPlans
    /\ \A p, q \in PlainPlans : p \o q \in PlainPlans
    /\ \A flag \in BOOLEAN : \A a \in PlainSteps : \A p \in PlainPlans :
         Unless(flag, a) \o p \in PlainPlans /\ When(flag, a) \o p \in PlainPlans
         /\ p \o Unless(flag, a) \in PlainPlans /\ p \o When(flag, a) \in PlainPlans
<1> USE DEF PlainPlans
<1>1. \A a \in PlainSteps : <<a>> \in PlainPlans
  OBVIOUS
<1>2. \A a, b \in PlainSteps : <<a, b>> \in PlainPlans
  OBVIOUS
<1>3. \A a, b, c \in PlainSteps : <<a, b, c>> \in PlainPlans
  OBVIOUS
<1>4. \A a, b, c, d, e \in PlainSteps : <<a, b, c, d, e>> \in PlainPlans
  OBVIOUS
<1>5. \A p, q \in PlainPlans : p \o q \in PlainPlans
  OBVIOUS
<1>6. \A flag \in BOOLEAN : \A a \in PlainSteps : \A p \in PlainPlans :
         Unless(flag, a) \o p \in PlainPlans /\ When(flag, a) \o p \in PlainPlans
         /\ p \o Unless(flag, a) \in PlainPlans /\ p \o When(flag, a) \in PlainPlans
  <2>1. \A flag \in BOOLEAN : \A a \in PlainSteps :
          Unless(flag, a) \in Seq(PlainSteps) /\ When(flag, a) \in Seq(PlainSteps)
    BY DEF Unless, When
  <2> HIDE DEF Unless, When
  <2>2. \A p \in PlainPlans : \A s \in Seq(PlainSteps) : s \o p \in PlainPlans /\ p \o s \in PlainPlans
    OBVIOUS
  <2> QED  BY <2>1, <2>2
<1> QED  BY <1>1, <1>2, <1>3, <1>4, <1>5, <1>6

----------------------------------------------------------------------------
(* The plans of the tools that go over entries, by their positions.        *)

\* A copy without overwrite.
IsCopyPlan(p) ==
    /\ p \in Seq(Steps) /\ Len(p) = 7
    /\ p[1] = Found("source") /\ p[2] = Vacant("dest") /\ p[3] = Lacks("dest") /\ p[4] = Input("source")
    /\ p[5] = Open("dest", "excl") /\ p[6] = Put("input") /\ p[7] = Again(4)

\* A copy with overwrite.
IsOverwritePlan(p) ==
    /\ p \in Seq(Steps) /\ Len(p) = 5
    /\ p[1] = Found("source") /\ p[2] = Input("source") /\ p[3] = Open("dest", "trunc") /\ p[4] = Put("input")
    /\ p[5] = Again(3)

\* An extraction without overwrite.
IsExtractPlan(p) ==
    /\ p \in Seq(Steps) /\ Len(p) = 6
    /\ p[1] = Found("source") /\ p[2] = Local /\ p[3] = Lacks("dest") /\ p[4] = Open("dest", "trunc")
    /\ p[5] = Put("packed") /\ p[6] = Again(3)

\* An extraction with overwrite.
IsExtractOverPlan(p) ==
    /\ p \in Seq(Steps) /\ Len(p) = 5
    /\ p[1] = Found("source") /\ p[2] = Local /\ p[3] = Open("dest", "trunc") /\ p[4] = Put("packed")
    /\ p[5] = Again(2)

\* A move.
IsMovePlan(p) ==
    /\ p \in Seq(Steps) /\ Len(p) = 11
    /\ p[1] = Then(Ignoring(Rename("source")), 11) /\ p[2] = Found("source") /\ p[3] = Vacant("dest")
    /\ p[4] = Lacks("dest") /\ p[5] = Input("source") /\ p[6] = Open("dest", "excl") /\ p[7] = Put("input")
    /\ p[8] = Again(4) /\ p[9] = Found("source") /\ p[10] = RemoveMoved /\ p[11] = Again(1)

LEMMA CopyPlan == IsCopyPlan(copyPath(FALSE))
<1> DEFINE a == Found("source")   b == Vacant("dest")   c == Lacks("dest")   d == Input("source")
           e == Open("dest", "excl")   f == Put("input")   g == Again(4)
<1>1. {a, b, c, d, e, f, g} \subseteq Steps
  BY StepFacts, LoopFacts DEF PlainSteps, Places, OpenModes, Contents
<1>2. copyPath(FALSE) = <<a>> \o <<b>> \o <<c>> \o <<d, e, f, g>>
  BY DEF copyPath, Unless
<1> HIDE DEF a, b, c, d, e, f, g
<1>3. LET p == <<a>> \o <<b>> \o <<c>> \o <<d, e, f, g>> IN
      /\ p \in Seq(Steps) /\ Len(p) = 7
      /\ p[1] = a /\ p[2] = b /\ p[3] = c /\ p[4] = d /\ p[5] = e /\ p[6] = f /\ p[7] = g
  BY <1>1
<1> QED  BY <1>2, <1>3 DEF a, b, c, d, e, f, g, IsCopyPlan

LEMMA OverwritePlan == IsOverwritePlan(copyPath(TRUE))
<1> DEFINE a == Found("source")   d == Input("source")   e == Open("dest", "trunc")
           f == Put("input")   g == Again(3)
<1>1. {a, d, e, f, g} \subseteq Steps
  BY StepFacts, LoopFacts DEF PlainSteps, Places, OpenModes, Contents
<1>2. copyPath(TRUE) = <<a>> \o <<>> \o <<>> \o <<d, e, f, g>>
  BY DEF copyPath, Unless
<1> HIDE DEF a, d, e, f, g
<1>3. LET p == <<a>> \o <<>> \o <<>> \o <<d, e, f, g>> IN
      /\ p \in Seq(Steps) /\ Len(p) = 5
      /\ p[1] = a /\ p[2] = d /\ p[3] = e /\ p[4] = f /\ p[5] = g
  BY <1>1
<1> QED  BY <1>2, <1>3 DEF a, d, e, f, g, IsOverwritePlan

LEMMA ExtractPlan == IsExtractPlan(extractTAR(FALSE))
<1> DEFINE a == Found("source")   b == Local   c == Lacks("dest")
           d == Open("dest", "trunc")   e == Put("packed")   f == Again(3)
<1>1. {a, b, c, d, e, f} \subseteq Steps
  BY StepFacts, LoopFacts DEF PlainSteps, Places, OpenModes, Contents
<1>2. extractTAR(FALSE) = <<a, b>> \o <<c>> \o <<d, e, f>>
  BY DEF extractTAR, Unless
<1> HIDE DEF a, b, c, d, e, f
<1>3. LET p == <<a, b>> \o <<c>> \o <<d, e, f>> IN
      /\ p \in Seq(Steps) /\ Len(p) = 6
      /\ p[1] = a /\ p[2] = b /\ p[3] = c /\ p[4] = d /\ p[5] = e /\ p[6] = f
  BY <1>1
<1> QED  BY <1>2, <1>3 DEF a, b, c, d, e, f, IsExtractPlan

LEMMA ExtractOverPlan == IsExtractOverPlan(extractTAR(TRUE))
<1> DEFINE a == Found("source")   b == Local   d == Open("dest", "trunc")
           e == Put("packed")   f == Again(2)
<1>1. {a, b, d, e, f} \subseteq Steps
  BY StepFacts, LoopFacts DEF PlainSteps, Places, OpenModes, Contents
<1>2. extractTAR(TRUE) = <<a, b>> \o <<>> \o <<d, e, f>>
  BY DEF extractTAR, Unless
<1> HIDE DEF a, b, d, e, f
<1>3. LET p == <<a, b>> \o <<>> \o <<d, e, f>> IN
      /\ p \in Seq(Steps) /\ Len(p) = 5
      /\ p[1] = a /\ p[2] = b /\ p[3] = d /\ p[4] = e /\ p[5] = f
  BY <1>1
<1> QED  BY <1>2, <1>3 DEF a, b, d, e, f, IsExtractOverPlan

LEMMA Joined ==
    \A s, t \in Seq(Steps) :
        /\ s \o t \in Seq(Steps) /\ Len(s \o t) = Len(s) + Len(t)
        /\ \A i \in 1..(Len(s) + Len(t)) : (s \o t)[i] = IF i <= Len(s) THEN s[i] ELSE t[i - Len(s)]
OBVIOUS

LEMMA MovePlan == IsMovePlan(movePath)
<1> DEFINE c == copyPath(FALSE)   a == Then(Ignoring(Rename("source")), 11)
           x == Found("source")   y == RemoveMoved   z == Again(1)
<1>1. {a, x, y, z} \subseteq Steps
  BY StepFacts, LoopFacts DEF PlainSteps, Places
<1>2. IsCopyPlan(c)
  BY CopyPlan
<1>3. movePath = <<Then(Ignoring(Rename("source")), Len(c) + 4)>> \o c \o <<x, y, z>>
  BY DEF movePath, MoveBy
<1> HIDE DEF c
<1>4. c \in Seq(Steps) /\ Len(c) = 7 /\ Len(c) + 4 = 11
  BY <1>2 DEF IsCopyPlan
<1>5. movePath = <<a>> \o c \o <<x, y, z>>
  BY <1>3, <1>4
<1> HIDE DEF a, x, y, z
<1> DEFINE q == <<a>> \o c   p == q \o <<x, y, z>>
<1>6. /\ q \in Seq(Steps) /\ Len(q) = 8 /\ q[1] = a
      /\ q[2] = c[1] /\ q[3] = c[2] /\ q[4] = c[3] /\ q[5] = c[4] /\ q[6] = c[5] /\ q[7] = c[6] /\ q[8] = c[7]
  <2> DEFINE t == <<a>>
  <2>1. Len(t) = 1 /\ t \in Seq(Steps) /\ t[1] = a
    BY <1>1
  <2> HIDE DEF t
  <2>2. LET r == t \o c IN
        /\ r \in Seq(Steps) /\ Len(r) = 8 /\ r[1] = a
        /\ r[2] = c[1] /\ r[3] = c[2] /\ r[4] = c[3] /\ r[5] = c[4] /\ r[6] = c[5] /\ r[7] = c[6] /\ r[8] = c[7]
    <3> DEFINE r == t \o c
    <3>3. /\ r \in Seq(Steps) /\ Len(r) = Len(t) + Len(c)
          /\ \A i \in 1..(Len(t) + Len(c)) : r[i] = IF i <= Len(t) THEN t[i] ELSE c[i - Len(t)]
      BY <1>4, <2>1, Joined, Zenon
    <3> HIDE DEF r
    <3>1. r \in Seq(Steps) /\ Len(r) = 8 /\ \A i \in 1..8 : r[i] = IF i <= 1 THEN t[i] ELSE c[i - 1]
      BY <1>4, <2>1, <3>3
    <3>2. /\ r \in Seq(Steps) /\ Len(r) = 8 /\ r[1] = a
          /\ r[2] = c[1] /\ r[3] = c[2] /\ r[4] = c[3] /\ r[5] = c[4] /\ r[6] = c[5] /\ r[7] = c[6] /\ r[8] = c[7]
      BY <2>1, <3>1
    <3> QED  BY <3>2 DEF r
  <2> QED  BY <2>2 DEF t
<1> HIDE DEF q
<1>7. /\ p \in Seq(Steps) /\ Len(p) = 11 /\ p[9] = x /\ p[10] = y /\ p[11] = z
      /\ \A i \in 1..8 : p[i] = q[i]
  <2> DEFINE t == <<x, y, z>>
  <2>1. t \in Seq(Steps) /\ Len(t) = 3 /\ t[1] = x /\ t[2] = y /\ t[3] = z
    BY <1>1
  <2> HIDE DEF t
  <2>2. LET r == q \o t IN
        /\ r \in Seq(Steps) /\ Len(r) = 11 /\ r[9] = x /\ r[10] = y /\ r[11] = z
        /\ \A i \in 1..8 : r[i] = q[i]
    <3> DEFINE r == q \o t
    <3>3. /\ r \in Seq(Steps) /\ Len(r) = Len(q) + Len(t)
          /\ \A i \in 1..(Len(q) + Len(t)) : r[i] = IF i <= Len(q) THEN q[i] ELSE t[i - Len(q)]
      BY <1>6, <2>1, Joined, Zenon
    <3> HIDE DEF r
    <3>1. r \in Seq(Steps) /\ Len(r) = 11 /\ \A i \in 1..11 : r[i] = IF i <= 8 THEN q[i] ELSE t[i - 8]
      BY <1>6, <2>1, <3>3
    <3>2. /\ r \in Seq(Steps) /\ Len(r) = 11 /\ r[9] = x /\ r[10] = y /\ r[11] = z
          /\ \A i \in 1..8 : r[i] = q[i]
      BY <2>1, <3>1
    <3> QED  BY <3>2 DEF r
  <2> QED  BY <2>2 DEF t
<1> HIDE DEF p
<1>8. /\ p[1] = a /\ p[2] = c[1] /\ p[3] = c[2] /\ p[4] = c[3]
      /\ p[5] = c[4] /\ p[6] = c[5] /\ p[7] = c[6] /\ p[8] = c[7]
  BY <1>6, <1>7
<1>9. movePath = p
  BY <1>5 DEF p, q
<1> QED  BY <1>2, <1>7, <1>8, <1>9 DEF a, x, y, z, IsMovePlan, IsCopyPlan

LEMMA StepKinds ==
    /\ Found("source").kind = "found" /\ Vacant("dest").kind = "vacant" /\ Lacks("dest").kind = "vacant"
    /\ RemoveMoved.kind = "remove" /\ Local.kind = "local" /\ Put("input").kind = "put" /\ Put("packed").kind = "put"
    /\ \A m \in OpenModes : Open("dest", m).kind = "open" /\ Open("dest", m).place = "dest"
BY DEF Found, Vacant, Lacks, RemoveMoved, Local, Put, Open, Step

LEMMA CopyPlanSound == \A p : IsCopyPlan(p) => SoundPlan(p)
<1> SUFFICES ASSUME NEW p, IsCopyPlan(p) PROVE SoundPlan(p)
  OBVIOUS
<1>1. /\ p[1].kind = "found" /\ p[2].kind = "vacant" /\ p[3].kind = "vacant"
      /\ p[4].kind = "input" /\ p[4].place = "source" /\ p[5].kind = "open" /\ p[5].place = "dest"
      /\ p[6].kind = "put" /\ p[7].kind = "again" /\ p[7].mode = 4
  BY StepKinds, LoopFacts DEF IsCopyPlan, OpenModes
<1>2. p \in Seq(Steps) /\ Len(p) = 7
  BY DEF IsCopyPlan
<1>3. \A i \in 1..7 : SoundStep(p, i) /\ (p[i].kind \in {"open", "rename"} => p[i].place \in {"source", "dest"})
  BY <1>1, <1>2 DEF SoundStep
<1> QED  BY <1>2, <1>3 DEF SoundPlan

LEMMA OverwritePlanSound == \A p : IsOverwritePlan(p) => SoundPlan(p)
<1> SUFFICES ASSUME NEW p, IsOverwritePlan(p) PROVE SoundPlan(p)
  OBVIOUS
<1>1. /\ p[1].kind = "found" /\ p[2].kind = "input" /\ p[2].place = "source"
      /\ p[3].kind = "open" /\ p[3].place = "dest" /\ p[4].kind = "put" /\ p[5].kind = "again" /\ p[5].mode = 3
  BY StepKinds, LoopFacts DEF IsOverwritePlan, OpenModes
<1>2. p \in Seq(Steps) /\ Len(p) = 5
  BY DEF IsOverwritePlan
<1>3. \A i \in 1..5 : SoundStep(p, i) /\ (p[i].kind \in {"open", "rename"} => p[i].place \in {"source", "dest"})
  BY <1>1, <1>2 DEF SoundStep
<1> QED  BY <1>2, <1>3 DEF SoundPlan

LEMMA ExtractPlanSound == \A p : IsExtractPlan(p) => SoundPlan(p)
<1> SUFFICES ASSUME NEW p, IsExtractPlan(p) PROVE SoundPlan(p)
  OBVIOUS
<1>1. /\ p[1].kind = "found" /\ p[2].kind = "local" /\ p[3].kind = "vacant"
      /\ p[4].kind = "open" /\ p[4].place = "dest" /\ p[5].kind = "put" /\ p[6].kind = "again" /\ p[6].mode = 3
  BY StepKinds, LoopFacts DEF IsExtractPlan, OpenModes
<1>2. p \in Seq(Steps) /\ Len(p) = 6
  BY DEF IsExtractPlan
<1>3. \A i \in 1..6 : SoundStep(p, i) /\ (p[i].kind \in {"open", "rename"} => p[i].place \in {"source", "dest"})
  BY <1>1, <1>2 DEF SoundStep
<1> QED  BY <1>2, <1>3 DEF SoundPlan

LEMMA ExtractOverPlanSound == \A p : IsExtractOverPlan(p) => SoundPlan(p)
<1> SUFFICES ASSUME NEW p, IsExtractOverPlan(p) PROVE SoundPlan(p)
  OBVIOUS
<1>1. /\ p[1].kind = "found" /\ p[2].kind = "local" /\ p[3].kind = "open" /\ p[3].place = "dest"
      /\ p[4].kind = "put" /\ p[5].kind = "again" /\ p[5].mode = 2
  BY StepKinds, LoopFacts DEF IsExtractOverPlan, OpenModes
<1>2. p \in Seq(Steps) /\ Len(p) = 5
  BY DEF IsExtractOverPlan
<1>3. \A i \in 1..5 : SoundStep(p, i) /\ (p[i].kind \in {"open", "rename"} => p[i].place \in {"source", "dest"})
  BY <1>1, <1>2 DEF SoundStep
<1> QED  BY <1>2, <1>3 DEF SoundPlan

LEMMA MovePlanSound == \A p : IsMovePlan(p) => SoundPlan(p)
<1> SUFFICES ASSUME NEW p, IsMovePlan(p) PROVE SoundPlan(p)
  OBVIOUS
<1>1. /\ p[1].kind = "rename" /\ p[1].place = "source" /\ p[2].kind = "found" /\ p[3].kind = "vacant"
      /\ p[4].kind = "vacant" /\ p[5].kind = "input" /\ p[5].place = "source"
      /\ p[6].kind = "open" /\ p[6].place = "dest" /\ p[7].kind = "put" /\ p[8].kind = "again" /\ p[8].mode = 4
      /\ p[9].kind = "found" /\ p[10].kind = "remove" /\ p[11].kind = "again" /\ p[11].mode = 1
  BY StepKinds, LoopFacts DEF IsMovePlan, OpenModes
<1>2. p \in Seq(Steps) /\ Len(p) = 11
  BY DEF IsMovePlan
<1>3. \A i \in 1..11 : SoundStep(p, i) /\ (p[i].kind \in {"open", "rename"} => p[i].place \in {"source", "dest"})
  BY <1>1, <1>2 DEF SoundStep
<1> QED  BY <1>2, <1>3 DEF SoundPlan

LEMMA LoopPlans ==
    /\ \A overwrite \in BOOLEAN : SoundPlan(copyPath(overwrite)) /\ SoundPlan(extractTAR(overwrite))
    /\ SoundPlan(movePath)
    /\ \A s \in PlainSteps : s.kind \notin {"open", "rename"} => SoundPlan(<<s, Again(1)>>)
<1>1. SoundPlan(copyPath(FALSE)) /\ SoundPlan(copyPath(TRUE))
  BY CopyPlan, CopyPlanSound, OverwritePlan, OverwritePlanSound, Zenon
<1>2. SoundPlan(extractTAR(FALSE)) /\ SoundPlan(extractTAR(TRUE))
  BY ExtractPlan, ExtractPlanSound, ExtractOverPlan, ExtractOverPlanSound, Zenon
<1>3. SoundPlan(movePath)
  BY MovePlan, MovePlanSound
<1>4. ASSUME NEW overwrite \in BOOLEAN
      PROVE  SoundPlan(copyPath(overwrite)) /\ SoundPlan(extractTAR(overwrite))
  <2>1. CASE overwrite = TRUE
    BY <1>1, <1>2, <2>1, Zenon
  <2>2. CASE overwrite = FALSE
    BY <1>1, <1>2, <2>2, Zenon
  <2>3. overwrite = TRUE \/ overwrite = FALSE
    OBVIOUS
  <2> QED  BY <2>1, <2>2, <2>3, Zenon
<1>5. ASSUME NEW s \in PlainSteps, s.kind \notin {"open", "rename"}
      PROVE  SoundPlan(<<s, Again(1)>>)
  <2> DEFINE a == Again(1)   p == <<s, a>>
  <2>1. a \in Steps /\ a.kind = "again" /\ a.mode = 1 /\ s \in Steps
    BY LoopFacts DEF PlainSteps
  <2> HIDE DEF a
  <2>2. p \in Seq(Steps) /\ Len(p) = 2 /\ p[1] = s /\ p[2] = a
    BY <2>1
  <2> HIDE DEF p
  <2>3. \A i \in 1..2 : SoundStep(p, i) /\ (p[i].kind \in {"open", "rename"} => p[i].place \in {"source", "dest"})
    BY <1>5, <2>1, <2>2 DEF SoundStep, PlainSteps
  <2>4. SoundPlan(p)
    BY <2>2, <2>3 DEF SoundPlan
  <2> QED  BY <2>4 DEF p, a
<1> QED  BY <1>3, <1>4, <1>5, Zenon

\* The attempts of a download, between what is looked at before and after.
LEMMA DownloadPlan ==
    ASSUME NEW s \in Seq(PlainSteps), NEW t \in Seq(PlainSteps), NEW v \in {"none", "v1"}
    PROVE  LET p == s \o <<Otherwise(Fetch, 3), Otherwise(Open("part", "response"), 2),
                          Then(Ignoring(Put("response")), 2), Retry(3), Hash("part", v)>> \o t
           IN  SoundPlan(p) /\ ~Loops(p)
<1> DEFINE a == Otherwise(Fetch, 3)   b == Otherwise(Open("part", "response"), 2)
           c == Then(Ignoring(Put("response")), 2)   d == Retry(3)   e == Hash("part", v)
           p == s \o <<a, b, c, d, e>> \o t
<1>1. {a, b, c, e} \subseteq PlainSteps
  <2>1. Fetch \in PlainSteps /\ Open("part", "response") \in PlainSteps /\ Put("response") \in PlainSteps
    BY StepFacts DEF Places, OpenModes, Contents
  <2>2. \A s1 \in PlainSteps : \A k \in Nat \ {0} :
          Then(s1, k) \in PlainSteps /\ Otherwise(s1, k) \in PlainSteps /\ Ignoring(s1) \in PlainSteps
    BY StepFacts
  <2>3. 2 \in Nat \ {0} /\ 3 \in Nat \ {0}
    OBVIOUS
  <2>4. a \in PlainSteps /\ b \in PlainSteps /\ c \in PlainSteps
    BY <2>1, <2>2, <2>3, Zenon
  <2>5. e \in PlainSteps
    BY StepFacts DEF Places
  <2> QED  BY <2>4, <2>5
<1>2. d \in Steps /\ d.kind = "retry" /\ d.mode = 3
  BY LoopFacts
<1> HIDE DEF a, b, c, d, e
<1> DEFINE n == Len(s)
<1>3. s \in Seq(Steps) /\ t \in Seq(Steps) /\ {a, b, c, d, e} \subseteq Steps /\ n \in Nat
  BY <1>1, <1>2 DEF PlainSteps
<1>4. /\ p \in Seq(Steps) /\ Len(p) = n + 5 + Len(t) /\ p[n + 4] = d
      /\ \A i \in 1..Len(p) : i # n + 4 => p[i] \in PlainSteps
  <2>1. p \in Seq(Steps) /\ Len(p) = n + 5 + Len(t) /\ p[n + 4] = d
    BY <1>3
  <2>2. ASSUME NEW i \in 1..Len(p), i # n + 4
        PROVE  p[i] \in PlainSteps
    BY <1>1, <1>3, <2>1, <2>2
  <2> QED  BY <2>1, <2>2
<1> HIDE DEF p
<1>5. \A i \in 1..Len(p) : SoundStep(p, i)
  BY <1>2, <1>3, <1>4 DEF SoundStep, PlainSteps
<1>6. ~Loops(p)
  BY <1>2, <1>4 DEF Loops, PlainSteps
<1>7. SoundPlan(p)
  <2>1. Len(p) > 0
    BY <1>3, <1>4
  <2>2. p \in Seq(Steps)
    BY <1>4
  <2> QED  BY <1>5, <1>6, <2>1, <2>2, Zenon DEF SoundPlan
<1> QED  BY <1>6, <1>7 DEF p, a, b, c, d, e

----------------------------------------------------------------------------
(* The tables of the tools.                                                *)

LEMMA WritePlans == \A a \in DOMAIN fsWriteOperation : SoundPlan(fsWriteOperation[a])
<1> DEFINE t == fsWriteOperation
<1>1. /\ \A m \in OpenModes : Open("dest", m) \in PlainSteps
      /\ Put("written") \in PlainSteps /\ Cut("dest") \in PlainSteps
      /\ SizeIs("dest", 1) \in PlainSteps /\ Local \in PlainSteps
  BY StepFacts DEF Places, Contents
<1>2. DOMAIN t = {"write", "append", "create", "patch", "truncate", "touch", "mkdir"}
  BY DEF fsWriteOperation
<1>3. /\ t["write"] = <<Open("dest", "trunc"), Put("written")>>
      /\ t["append"] = <<Open("dest", "append"), Put("written")>>
      /\ t["create"] = <<Open("dest", "excl"), Put("written")>>
      /\ t["patch"] = <<Open("dest", "existing"), Put("written")>>
      /\ t["truncate"] = <<Cut("dest"), SizeIs("dest", 1)>>
      /\ t["touch"] = <<Open("dest", "create"), Local>>
      /\ t["mkdir"] = <<Local>>
  BY DEF fsWriteOperation
<1> HIDE DEF t
<1>4. \A x, y \in PlainSteps : <<x>> \in PlainPlans /\ <<x, y>> \in PlainPlans
  BY PlainTuples
<1>5. /\ t["write"] \in PlainPlans /\ t["append"] \in PlainPlans /\ t["create"] \in PlainPlans
      /\ t["patch"] \in PlainPlans /\ t["truncate"] \in PlainPlans /\ t["touch"] \in PlainPlans
      /\ t["mkdir"] \in PlainPlans
  <2>1. {"trunc", "append", "excl", "existing", "create"} \subseteq OpenModes
    BY DEF OpenModes
  <2>2. /\ Open("dest", "trunc") \in PlainSteps /\ Open("dest", "append") \in PlainSteps
        /\ Open("dest", "excl") \in PlainSteps /\ Open("dest", "existing") \in PlainSteps
        /\ Open("dest", "create") \in PlainSteps
    BY <1>1, <2>1
  <2> QED  BY <1>1, <1>3, <1>4, <2>2, Zenon
<1>6. \A a \in DOMAIN t : t[a] \in PlainPlans
  BY <1>2, <1>5
<1> QED  BY <1>6, PlainSound DEF t

LEMMA ManagePlans ==
    ASSUME NEW overwrite \in BOOLEAN
    PROVE  \A a \in DOMAIN fsManageOperation(overwrite) : SoundPlan(fsManageOperation(overwrite)[a])
<1> DEFINE t == fsManageOperation(overwrite)   b == Ignoring([Remove("dest") EXCEPT !.code = "partial"])
<1>1. /\ Remove("dest") \in PlainSteps /\ RemoveAny("dest") \in PlainSteps /\ Open("dest", "excl") \in PlainSteps
      /\ Link("dest") \in PlainSteps /\ Found("dest") \in PlainSteps /\ Local \in PlainSteps
  BY StepFacts DEF Places, OpenModes
<1>2. b \in PlainSteps /\ b.kind = "remove" /\ RemoveAny("dest").kind = "remove"
  <2>1. b.kind = "remove" /\ RemoveAny("dest").kind = "remove"
    BY DEF Ignoring, Otherwise, Remove, RemoveAny, Step
  <2>2. \A s \in PlainSteps : \A k \in Nat \ {0} : [s EXCEPT !.code = "partial"] \in PlainSteps /\ Ignoring(s) \in PlainSteps
    BY StepFacts
  <2>3. 1 \in Nat \ {0}
    OBVIOUS
  <2>4. [Remove("dest") EXCEPT !.code = "partial"] \in PlainSteps
    BY <1>1, <2>2, <2>3, Zenon
  <2>5. b \in PlainSteps
    BY <2>2, <2>3, <2>4, Zenon
  <2> QED  BY <2>1, <2>5
<1>3. DOMAIN t = {"copy", "move", "delete", "delete_tree", "delete_batch", "symlink", "hardlink", "attributes"}
  BY DEF fsManageOperation
<1>4. /\ t["copy"] = copyPath(overwrite) /\ t["move"] = movePath
      /\ t["delete"] = <<Remove("dest")>>
      /\ t["delete_tree"] = <<RemoveAny("dest"), Again(1)>>
      /\ t["delete_batch"] = <<b, Again(1)>>
      /\ t["symlink"] = <<Open("dest", "excl")>> /\ t["hardlink"] = <<Link("dest")>>
      /\ t["attributes"] = <<Found("dest"), Local>>
  BY DEF fsManageOperation
<1> HIDE DEF t, b
<1>5. SoundPlan(t["copy"]) /\ SoundPlan(t["move"])
  BY <1>4, LoopPlans
<1>6. SoundPlan(t["delete_tree"]) /\ SoundPlan(t["delete_batch"])
  BY <1>1, <1>2, <1>4, LoopPlans
<1>7. \A a \in {"delete", "symlink", "hardlink", "attributes"} : t[a] \in PlainPlans
  BY <1>1, <1>4, PlainTuples, ZenonT(30)
<1>8. \A a \in DOMAIN t : SoundPlan(t[a])
  BY <1>3, <1>5, <1>6, <1>7, PlainSound
<1> QED  BY <1>8 DEF t

LEMMA HashPlans == \A a \in DOMAIN fsHashOperation : SoundPlan(fsHashOperation[a])
<1>1. Hash("source", "none") \in PlainSteps
  BY StepFacts DEF Places
<1>2. DOMAIN fsHashOperation = {"calculate"} /\ fsHashOperation["calculate"] = <<Hash("source", "none")>>
  BY DEF fsHashOperation
<1>3. <<Hash("source", "none")>> \in PlainPlans
  BY <1>1, PlainTuples
<1> QED  BY <1>2, <1>3, PlainSound

\* What archives and backups have in common.
LEMMA ArchiveSteps ==
    /\ createTAR \in PlainPlans /\ create7z \in PlainPlans
    /\ Found("dest") \in PlainSteps /\ Found("source") \in PlainSteps /\ Local \in PlainSteps
    /\ \A p \in {"source", "dest"} : Hash(p, "none") \in PlainSteps
    /\ Remove("dest") \in PlainSteps
<1>1. /\ Found("dest") \in PlainSteps /\ Found("source") \in PlainSteps /\ Local \in PlainSteps
      /\ \A p \in {"source", "dest"} : Hash(p, "none") \in PlainSteps
      /\ Remove("dest") \in PlainSteps /\ RemoveAny("dest") \in PlainSteps
      /\ Open("dest", "trunc") \in PlainSteps /\ Open("dest", "excl") \in PlainSteps /\ Put("archive") \in PlainSteps
  BY StepFacts DEF Places, OpenModes, Contents
<1>2. createTAR \in PlainPlans
  BY <1>1, PlainTuples DEF createTAR
<1>3. create7z \in PlainPlans
  BY <1>1, PlainTuples DEF create7z
<1> QED  BY <1>1, <1>2, <1>3

LEMMA ArchivePlans ==
    ASSUME NEW overwrite \in BOOLEAN
    PROVE  \A a \in DOMAIN archiveOperation(overwrite) : SoundPlan(archiveOperation(overwrite)[a])
<1> DEFINE t == archiveOperation(overwrite)   e == extractTAR(overwrite)   f == extract7z
           c == createTAR \o <<Found("dest")>>   d == create7z \o <<Found("dest")>>   l == <<Found("source"), Local>>
<1>1. DOMAIN t = {"create", "create_7z", "extract", "extract_7z", "list"}
  BY DEF archiveOperation
<1>2. t["create"] = c /\ t["create_7z"] = d /\ t["extract"] = e /\ t["extract_7z"] = f /\ t["list"] = l
  BY DEF archiveOperation
<1>3. c \in PlainPlans /\ d \in PlainPlans /\ l \in PlainPlans
  <2>1. <<Found("dest")>> \in PlainPlans /\ l \in PlainPlans
    BY ArchiveSteps, PlainTuples
  <2> QED  BY <2>1, ArchiveSteps, PlainTuples
<1>4. SoundPlan(e) /\ SoundPlan(f)
  BY LoopPlans DEF extract7z
<1> HIDE DEF t, c, d, e, f, l
<1>5. \A a \in DOMAIN t : SoundPlan(t[a])
  BY <1>1, <1>2, <1>3, <1>4, PlainSound
<1> QED  BY <1>5 DEF t

LEMMA BackupPlans ==
    ASSUME NEW overwrite \in BOOLEAN
    PROVE  \A a \in DOMAIN backupOperation(overwrite) : SoundPlan(backupOperation(overwrite)[a])
<1> DEFINE t == backupOperation(overwrite)   e == extractTAR(overwrite)   f == extract7z
           c == createTAR \o <<Hash("dest", "none"), Found("dest")>>   d == <<Remove("dest")>>   l == <<Local>>
           v == <<Hash("source", "none"), Local>>
<1>1. DOMAIN t = {"create", "verify", "restore", "restore_7z", "delete", "list"}
  BY DEF backupOperation
<1>2. /\ t["create"] = c /\ t["verify"] = v /\ t["restore"] = e /\ t["restore_7z"] = f
      /\ t["delete"] = d /\ t["list"] = l
  BY DEF backupOperation
<1>3. c \in PlainPlans /\ d \in PlainPlans /\ l \in PlainPlans /\ v \in PlainPlans
  <2>1. <<Hash("dest", "none"), Found("dest")>> \in PlainPlans
    BY ArchiveSteps, PlainTuples
  <2>2. c \in PlainPlans
    BY <2>1, ArchiveSteps, PlainTuples
  <2> QED  BY <2>2, ArchiveSteps, PlainTuples
<1>4. SoundPlan(e) /\ SoundPlan(f)
  BY LoopPlans DEF extract7z
<1> HIDE DEF t, c, d, e, f, l, v
<1>5. \A a \in DOMAIN t : SoundPlan(t[a])
  BY <1>1, <1>2, <1>3, <1>4, PlainSound
<1> QED  BY <1>5 DEF t

LEMMA ExportPlans == \A a \in DOMAIN exportOperation : SoundPlan(exportOperation[a])
<1> DEFINE t == exportOperation
           c == <<Found("source"), Hash("source", "none")>>
           d == createTAR \o <<Found("dest"), Hash("dest", "none")>>
<1>1. DOMAIN t = {"file", "directory"} /\ t["file"] = c /\ t["directory"] = d
  BY DEF exportOperation
<1>2. c \in PlainPlans /\ d \in PlainPlans
  <2>1. <<Found("dest"), Hash("dest", "none")>> \in PlainPlans
    BY ArchiveSteps, PlainTuples
  <2> QED  BY <2>1, ArchiveSteps, PlainTuples
<1> HIDE DEF t, c, d
<1>3. \A a \in DOMAIN t : SoundPlan(t[a])
  BY <1>1, <1>2, PlainSound
<1> QED  BY <1>3 DEF t

LEMMA DownloadPlans ==
    ASSUME NEW overwrite \in BOOLEAN, NEW sha \in BOOLEAN
    PROVE  \A a \in DOMAIN downloadOperation(overwrite, sha) :
             LET p == downloadOperation(overwrite, sha)[a] IN SoundPlan(p) /\ ~Loops(p)
<1>1. ASSUME NEW resume \in BOOLEAN
      PROVE  SoundPlan(Download(overwrite, sha, resume)) /\ ~Loops(Download(overwrite, sha, resume))
  <2> DEFINE s == Unless(overwrite, Lacks("dest")) \o Unless(resume, Ignoring(RemoveAny("part")))
             t == When(overwrite, Ignoring(RemoveAny("dest"))) \o <<Rename("part")>>
             v == IF sha THEN "v1" ELSE "none"
             m == <<Otherwise(Fetch, 3), Otherwise(Open("part", "response"), 2),
                    Then(Ignoring(Put("response")), 2), Retry(3), Hash("part", v)>>
  <2>1. /\ Lacks("dest") \in PlainSteps /\ RemoveAny("part") \in PlainSteps /\ RemoveAny("dest") \in PlainSteps
        /\ Rename("part") \in PlainSteps
    BY StepFacts DEF Places
  <2>2. Ignoring(RemoveAny("part")) \in PlainSteps /\ Ignoring(RemoveAny("dest")) \in PlainSteps
    <3>1. \A x \in PlainSteps : \A k \in Nat \ {0} : Ignoring(x) \in PlainSteps
      BY StepFacts
    <3>2. 1 \in Nat \ {0}
      OBVIOUS
    <3> QED  BY <2>1, <3>1, <3>2, Zenon
  <2>3. \A flag \in BOOLEAN : \A a \in PlainSteps :
          Unless(flag, a) \in Seq(PlainSteps) /\ When(flag, a) \in Seq(PlainSteps)
    BY DEF Unless, When
  <2>4. <<Rename("part")>> \in Seq(PlainSteps)
    BY <2>1
  <2>5. \A x, y \in Seq(PlainSteps) : x \o y \in Seq(PlainSteps)
    OBVIOUS
  <2>6. s \in Seq(PlainSteps)
    BY <2>1, <2>2, <2>3, <2>5, Zenon
  <2>7. t \in Seq(PlainSteps)
    BY <2>2, <2>3, <2>4, <2>5, Zenon
  <2>8. v \in {"none", "v1"}
    OBVIOUS
  <2> DEFINE u == s \o m \o t
  <2>9. Download(overwrite, sha, resume) = u
    <3> DEFINE s1 == Unless(overwrite, Lacks("dest"))   s2 == Unless(resume, Ignoring(RemoveAny("part")))
               t1 == When(overwrite, Ignoring(RemoveAny("dest")))   t2 == <<Rename("part")>>
    <3>1. Download(overwrite, sha, resume) = s1 \o s2 \o m \o t1 \o t2
      BY Zenon DEF Download
    <3>2. s1 \in Seq(PlainSteps) /\ s2 \in Seq(PlainSteps) /\ t1 \in Seq(PlainSteps) /\ t2 \in Seq(PlainSteps)
      BY <2>1, <2>2, <2>3, <2>4, Zenon
    <3>3. m \in Seq(Steps)
      <4>1. \A x \in PlainSteps : x \in Steps
        BY DEF PlainSteps
      <4>2. Fetch \in PlainSteps /\ Open("part", "response") \in PlainSteps /\ Put("response") \in PlainSteps
        BY StepFacts DEF Places, OpenModes, Contents
      <4>3. \A x \in PlainSteps : \A k \in Nat \ {0} :
              Then(x, k) \in PlainSteps /\ Otherwise(x, k) \in PlainSteps /\ Ignoring(x) \in PlainSteps
        BY StepFacts
      <4>4. 2 \in Nat \ {0} /\ 3 \in Nat \ {0}
        OBVIOUS
      <4>5. /\ Otherwise(Fetch, 3) \in Steps /\ Otherwise(Open("part", "response"), 2) \in Steps
            /\ Then(Ignoring(Put("response")), 2) \in Steps
        BY <4>1, <4>2, <4>3, <4>4, Zenon
      <4>6. Hash("part", v) \in Steps
        BY <2>8, <4>1, StepFacts DEF Places
      <4>7. Retry(3) \in Steps
        BY LoopFacts
      <4>8. \A x1, x2, x3, x4, x5 \in Steps : <<x1, x2, x3, x4, x5>> \in Seq(Steps)
        OBVIOUS
      <4> QED  BY <4>5, <4>6, <4>7, <4>8, Zenon
    <3> HIDE DEF s1, s2, t1, t2, m
    <3>4. t1 \in Seq(Steps) /\ t2 \in Seq(Steps) /\ s1 \o s2 \in Seq(Steps)
      BY <3>2 DEF PlainSteps
    <3>5. \A x, y, z \in Seq(Steps) : (x \o y) \o z = x \o (y \o z) /\ x \o y \in Seq(Steps)
      BY ConcatAssociative, ConcatProperties
    <3> DEFINE x == s1 \o s2 \o m
    <3>6. x \in Seq(Steps)
      BY <3>3, <3>4, <3>5
    <3> HIDE DEF x
    <3>7. (x \o t1) \o t2 = x \o (t1 \o t2)
      BY <3>4, <3>5, <3>6
    <3> QED  BY <3>1, <3>7, Zenon DEF s1, s2, t1, t2, x
  <2>10. SoundPlan(u) /\ ~Loops(u)
    <3> HIDE DEF s, t, v
    <3> QED  BY <2>6, <2>7, <2>8, DownloadPlan
  <2> QED  BY <2>9, <2>10, Zenon
<1>2. DOMAIN downloadOperation(overwrite, sha) = {"start", "restart"}
  BY DEF downloadOperation
<1>3. /\ downloadOperation(overwrite, sha)["start"] = Download(overwrite, sha, TRUE)
      /\ downloadOperation(overwrite, sha)["restart"] = Download(overwrite, sha, FALSE)
  BY Zenon DEF downloadOperation
<1>4. /\ SoundPlan(Download(overwrite, sha, TRUE)) /\ SoundPlan(Download(overwrite, sha, FALSE))
      /\ ~Loops(Download(overwrite, sha, TRUE)) /\ ~Loops(Download(overwrite, sha, FALSE))
  BY <1>1, Zenon
<1> QED  BY <1>2, <1>3, <1>4, Zenon

LEMMA UploadPlans ==
    ASSUME NEW overwrite \in BOOLEAN, NEW sha \in BOOLEAN
    PROVE  \A a \in DOMAIN uploadOperation(overwrite, sha) :
             LET p == uploadOperation(overwrite, sha)[a] IN SoundPlan(p) /\ ~Loops(p)
<1> DEFINE t == uploadOperation(overwrite, sha)
           m == IF overwrite THEN "trunc" ELSE "excl"   v == IF sha THEN "sent" ELSE "none"
           l == Unless(overwrite, Lacks("dest"))   w == When(overwrite, RemoveAny("dest"))
           x == <<Found("uploading"), SizeIs("uploading", Size), Hash("uploading", v)>>
           y == <<Rename("uploading")>>
           c == x \o l \o w \o y
<1>1. DOMAIN t = {"create", "status", "chunk_first", "chunk_rest", "chunk_both", "complete", "cancel"}
  BY DEF uploadOperation
<1>2. /\ t["create"] = <<Open("uploading", m)>> /\ t["status"] = <<Local>>
      /\ t["chunk_first"] = Chunk({1}) /\ t["chunk_rest"] = Chunk({2}) /\ t["chunk_both"] = Chunk({1, 2})
      /\ t["complete"] = c /\ t["cancel"] = <<RemoveAny("uploading")>>
  BY DEF uploadOperation
<1>3. /\ Open("uploading", m) \in PlainSteps /\ Local \in PlainSteps /\ RemoveAny("uploading") \in PlainSteps
      /\ Found("uploading") \in PlainSteps /\ SizeIs("uploading", Size) \in PlainSteps
      /\ Hash("uploading", v) \in PlainSteps /\ Rename("uploading") \in PlainSteps
      /\ Lacks("dest") \in PlainSteps /\ RemoveAny("dest") \in PlainSteps /\ Open("uploading", "create") \in PlainSteps
  BY StepFacts DEF Places, OpenModes, Size
<1>4. ASSUME NEW range \in {{1}, {2}, {1, 2}}
      PROVE  Chunk(range) \in PlainPlans
  <2> DEFINE first == CHOOSE i \in range : i - 1 \notin range
  <2>1. \E i \in range : i - 1 \notin range
    BY <1>4
  <2>2. first \in range
    BY <2>1
  <2>3. first - 1 \in Nat
    BY <2>2
  <2> HIDE DEF first
  <2>4. SizeIs("open", first - 1) \in PlainSteps
    BY <2>3, StepFacts
  <2>5. PutSent(range) \in PlainSteps
    BY StepFacts
  <2>6. Chunk(range) = <<Open("uploading", "create"), SizeIs("open", first - 1), PutSent(range)>>
    BY Zenon DEF Chunk, first
  <2> QED  BY <1>3, <2>4, <2>5, <2>6, PlainTuples
<1>5. c \in PlainPlans
  <2>1. x \in PlainPlans /\ y \in PlainPlans
    BY <1>3, PlainTuples
  <2>2. \A flag \in BOOLEAN : \A a \in PlainSteps : \A p \in PlainPlans :
          p \o Unless(flag, a) \in PlainPlans /\ p \o When(flag, a) \in PlainPlans
    BY PlainTuples
  <2>3. \A p, q \in PlainPlans : p \o q \in PlainPlans
    BY PlainTuples
  <2>4. x \o l \in PlainPlans
    BY <1>3, <2>1, <2>2, Zenon
  <2>5. x \o l \o w \in PlainPlans
    BY <1>3, <2>2, <2>4, Zenon
  <2> QED  BY <2>1, <2>3, <2>5, Zenon
<1>6. <<Open("uploading", m)>> \in PlainPlans /\ <<Local>> \in PlainPlans /\ <<RemoveAny("uploading")>> \in PlainPlans
  BY <1>3, PlainTuples
<1> HIDE DEF t, m, c
<1>7. \A a \in DOMAIN t : t[a] \in PlainPlans
  BY <1>1, <1>2, <1>4, <1>5, <1>6
<1> QED  BY <1>7, PlainSound DEF t

----------------------------------------------------------------------------
(* The requests.                                                           *)

\* A request is one that its tool offers: its plan is sound, and it works on
\* more than one entry only if its plan goes over them.
LEMMA RequestFacts ==
    ASSUME NEW q \in Requests
    PROVE  /\ DOMAIN q = {"tool", "action", "overwrite", "sha", "entries"}
           /\ q.overwrite \in BOOLEAN /\ q.sha \in BOOLEAN
           /\ q.tool \in DOMAIN Tools(q.overwrite, q.sha)
           /\ q.action \in DOMAIN Tools(q.overwrite, q.sha)[q.tool]
           /\ Plans[q] = Tools(q.overwrite, q.sha)[q.tool][q.action]
           /\ q.entries \in 1..Len(Entries)
           /\ q.entries > 1 => \E i \in DOMAIN Plans[q] : Plans[q][i].kind = "again"
<1>1. PICK o \in BOOLEAN, s \in BOOLEAN, n \in {1, Len(Entries)} : q \in Offers(o, s, n)
  BY DEF Requests
<1> DEFINE T == Tools(o, s)
<1>2. PICK tool \in DOMAIN T : \E a \in DOMAIN T[tool] :
        /\ q = Request(tool, a, o, s, n)
        /\ n > 1 => \E i \in DOMAIN T[tool][a] : T[tool][a][i].kind = "again"
  BY <1>1, Zenon DEF Offers
<1>7. PICK a \in DOMAIN T[tool] :
        /\ q = Request(tool, a, o, s, n)
        /\ n > 1 => \E i \in DOMAIN T[tool][a] : T[tool][a][i].kind = "again"
  BY <1>2
<1> HIDE DEF T
<1>3. q.tool = tool /\ q.action = a /\ q.overwrite = o /\ q.sha = s /\ q.entries = n
      /\ DOMAIN q = {"tool", "action", "overwrite", "sha", "entries"}
  BY <1>7 DEF Request
<1>4. Plans[q] = Tools(q.overwrite, q.sha)[q.tool][q.action]
  BY Zenon DEF Plans
<1>5. Plans[q] = T[tool][a]
  BY <1>3, <1>4 DEF T
<1>6. n \in 1..Len(Entries)
  BY EntriesAssumption
<1> QED  BY <1>2, <1>7, <1>3, <1>4, <1>5, <1>6 DEF T

LEMMA ToolsSound ==
    ASSUME NEW o \in BOOLEAN, NEW s \in BOOLEAN
    PROVE  /\ DOMAIN Tools(o, s) = {"fs_write", "fs_manage", "fs_hash", "archive", "backup", "export", "download", "upload"}
           /\ Tools(o, s)["fs_write"] = fsWriteOperation
           /\ Tools(o, s)["fs_manage"] = fsManageOperation(o)
           /\ Tools(o, s)["fs_hash"] = fsHashOperation
           /\ Tools(o, s)["archive"] = archiveOperation(o)
           /\ Tools(o, s)["backup"] = backupOperation(o)
           /\ Tools(o, s)["export"] = exportOperation
           /\ Tools(o, s)["download"] = downloadOperation(o, s)
           /\ Tools(o, s)["upload"] = uploadOperation(o, s)
BY DEF Tools

LEMMA PlansSound == \A q \in Requests : SoundPlan(Plans[q])
<1> SUFFICES ASSUME NEW q \in Requests PROVE SoundPlan(Plans[q])
  OBVIOUS
<1>1. PICK o, s, tool, a : o = q.overwrite /\ s = q.sha /\ tool = q.tool /\ a = q.action
  OBVIOUS
<1>2. o \in BOOLEAN /\ s \in BOOLEAN /\ tool \in DOMAIN Tools(o, s) /\ a \in DOMAIN Tools(o, s)[tool]
      /\ Plans[q] = Tools(o, s)[tool][a]
  BY <1>1, RequestFacts, Zenon
<1> DEFINE T == Tools(o, s)
<1>3. /\ DOMAIN T = {"fs_write", "fs_manage", "fs_hash", "archive", "backup", "export", "download", "upload"}
      /\ T["fs_write"] = fsWriteOperation /\ T["fs_manage"] = fsManageOperation(o)
      /\ T["fs_hash"] = fsHashOperation /\ T["archive"] = archiveOperation(o)
      /\ T["backup"] = backupOperation(o) /\ T["export"] = exportOperation
      /\ T["download"] = downloadOperation(o, s) /\ T["upload"] = uploadOperation(o, s)
  BY <1>2, ToolsSound, Zenon
<1>4. \A x \in DOMAIN T["fs_write"] : SoundPlan(T["fs_write"][x])
  BY <1>3, WritePlans, Zenon
<1>5. \A x \in DOMAIN T["fs_manage"] : SoundPlan(T["fs_manage"][x])
  BY <1>2, <1>3, ManagePlans, Zenon
<1>6. \A x \in DOMAIN T["fs_hash"] : SoundPlan(T["fs_hash"][x])
  BY <1>3, HashPlans, Zenon
<1>7. \A x \in DOMAIN T["archive"] : SoundPlan(T["archive"][x])
  BY <1>2, <1>3, ArchivePlans, Zenon
<1>8. \A x \in DOMAIN T["backup"] : SoundPlan(T["backup"][x])
  BY <1>2, <1>3, BackupPlans, Zenon
<1>9. \A x \in DOMAIN T["export"] : SoundPlan(T["export"][x])
  BY <1>3, ExportPlans, Zenon
<1>10. \A x \in DOMAIN T["download"] : SoundPlan(T["download"][x])
  BY <1>2, <1>3, DownloadPlans, Zenon
<1>11. \A x \in DOMAIN T["upload"] : SoundPlan(T["upload"][x])
  BY <1>2, <1>3, UploadPlans, Zenon
<1>12. tool \in DOMAIN T /\ a \in DOMAIN T[tool] /\ Plans[q] = T[tool][a]
  BY <1>2
<1> HIDE DEF T
<1>13. tool \in {"fs_write", "fs_manage", "fs_hash", "archive", "backup", "export", "download", "upload"}
  BY <1>3, <1>12
<1> QED  BY <1>4, <1>5, <1>6, <1>7, <1>8, <1>9, <1>10, <1>11, <1>12, <1>13

----------------------------------------------------------------------------
(* Inodes.  There is one for each path and each handler, so one is free    *)
(* when a file is made: what a handler has open for reading is a source,   *)
(* and those keep to the inodes that have their number.                    *)

LEMMA PathsFinite ==
    /\ IsFiniteSet(Paths) /\ Cardinality(Paths) \in Nat /\ Cardinality(Handlers) \in Nat
    /\ Len(Entries) \in Nat /\ Len(Entries) > 0
    /\ \A i \in 1..Len(Entries) : Entries[i] \in Names /\ i \in Inodes
    /\ \A e \in Names : \E i \in 1..Len(Entries) : e = Entries[i]
    /\ 0 \notin Inodes /\ Inodes \subseteq Nat
<1> DEFINE n == Len(Entries)
<1>1. n \in Nat /\ n > 0 /\ DOMAIN Entries = 1..n
  BY EntriesAssumption
<1>2. (\A i \in 1..n : Entries[i] \in Names) /\ (\A e \in Names : \E i \in 1..n : e = Entries[i])
  BY <1>1 DEF Names, Range
<1>3. IsFiniteSet(1..n)
  BY <1>1, FS_Interval
<1>4. IsFiniteSet(Names)
  <2> DEFINE f == [i \in 1..n |-> Entries[i]]
  <2>1. f \in Surjection(1..n, Names)
    BY <1>2 DEF Surjection
  <2> QED  BY <1>3, <2>1, FS_Surjection
<1>5. IsFiniteSet({"source", "dest"}) /\ IsFiniteSet({"part", "uploading"}) /\ IsFiniteSet({Entries[1]})
  <2>1. \A x, y : IsFiniteSet({x, y})
    <3> SUFFICES ASSUME NEW x, NEW y PROVE IsFiniteSet({x, y})
      OBVIOUS
    <3>1. IsFiniteSet({x} \cup {y})
      BY FS_Singleton, FS_AddElement
    <3>2. {x} \cup {y} = {x, y}
      OBVIOUS
    <3> QED  BY <3>1, <3>2
  <2> QED  BY <2>1, FS_Singleton
<1>6. IsFiniteSet(Paths)
  BY <1>4, <1>5, FS_Product, FS_Union DEF Paths
<1>7. Cardinality(Paths) \in Nat /\ Cardinality(Handlers) \in Nat
  BY <1>6, BoundsAssumption, FS_CardinalityType
<1>8. n <= Cardinality(Paths)
  <2> DEFINE f == [i \in 1..n |-> <<"source", Entries[i]>>]
  <2>1. f \in [1..n -> Paths]
    BY <1>2 DEF Paths
  <2>2. f \in Injection(1..n, Paths)
    <3>1. \A i, j \in 1..n : f[i] = f[j] => i = j
      <4>1. \A i, j \in 1..n : <<"source", Entries[i]>> = <<"source", Entries[j]>> => Entries[i] = Entries[j]
        OBVIOUS
      <4> QED  BY <4>1, EntriesAssumption
    <3> HIDE DEF f
    <3> QED  BY <2>1, <3>1 DEF Injection, IsInjective
  <2>3. Cardinality(1..n) <= Cardinality(Paths)
    BY <1>6, <2>2, FS_Injection
  <2>4. Cardinality(1..n) = n
    BY <1>1, FS_Interval
  <2> QED  BY <2>3, <2>4
<1> QED  BY <1>1, <1>2, <1>6, <1>7, <1>8 DEF Inodes

\* A source keeps the inode of its number while it is there.
Sources(f) == \A i \in 1..Len(Entries) : f[<<"source", Entries[i]>>] \in {0, i}

\* The inodes in use.
Busy == Range(files) \cup {handler[o].fd : o \in Handlers} \cup {handler[o].in : o \in Handlers}

LEMMA FreshFree ==
    ASSUME files \in [Paths -> Inodes \cup {0}], Sources(files),
           \A o \in Handlers : handler[o].in \in 0..Len(Entries),
           NEW p0 \in Paths, p0[1] # "source", files[p0] = 0
    PROVE  Fresh \in Inodes /\ Fresh \notin Busy
<1> DEFINE n == Len(Entries)
           index(e) == CHOOSE i \in 1..n : Entries[i] = e
           g == [p \in Paths \ {p0} |-> IF p[1] = "source" THEN index(p[2]) ELSE files[p]]
           A == Range(g)
           d == [o \in Handlers |-> handler[o].fd]
           B == Range(d)
<1>1. \A i \in 1..n : index(Entries[i]) = i
  BY EntriesAssumption
<1> HIDE DEF index
<1>2. \A x \in Busy : x \in A \cup B \cup {0}
  <2> SUFFICES ASSUME NEW x \in Busy, x # 0 PROVE x \in A \cup B
    OBVIOUS
  <2>1. \A i \in 1..n : <<"source", Entries[i]>> \in Paths \ {p0}
    BY PathsFinite DEF Paths
  <2>2. \A i \in 1..n : i \in A
    <3> SUFFICES ASSUME NEW i \in 1..n PROVE i \in A
      OBVIOUS
    <3>1. g[<<"source", Entries[i]>>] = i
      BY <1>1, <2>1
    <3> QED  BY <2>1, <3>1 DEF Range
  <2>3. CASE x \in Range(files)
    <3>1. PICK p \in Paths : x = files[p]
      BY <2>3 DEF Range
    <3>2. CASE p[1] = "source"
      <4>1. PICK i \in 1..n : p = <<"source", Entries[i]>>
        BY <3>2, PathsFinite DEF Paths
      <4>2. x = i
        BY <3>1, <4>1 DEF Sources
      <4> QED  BY <2>2, <4>2
    <3>3. CASE p[1] # "source"
      <4>1. p \in Paths \ {p0} /\ g[p] = x
        BY <3>1, <3>3
      <4> QED  BY <4>1 DEF Range
    <3> QED  BY <3>2, <3>3
  <2>4. CASE x \in {handler[o].fd : o \in Handlers}
    <3>1. PICK o \in Handlers : x = handler[o].fd
      BY <2>4
    <3>2. d[o] = x /\ o \in DOMAIN d
      BY <3>1
    <3> QED  BY <3>2 DEF Range
  <2>5. CASE x \in {handler[o].in : o \in Handlers}
    <3>1. x \in 1..n
      BY <2>5, PathsFinite
    <3> QED  BY <2>2, <3>1
  <2> QED  BY <2>3, <2>4, <2>5 DEF Busy
<1>3. IsFiniteSet(A) /\ Cardinality(A) <= Cardinality(Paths) - 1
  <2>1. IsFiniteSet(Paths \ {p0}) /\ Cardinality(Paths \ {p0}) = Cardinality(Paths) - 1
    BY PathsFinite, FS_RemoveElement
  <2>2. g \in Surjection(Paths \ {p0}, A)
    BY DEF Surjection, Range
  <2> HIDE DEF g, A
  <2> QED  BY <2>1, <2>2, FS_Surjection
<1>4. IsFiniteSet(B) /\ Cardinality(B) <= Cardinality(Handlers)
  <2>1. d \in Surjection(Handlers, B)
    BY DEF Surjection, Range
  <2> HIDE DEF d, B
  <2> QED  BY <2>1, BoundsAssumption, FS_Surjection
<1> HIDE DEF A, B, g, d
<1>5. IsFiniteSet(A \cup B) /\ Cardinality(A \cup B) <= Cardinality(Paths) - 1 + Cardinality(Handlers)
  <2>1. IsFiniteSet(A \cup B) /\ Cardinality(A \cup B) = Cardinality(A) + Cardinality(B) - Cardinality(A \cap B)
    BY <1>3, <1>4, FS_Union
  <2>2. Cardinality(A) \in Nat /\ Cardinality(B) \in Nat /\ Cardinality(A \cap B) \in Nat
    BY <1>3, <1>4, FS_Intersection, FS_CardinalityType
  <2> QED  BY <1>3, <1>4, <2>1, <2>2, PathsFinite
<1>6. \E i \in Inodes : i \notin A \cup B
  <2> SUFFICES ASSUME Inodes \subseteq A \cup B PROVE FALSE
    OBVIOUS
  <2>1. Cardinality(Inodes) <= Cardinality(A \cup B)
    BY <1>5, FS_Subset
  <2>2. Cardinality(Inodes) = Cardinality(Paths) + Cardinality(Handlers)
    <3> DEFINE m == Cardinality(Paths) + Cardinality(Handlers)
    <3>1. m \in Nat
      BY PathsFinite
    <3>2. Inodes = 1..m
      BY DEF Inodes
    <3> HIDE DEF m
    <3>3. Cardinality(1..m) = m
      BY <3>1, FS_Interval
    <3> QED  BY <3>2, <3>3 DEF m
  <2>3. Cardinality(A \cup B) \in Nat
    BY <1>5, FS_CardinalityType
  <2> QED  BY <1>5, <2>1, <2>2, <2>3, PathsFinite
<1>7. \E i \in Inodes : i \notin Busy
  BY <1>2, <1>6, PathsFinite
<1> DEFINE T == {i \in Inodes : i \notin Busy}
<1>8. PICK x \in T : \A y \in T : ~(<<y, x>> \in OpToRel(<, Nat))
  <2>1. T \subseteq Nat /\ T # {}
    BY <1>7, PathsFinite
  <2> HIDE DEF T
  <2> QED  BY <2>1, WFMin, NatLessThanWellFounded
<1>9. \A j \in 1..(x - 1) : j \in Busy
  <2> SUFFICES ASSUME NEW j \in 1..(x - 1), j \notin Busy PROVE FALSE
    OBVIOUS
  <2>1. x \in Nat /\ j \in Nat /\ j < x /\ j \in T
    BY PathsFinite DEF Inodes
  <2>2. <<j, x>> \in OpToRel(<, Nat)
    BY <2>1 DEF OpToRel
  <2> QED  BY <1>8, <2>1, <2>2
<1>10. x \in Inodes /\ x \notin Busy
  OBVIOUS
<1>11. Fresh = CHOOSE i \in Inodes : i \notin Busy /\ \A j \in 1..(i - 1) : j \in Busy
  BY Zenon DEF Fresh, Busy
<1> QED  BY <1>9, <1>10, <1>11

----------------------------------------------------------------------------
(* The types.  The plan of a handler that runs is that of its request, and *)
(* the place it has reached is a place of the plan.                        *)

Fields == {"request", "plan", "pc", "entry", "fd", "in", "read", "append", "response", "attempts", "beyond",
           "partial", "made", "with", "answer"}

HandlerType(r) ==
    /\ DOMAIN r = Fields
    /\ r.request \in Requests \cup {Nothing}
    /\ r.pc \in Nat
    /\ r.pc > 0 => /\ r.request \in Requests /\ r.plan = Plans[r.request]
                   /\ r.pc \in 1..Len(r.plan)
    /\ r.entry \in 1..r.request.entries
    /\ r.fd \in Inodes \cup {0} /\ r.in \in 0..Len(Entries)
    /\ r.attempts \in 0..Retries
    /\ r.answer \in Answers

PastType == [kind : DOMAIN MaxRequests, requests : Nat, failures : Nat, crashes : 0..1,
             gentle : BOOLEAN, steady : BOOLEAN]

Shape ==
    /\ files \in [Paths -> Inodes \cup {0}] /\ Sources(files)
    /\ DOMAIN data = Inodes
    /\ DOMAIN handler = Handlers /\ \A h \in Handlers : HandlerType(handler[h])
    /\ past \in PastType

LEMMA AnsweredType ==
    /\ HandlerType(Idle) /\ Idle.pc = 0 /\ Idle.fd = 0 /\ Idle.in = 0
    /\ \A code \in Answers : /\ HandlerType(Answered(code))
                             /\ Answered(code).pc = 0 /\ Answered(code).fd = 0 /\ Answered(code).in = 0
<1>1. HandlerType(Idle)
  <2>1. Nothing.entries = 1 /\ 0 \in 0..Len(Entries) /\ 0 \in 0..Retries
    BY PathsFinite, BoundsAssumption DEF Nothing, Request
  <2> QED  BY <2>1 DEF HandlerType, Idle, Fields, Answers
<1>2. ASSUME NEW code \in Answers
      PROVE  /\ HandlerType(Answered(code))
             /\ Answered(code).pc = 0 /\ Answered(code).fd = 0 /\ Answered(code).in = 0
  <2>1. Answered(code) = [Idle EXCEPT !.answer = code]
    BY DEF Answered
  <2>2. DOMAIN Idle = Fields /\ Idle.pc = 0 /\ Idle.fd = 0 /\ Idle.in = 0
    BY DEF Idle, Fields
  <2> HIDE DEF Answers
  <2> QED  BY <1>1, <2>1, <2>2 DEF HandlerType, Fields
<1> QED  BY <1>1, <1>2 DEF Idle

\* The step a running handler has reached.
LEMMA StepFound ==
    ASSUME NEW r, HandlerType(r), r.pc > 0
    PROVE  /\ r.plan[r.pc] \in Steps /\ SoundStep(r.plan, r.pc) /\ Len(r.plan) \in Nat
           /\ r.request \in Requests /\ r.plan = Plans[r.request] /\ r.pc \in 1..Len(r.plan)
<1>1. r.request \in Requests /\ r.plan = Plans[r.request] /\ r.pc \in 1..Len(r.plan)
  BY DEF HandlerType
<1>2. SoundPlan(r.plan)
  BY <1>1, PlansSound
<1> QED  BY <1>1, <1>2 DEF SoundPlan

\* After a step a handler has answered, or is further on in its plan.
LEMMA AfterType ==
    ASSUME NEW r, HandlerType(r), r.pc > 0, NEW s, s = r.plan[r.pc], NEW ok \in BOOLEAN
    PROVE  LET a == After(r, s, ok) IN
           /\ HandlerType(a)
           /\ \/ a.pc = 0 /\ a.fd = 0 /\ a.in = 0
              \/ \E k \in Nat : \E part : k > r.pc /\ a = [r EXCEPT !.pc = k, !.partial = part]
<1>1. s \in Steps /\ Len(r.plan) \in Nat /\ r.pc \in 1..Len(r.plan)
  BY StepFound
<1> DEFINE jump == IF ok THEN s.next ELSE s.orElse
           part == r.partial \/ (~ok /\ s.code = "partial")
<1>2. jump \in Nat /\ s.code \in Answers /\ {"done", "partial"} \subseteq Answers
  BY <1>1 DEF Steps, Answers
<1>3. CASE jump = 0
  <2>1. After(r, s, ok) = Answered(s.code)
    BY <1>3 DEF After
  <2> QED  BY <1>2, <2>1, AnsweredType
<1>4. CASE jump # 0 /\ r.pc + jump > Len(r.plan)
  <2>1. After(r, s, ok) = Answered(IF part THEN "partial" ELSE "done")
    BY <1>4 DEF After
  <2> QED  BY <1>2, <2>1, AnsweredType
<1>5. CASE jump # 0 /\ ~(r.pc + jump > Len(r.plan))
  <2> DEFINE k == r.pc + jump
  <2>1. After(r, s, ok) = [r EXCEPT !.pc = k, !.partial = part]
    BY <1>5 DEF After
  <2>2. k \in Nat /\ k > r.pc /\ k \in 1..Len(r.plan)
    BY <1>1, <1>2, <1>5
  <2> HIDE DEF jump, part, k
  <2>3. HandlerType([r EXCEPT !.pc = k, !.partial = part])
    BY <2>2 DEF HandlerType, Fields
  <2> QED  BY <2>1, <2>2, <2>3
<1> QED  BY <1>3, <1>4, <1>5

LEMMA BecomeType ==
    ASSUME Shape, NEW h \in Handlers, NEW f \in [Paths -> Inodes \cup {0}], Sources(f), NEW d, NEW r, HandlerType(r),
           Become(h, f, d, r), past' \in PastType
    PROVE  Shape'
<1>1. handler' = [handler EXCEPT ![h] = r] /\ files' = f /\ DOMAIN data' = Inodes
  BY DEF Become
<1>2. DOMAIN handler' = Handlers /\ \A o \in Handlers : handler'[o] = IF o = h THEN r ELSE handler[o]
  BY <1>1 DEF Shape
<1> QED  BY <1>1, <1>2 DEF Shape, HandlerType, Sources

LEMMA GoesType ==
    ASSUME Shape, NEW h \in Handlers, Running(h), NEW ok \in BOOLEAN, Goes(h, ok)
    PROVE  Shape'
<1>1. HandlerType(handler[h]) /\ handler[h].pc > 0
  BY DEF Shape, Running
<1>2. HandlerType(After(handler[h], StepOf(h), ok))
  BY <1>1, AfterType DEF StepOf
<1>3. Become(h, files, data, After(handler[h], StepOf(h), ok)) /\ past' \in PastType
  BY DEF Goes, Shape
<1> QED  BY <1>2, <1>3, BecomeType DEF Shape

LEMMA FailsType ==
    ASSUME Shape, NEW h \in Handlers, Running(h), Fails(h)
    PROVE  Shape'
<1>1. HandlerType(handler[h]) /\ handler[h].pc > 0
  BY DEF Shape, Running
<1>2. HandlerType(After(handler[h], StepOf(h), FALSE))
  BY <1>1, AfterType DEF StepOf
<1>3. Become(h, files, data, After(handler[h], StepOf(h), FALSE))
  BY DEF Fails
<1>4. past' \in PastType
  BY DEF Fails, Shape, PastType
<1> QED  BY <1>2, <1>3, <1>4, BecomeType DEF Shape

\* The path a step works on is one of the model, and so are all that a request
\* works on.
LEMMA PathFacts ==
    ASSUME NEW r, HandlerType(r), r.pc > 0
    PROVE  /\ r.entry \in 1..Len(Entries) /\ r.request.entries \in 1..Len(Entries)
           /\ Entries[r.entry] \in {Entries[i] : i \in 1..r.request.entries}
           /\ \A i \in 1..r.request.entries : Entries[i] \in Names
           /\ \A place \in {"source", "dest"} : \A e \in Names : <<place, e>> \in Paths
           /\ LET s == r.plan[r.pc] IN
              s.kind \in {"open", "rename"} /\ s.place \in {"part", "uploading"}
                => /\ r.request.entries = 1 /\ r.entry = 1
                   /\ <<s.place, Entries[1]>> \in Paths
<1>1. r.request.entries \in 1..Len(Entries) /\ r.entry \in 1..r.request.entries
  BY RequestFacts DEF HandlerType
<1>2. \A place \in {"source", "dest"} : \A e \in Names : <<place, e>> \in Paths
  BY DEF Paths
<1>3. \A place \in {"part", "uploading"} : <<place, Entries[1]>> \in Paths
  BY DEF Paths
<1> DEFINE s == r.plan[r.pc]
<1>4. ASSUME s.kind \in {"open", "rename"}, s.place \in {"part", "uploading"}
      PROVE  r.request.entries = 1
  <2>1. r.request \in Requests /\ r.plan = Plans[r.request] /\ r.pc \in 1..Len(r.plan)
    BY StepFound
  <2>2. SoundPlan(r.plan)
    BY <2>1, PlansSound
  <2>3. ~Loops(r.plan)
    BY <1>4, <2>1, <2>2 DEF SoundPlan
  <2>4. DOMAIN r.plan = 1..Len(r.plan)
    BY <2>2 DEF SoundPlan
  <2>5. ~(\E i \in DOMAIN r.plan : r.plan[i].kind = "again")
    BY <2>3, <2>4 DEF Loops
  <2>6. ~(r.request.entries > 1)
    BY <2>1, <2>5, RequestFacts
  <2> QED  BY <1>1, <2>6, PathsFinite
<1> HIDE DEF s
<1>5. r.entry \in 1..Len(Entries) /\ \A i \in 1..r.request.entries : Entries[i] \in Names
  BY <1>1, PathsFinite
<1>6. s.kind \in {"open", "rename"} /\ s.place \in {"part", "uploading"}
        => r.request.entries = 1 /\ r.entry = 1 /\ <<s.place, Entries[1]>> \in Paths
  BY <1>1, <1>3, <1>4
<1> QED  BY <1>1, <1>2, <1>5, <1>6 DEF s

\* What a step may change of its handler before it leads on.
LEMMA RecordType ==
    ASSUME NEW r, HandlerType(r)
    PROVE  /\ \A x \in 0..Len(Entries) : HandlerType([r EXCEPT !.in = x])
           /\ \A x \in Inodes : \A made, append :
                HandlerType([r EXCEPT !.fd = x, !.read = 0, !.made = made, !.append = append])
           /\ \A x : HandlerType([r EXCEPT !.read = x])
           /\ HandlerType([r EXCEPT !.fd = 0, !.in = 0, !.read = 0])
           /\ \A made : HandlerType([r EXCEPT !.made = made])
           /\ \A append, beyond, response :
                HandlerType([r EXCEPT !.append = append, !.beyond = beyond, !.response = response])
           /\ \A beyond : HandlerType([r EXCEPT !.beyond = beyond])
           /\ HandlerType([r EXCEPT !.entry = 1])
<1> USE DEF HandlerType, Fields
<1>1. \A x \in 0..Len(Entries) : HandlerType([r EXCEPT !.in = x])
  OBVIOUS
<1>2. \A x \in Inodes : \A made, append :
        HandlerType([r EXCEPT !.fd = x, !.read = 0, !.made = made, !.append = append])
  OBVIOUS
<1>3. \A x : HandlerType([r EXCEPT !.read = x])
  OBVIOUS
<1>4. HandlerType([r EXCEPT !.fd = 0, !.in = 0, !.read = 0])
  OBVIOUS
<1>5. \A made : HandlerType([r EXCEPT !.made = made])
  OBVIOUS
<1>6. \A append, beyond, response :
        HandlerType([r EXCEPT !.append = append, !.beyond = beyond, !.response = response])
  OBVIOUS
<1>7. \A beyond : HandlerType([r EXCEPT !.beyond = beyond])
  OBVIOUS
<1>8. HandlerType([r EXCEPT !.entry = 1])
  <2>1. 1 \in 1..r.request.entries
    BY RequestFacts DEF Nothing, Request
  <2> QED  BY <2>1
<1> QED  BY <1>1, <1>2, <1>3, <1>4, <1>5, <1>6, <1>7, <1>8

LEMMA InitShape == Init => Shape
<1> SUFFICES ASSUME Init PROVE Shape
  OBVIOUS
<1>1. PICK kind \in DOMAIN MaxRequests, there \in SUBSET Names, left \in {"v0", "v1"} \X (0..(Size - 1)),
           parted \in BOOLEAN :
        files = [p \in Paths |-> IF p \in Named(kind, there, parted) THEN Initially(p) ELSE 0]
  BY SMT DEF Init
<1>2. DOMAIN data = Inodes /\ handler = [h \in Handlers |-> Idle]
  BY DEF Init
<1>3. past \in PastType
  <2>1. PICK kind2 \in DOMAIN MaxRequests, there2 \in SUBSET Names, left2 \in {"v0", "v1"} \X (0..(Size - 1)),
             parted2 \in BOOLEAN :
          past = [kind |-> kind2, requests |-> 0, failures |-> 0, crashes |-> 0, gentle |-> TRUE,
                  steady |-> left2[1] = "v1" \/ left2[2] = 0]
    BY Zenon DEF Init
  <2> QED  BY <2>1 DEF PastType
<1>4. DOMAIN handler = Handlers /\ \A h \in Handlers : HandlerType(handler[h])
  BY <1>2, AnsweredType
<1> DEFINE n == Len(Entries)
<1>5. /\ \A i \in 1..n : Initially(<<"source", Entries[i]>>) = i /\ Initially(<<"dest", Entries[i]>>) = n + i
      /\ Initially(<<"part", Entries[1]>>) = 2 * n + 1
  <2>1. \A i \in 1..n : (CHOOSE j \in DOMAIN Entries : Entries[j] = Entries[i]) = i
    BY EntriesAssumption
  <2> QED  BY <2>1 DEF Initially
<1>6. n \in Nat /\ n > 0 /\ n + n + 1 <= Cardinality(Paths) + Cardinality(Handlers)
  <2>1. n \in Nat /\ n > 0
    BY PathsFinite
  <2> DEFINE f == [k \in 1..(n + n + 1) |->
               IF k <= n THEN <<"source", Entries[k]>>
               ELSE IF k <= n + n THEN <<"dest", Entries[k - n]>> ELSE <<"part", Entries[1]>>]
  <2>2. \A k \in 1..(n + n + 1) : f[k] \in Paths
    <3>1. \A k \in 1..n : Entries[k] \in Names
      BY PathsFinite
    <3>2. \A k \in 1..n : <<"source", Entries[k]>> \in Paths /\ <<"dest", Entries[k]>> \in Paths
      BY <3>1 DEF Paths
    <3>3. <<"part", Entries[1]>> \in Paths
      BY DEF Paths
    <3>4. \A k \in 1..(n + n + 1) : k > n /\ k <= n + n => k - n \in 1..n
      BY <2>1
    <3> SUFFICES ASSUME NEW k \in 1..(n + n + 1) PROVE f[k] \in Paths
      OBVIOUS
    <3>5. CASE k <= n
      <4>1. f[k] = <<"source", Entries[k]>> /\ k \in 1..n
        BY <2>1, <3>5
      <4> QED  BY <3>2, <4>1
    <3>6. CASE k > n /\ k <= n + n
      <4>1. f[k] = <<"dest", Entries[k - n]>>
        BY <2>1, <3>6
      <4> QED  BY <3>2, <3>4, <3>6, <4>1
    <3>7. CASE k > n + n
      BY <2>1, <3>3, <3>7
    <3> QED  BY <2>1, <3>5, <3>6, <3>7
  <2>3. \A k, m \in 1..(n + n + 1) : f[k] = f[m] => k = m
    <3> SUFFICES ASSUME NEW k \in 1..(n + n + 1), NEW m \in 1..(n + n + 1), f[k] = f[m] PROVE k = m
      OBVIOUS
    <3>1. \A x, y, e, g : <<x, e>> = <<y, g>> => x = y /\ e = g
      OBVIOUS
    <3>2. CASE k <= n
      <4>1. f[k] = <<"source", Entries[k]>>
        BY <3>2
      <4>2. m <= n /\ f[m] = <<"source", Entries[m]>>
        BY <3>1, <4>1
      <4> QED  BY <2>1, <3>1, <3>2, <4>1, <4>2, EntriesAssumption
    <3>3. CASE k > n /\ k <= n + n
      <4>1. f[k] = <<"dest", Entries[k - n]>>
        BY <3>3, <2>1
      <4>2. m > n /\ m <= n + n /\ f[m] = <<"dest", Entries[m - n]>>
        BY <2>1, <3>1, <4>1
      <4>3. Entries[k - n] = Entries[m - n] /\ k - n \in 1..n /\ m - n \in 1..n
        BY <2>1, <3>1, <3>3, <4>1, <4>2
      <4>4. k - n = m - n
        BY <4>3, EntriesAssumption
      <4> QED  BY <2>1, <4>4
    <3>4. CASE k > n + n
      <4>1. f[k] = <<"part", Entries[1]>>
        BY <3>4, <2>1
      <4>2. m > n + n
        BY <2>1, <3>1, <4>1
      <4> QED  BY <2>1, <3>4, <4>2
    <3> QED  BY <2>1, <3>2, <3>3, <3>4
  <2>4. f \in Injection(1..(n + n + 1), Paths)
    <3>1. f \in [1..(n + n + 1) -> Paths]
      BY <2>2
    <3> HIDE DEF f
    <3> QED  BY <2>3, <3>1 DEF Injection, IsInjective
  <2>5. Cardinality(1..(n + n + 1)) <= Cardinality(Paths)
    BY <2>4, PathsFinite, FS_Injection
  <2>6. Cardinality(1..(n + n + 1)) = n + n + 1
    BY <2>1, FS_Interval
  <2> QED  BY <2>1, <2>5, <2>6, PathsFinite
<1> DEFINE named == Named(kind, there, parted)
<1>7. files = [p \in Paths |-> IF p \in named THEN Initially(p) ELSE 0]
  BY <1>1, Zenon
<1>8. files \in [Paths -> Inodes \cup {0}]
  <2>1. \A p \in named : Initially(p) \in Inodes
    <3> SUFFICES ASSUME NEW p \in named PROVE Initially(p) \in Inodes
      OBVIOUS
    <3>1. \/ \E e \in Names : p = <<"source", e>> \/ p = <<"dest", e>>
          \/ p = <<"part", Entries[1]>>
      BY DEF Named
    <3>2. \/ \E i \in 1..n : p = <<"source", Entries[i]>> \/ p = <<"dest", Entries[i]>>
          \/ p = <<"part", Entries[1]>>
      <4> HIDE DEF named
      <4> QED  BY <3>1, PathsFinite
    <3>3. Initially(p) \in 1..(n + n + 1)
      <4>1. \A i \in 1..n : i \in 1..(n + n + 1) /\ n + i \in 1..(n + n + 1)
        BY <1>6
      <4>2. 2 * n + 1 \in 1..(n + n + 1)
        BY <1>6
      <4> HIDE DEF named, n
      <4> QED  BY <1>5, <3>2, <4>1, <4>2, ZenonT(30)
    <3>4. Cardinality(Paths) \in Nat /\ Cardinality(Handlers) \in Nat
      BY PathsFinite
    <3> QED  BY <1>6, <3>3, <3>4 DEF Inodes
  <2> HIDE DEF named
  <2> QED  BY <1>7, <2>1
<1>9. Sources(files)
  <2> SUFFICES ASSUME NEW i \in 1..n PROVE files[<<"source", Entries[i]>>] \in {0, i}
    BY DEF Sources
  <2>1. <<"source", Entries[i]>> \in Paths
    BY PathsFinite DEF Paths
  <2> HIDE DEF named
  <2> QED  BY <1>5, <1>7, <2>1
<1> QED  BY <1>2, <1>3, <1>4, <1>8, <1>9 DEF Shape

----------------------------------------------------------------------------
(* One lemma for each operation.                                           *)

\* An operation that ends well or not, and changes what its record may change.
LEMMA LeadsType ==
    ASSUME Shape, NEW h \in Handlers, Running(h), NEW f \in [Paths -> Inodes \cup {0}], Sources(f), NEW d, NEW r,
           HandlerType(r), r.pc = handler[h].pc, r.plan = handler[h].plan, NEW ok \in BOOLEAN,
           Become(h, f, d, After(r, StepOf(h), ok)), past' \in PastType
    PROVE  Shape'
<1>1. HandlerType(After(r, StepOf(h), ok))
  BY AfterType DEF StepOf, Running
<1> QED  BY <1>1, BecomeType

LEMMA HandlerFound ==
    ASSUME Shape, NEW h \in Handlers, Running(h)
    PROVE  /\ HandlerType(handler[h]) /\ handler[h].pc > 0
           /\ StepOf(h) \in Steps /\ SoundStep(handler[h].plan, handler[h].pc)
           /\ handler[h].pc \in 1..Len(handler[h].plan) /\ Len(handler[h].plan) \in Nat
           /\ files \in [Paths -> Inodes \cup {0}] /\ Sources(files) /\ past \in PastType
<1>1. HandlerType(handler[h]) /\ handler[h].pc > 0
  BY DEF Shape, Running
<1> QED  BY <1>1, StepFound DEF Shape, StepOf

LEMMA LookType == ASSUME Shape, NEW h \in Handlers, Look(h) PROVE Shape'
<1>1. Running(h) /\ \E ok \in BOOLEAN : Goes(h, ok)
  <2>1. \A x, y : (x = y) \in BOOLEAN /\ (x # y) \in BOOLEAN
    OBVIOUS
  <2>2. CASE At(h, "found") /\ Goes(h, Present(h, StepOf(h).place) # {})
    BY <2>2 DEF At
  <2>3. CASE At(h, "vacant") /\ Goes(h, IF StepOf(h).mode = "all" THEN Present(h, StepOf(h).place) = {}
                                        ELSE files[PathOf(h)] = 0)
    <3>1. (IF StepOf(h).mode = "all" THEN Present(h, StepOf(h).place) = {} ELSE files[PathOf(h)] = 0) \in BOOLEAN
      OBVIOUS
    <3> QED  BY <2>3, <3>1, Zenon DEF At
  <2>4. CASE At(h, "size") /\ LET inode == IF StepOf(h).place = "open" THEN handler[h].fd ELSE files[PathOf(h)]
                              IN  Goes(h, inode # 0 /\ Len(data[inode]) = StepOf(h).mode)
    <3> DEFINE inode == IF StepOf(h).place = "open" THEN handler[h].fd ELSE files[PathOf(h)]
    <3>1. (inode # 0 /\ Len(data[inode]) = StepOf(h).mode) \in BOOLEAN
      OBVIOUS
    <3> QED  BY <2>4, <3>1, Zenon DEF At
  <2> QED  BY <2>2, <2>3, <2>4, Zenon DEF Look
<1> QED  BY <1>1, GoesType

LEMMA OpenInputType == ASSUME Shape, NEW h \in Handlers, OpenInput(h) PROVE Shape'
<1>1. Running(h) /\ StepOf(h).kind = "input"
  BY DEF OpenInput, At
<1>2. HandlerType(handler[h]) /\ handler[h].pc > 0 /\ past \in PastType
      /\ files \in [Paths -> Inodes \cup {0}] /\ Sources(files) /\ handler[h].pc \in 1..Len(handler[h].plan)
  BY <1>1, HandlerFound
<1>3. StepOf(h).place = "source" /\ handler[h].pc + 3 \in 1..Len(handler[h].plan) /\ DOMAIN handler[h] = Fields
  BY <1>1, <1>2, HandlerFound DEF SoundStep, StepOf, HandlerType
<1> DEFINE inode == files[PathOf(h)]
           r == [handler[h] EXCEPT !.in = inode]
<1>4. inode \in 0..Len(Entries)
  <2>1. handler[h].entry \in 1..Len(Entries)
    BY <1>2, PathFacts
  <2>2. inode \in {0, handler[h].entry}
    BY <1>2, <1>3, <2>1 DEF Sources, PathOf
  <2> QED  BY <2>1, <2>2, PathsFinite
<1>5. \/ Become(h, files, data, After(r, StepOf(h), TRUE)) /\ UNCHANGED past
      \/ Goes(h, FALSE)
      \/ Become(h, files, data, [handler[h] EXCEPT !.pc = @ + 3]) /\ UNCHANGED past
  BY DEF OpenInput
<1>6. HandlerType(r) /\ r.pc = handler[h].pc /\ r.plan = handler[h].plan
  <2> HIDE DEF inode
  <2> QED  BY <1>2, <1>3, <1>4, RecordType DEF Fields
<1>7. HandlerType([handler[h] EXCEPT !.pc = @ + 3])
  BY <1>2, <1>3 DEF HandlerType, Fields
<1> HIDE DEF r, inode
<1>8. CASE Become(h, files, data, After(r, StepOf(h), TRUE)) /\ UNCHANGED past
  BY <1>1, <1>2, <1>6, <1>8, LeadsType
<1>9. CASE Goes(h, FALSE)
  BY <1>1, <1>9, GoesType
<1>10. CASE Become(h, files, data, [handler[h] EXCEPT !.pc = @ + 3]) /\ UNCHANGED past
  BY <1>2, <1>7, <1>10, BecomeType
<1> QED  BY <1>5, <1>8, <1>9, <1>10

\* The path a step opens, links to or renames from is not a source, unless it
\* is the source that is moved.
LEMMA PathFound ==
    ASSUME Shape, NEW h \in Handlers, Running(h), StepOf(h).kind \in {"open", "link"}
    PROVE  PathOf(h) \in Paths /\ PathOf(h)[1] # "source" /\ PathOf(h)[1] = StepOf(h).place
<1>1. HandlerType(handler[h]) /\ handler[h].pc > 0 /\ StepOf(h) = handler[h].plan[handler[h].pc]
  BY HandlerFound DEF StepOf
<1>2. StepOf(h).place \in {"dest", "part", "uploading"}
  BY HandlerFound DEF SoundStep, StepOf
<1>3. StepOf(h).kind = "link" => StepOf(h).place = "dest"
  BY HandlerFound DEF SoundStep, StepOf
<1>4. Entries[handler[h].entry] \in Names
  BY <1>1, PathFacts
<1>5. CASE StepOf(h).place = "dest"
  BY <1>1, <1>4, <1>5, PathFacts DEF PathOf
<1>6. CASE StepOf(h).place # "dest"
  BY <1>1, <1>2, <1>3, <1>6, PathFacts DEF PathOf
<1> QED  BY <1>5, <1>6

LEMMA OpenOutputType == ASSUME Shape, NEW h \in Handlers, OpenOutput(h) PROVE Shape'
<1>1. Running(h) /\ StepOf(h).kind = "open"
  BY DEF OpenOutput, At
<1>2. HandlerType(handler[h]) /\ handler[h].pc > 0 /\ past \in PastType
      /\ files \in [Paths -> Inodes \cup {0}] /\ Sources(files) /\ DOMAIN handler[h] = Fields
  BY <1>1, HandlerFound DEF HandlerType
<1> DEFINE s     == StepOf(h)
           there == files[PathOf(h)]
           inode == IF there = 0 THEN Fresh ELSE there
           cut   == s.mode = "trunc" \/ (s.mode = "response" /\ ~handler[h].append)
           r     == [handler[h] EXCEPT !.fd = inode, !.read = 0, !.made = IF there = 0 THEN @ \cup {inode} ELSE @,
                                       !.append = @ \/ s.mode = "append"]
           f == [files EXCEPT ![PathOf(h)] = inode]
           d == [data EXCEPT ![inode] = IF cut THEN <<>> ELSE @]
<1>3. PathOf(h) \in Paths /\ PathOf(h)[1] # "source"
  BY <1>1, PathFound
<1>4. \A o \in Handlers : handler[o].in \in 0..Len(Entries)
  BY DEF Shape, HandlerType
<1>5. inode \in Inodes
  <2>1. there = 0 => Fresh \in Inodes
    BY <1>2, <1>3, <1>4, FreshFree
  <2>2. there \in Inodes \cup {0}
    BY <1>2, <1>3
  <2> HIDE DEF there
  <2> QED  BY <2>1, <2>2
<1>6. \/ Goes(h, FALSE)
      \/ Become(h, f, d, After(r, s, TRUE)) /\ UNCHANGED past
      \/ Fails(h)
  BY DEF OpenOutput
<1>7. f \in [Paths -> Inodes \cup {0}] /\ Sources(f)
  <2>1. f \in [Paths -> Inodes \cup {0}] /\ \A p \in Paths : p # PathOf(h) => f[p] = files[p]
    BY <1>2, <1>3, <1>5
  <2>2. \A i \in 1..Len(Entries) : <<"source", Entries[i]>> \in Paths /\ <<"source", Entries[i]>> # PathOf(h)
    BY <1>3, PathsFinite DEF Paths
  <2> HIDE DEF f
  <2> QED  BY <1>2, <2>1, <2>2 DEF Sources
<1>8. HandlerType(r) /\ r.pc = handler[h].pc /\ r.plan = handler[h].plan
  <2> DEFINE made == IF there = 0 THEN handler[h].made \cup {inode} ELSE handler[h].made
             append == handler[h].append \/ s.mode = "append"
  <2>1. r = [handler[h] EXCEPT !.fd = inode, !.read = 0, !.made = made, !.append = append]
    OBVIOUS
  <2> HIDE DEF inode, made, append, r
  <2> QED  BY <1>2, <1>5, <2>1, RecordType DEF Fields
<1> HIDE DEF r, f, d, inode, there
<1>9. CASE Become(h, f, d, After(r, s, TRUE)) /\ UNCHANGED past
  BY <1>1, <1>2, <1>7, <1>8, <1>9, LeadsType
<1>10. CASE Goes(h, FALSE)
  BY <1>1, <1>10, GoesType
<1>11. CASE Fails(h)
  BY <1>1, <1>11, FailsType
<1> QED  BY <1>6, <1>9, <1>10, <1>11

LEMMA PutBlockType == ASSUME Shape, NEW h \in Handlers, PutBlock(h) PROVE Shape'
<1>1. Running(h)
  BY DEF PutBlock, At
<1>2. HandlerType(handler[h]) /\ handler[h].pc > 0 /\ past \in PastType
      /\ files \in [Paths -> Inodes \cup {0}] /\ Sources(files) /\ DOMAIN handler[h] = Fields
  BY <1>1, HandlerFound DEF HandlerType
<1> DEFINE r == [handler[h] EXCEPT !.fd = 0, !.in = 0, !.read = 0]
           t == [handler[h] EXCEPT !.read = @ + 1]
<1>3. \/ (\E d : Become(h, files, d, t)) /\ UNCHANGED past
      \/ Become(h, files, data, After(r, StepOf(h), TRUE)) /\ UNCHANGED past
      \/ Fails(h)
  BY DEF PutBlock
<1>4. HandlerType(r) /\ HandlerType(t) /\ r.pc = handler[h].pc /\ r.plan = handler[h].plan
  <2>1. t = [handler[h] EXCEPT !.read = handler[h].read + 1]
    OBVIOUS
  <2> HIDE DEF t
  <2> QED  BY <1>2, <2>1, RecordType DEF Fields
<1> HIDE DEF r, t
<1>5. CASE (\E d : Become(h, files, d, t)) /\ UNCHANGED past
  BY <1>2, <1>4, <1>5, BecomeType
<1>6. CASE Become(h, files, data, After(r, StepOf(h), TRUE)) /\ UNCHANGED past
  BY <1>1, <1>2, <1>4, <1>6, LeadsType
<1>7. CASE Fails(h)
  BY <1>1, <1>7, FailsType
<1> QED  BY <1>3, <1>5, <1>6, <1>7

LEMMA CutFileType == ASSUME Shape, NEW h \in Handlers, CutFile(h) PROVE Shape'
<1>1. Running(h)
  BY DEF CutFile, At
<1>2. HandlerType(handler[h]) /\ past \in PastType /\ files \in [Paths -> Inodes \cup {0}] /\ Sources(files)
  BY <1>1, HandlerFound
<1>3. \/ Goes(h, FALSE)
      \/ (\E d : Become(h, files, d, After(handler[h], StepOf(h), TRUE))) /\ UNCHANGED past
      \/ Fails(h)
  BY DEF CutFile
<1>4. CASE Goes(h, FALSE)
  BY <1>1, <1>4, GoesType
<1>5. CASE (\E d : Become(h, files, d, After(handler[h], StepOf(h), TRUE))) /\ UNCHANGED past
  BY <1>1, <1>2, <1>5, LeadsType
<1>6. CASE Fails(h)
  BY <1>1, <1>6, FailsType
<1> QED  BY <1>3, <1>4, <1>5, <1>6

LEMMA CheckHashType == ASSUME Shape, NEW h \in Handlers, CheckHash(h) PROVE Shape'
<1>1. Running(h) /\ \E ok \in BOOLEAN : Goes(h, ok)
  BY DEF CheckHash, At
<1> QED  BY <1>1, GoesType

LEMMA RemoveFileType == ASSUME Shape, NEW h \in Handlers, RemoveFile(h) PROVE Shape'
<1>1. Running(h)
  BY DEF RemoveFile, At
<1>2. HandlerType(handler[h]) /\ past \in PastType /\ files \in [Paths -> Inodes \cup {0}] /\ Sources(files)
  BY <1>1, HandlerFound
<1> DEFINE f == [files EXCEPT ![PathOf(h)] = 0]
           must == StepOf(h).mode = "must" \/ (StepOf(h).mode = "single" /\ handler[h].request.entries = 1)
<1>3. \/ Goes(h, ~must)
      \/ Become(h, f, data, After(handler[h], StepOf(h), TRUE)) /\ UNCHANGED past
      \/ Fails(h)
  BY DEF RemoveFile
<1>4. f \in [Paths -> Inodes \cup {0}] /\ Sources(f)
  <2>1. f \in [Paths -> Inodes \cup {0}] /\ \A p \in Paths : f[p] \in {0, files[p]}
    BY <1>2
  <2>2. \A i \in 1..Len(Entries) : <<"source", Entries[i]>> \in Paths
    BY PathsFinite DEF Paths
  <2> HIDE DEF f
  <2> QED  BY <1>2, <2>1, <2>2 DEF Sources
<1>5. CASE Goes(h, ~must)
  <2>1. (~must) \in BOOLEAN
    OBVIOUS
  <2> HIDE DEF must
  <2> QED  BY <1>1, <1>5, <2>1, GoesType
<1> HIDE DEF f
<1>6. CASE Become(h, f, data, After(handler[h], StepOf(h), TRUE)) /\ UNCHANGED past
  BY <1>1, <1>2, <1>4, <1>6, LeadsType
<1>7. CASE Fails(h)
  BY <1>1, <1>7, FailsType
<1> QED  BY <1>3, <1>5, <1>6, <1>7

LEMMA RenameFileType == ASSUME Shape, NEW h \in Handlers, RenameFile(h) PROVE Shape'
<1>1. Running(h) /\ StepOf(h).kind = "rename"
  BY DEF RenameFile, At
<1>2. HandlerType(handler[h]) /\ handler[h].pc > 0 /\ past \in PastType
      /\ files \in [Paths -> Inodes \cup {0}] /\ Sources(files)
  BY <1>1, HandlerFound
<1> DEFINE place == StepOf(h).place
           moved == Present(h, place)
           f == [p \in Paths |-> IF p[2] \notin moved THEN files[p]
                                 ELSE IF p[1] = "dest" THEN files[<<place, p[2]>>]
                                 ELSE IF p[1] = place THEN 0 ELSE files[p]]
<1>3. \/ Become(h, f, data, After(handler[h], StepOf(h), TRUE)) /\ UNCHANGED past
      \/ Goes(h, FALSE)
      \/ Fails(h)
  BY DEF RenameFile
<1>4. place \in {"source", "part", "uploading"}
  BY <1>1, HandlerFound DEF SoundStep, StepOf
<1>5. \A e \in moved : <<place, e>> \in Paths
  <2>1. \A e \in Worked(h) : e \in Names /\ (place # "source" => e = Entries[1] /\ <<place, e>> \in Paths)
    <3> SUFFICES ASSUME NEW e \in Worked(h)
                 PROVE  e \in Names /\ (place # "source" => e = Entries[1] /\ <<place, e>> \in Paths)
      OBVIOUS
    <3>1. PICK i \in 1..handler[h].request.entries : e = Entries[i]
      BY DEF Worked
    <3>2. e \in Names
      BY <1>2, <3>1, PathFacts
    <3>3. place # "source" => handler[h].request.entries = 1 /\ <<place, Entries[1]>> \in Paths
      BY <1>1, <1>2, <1>4, PathFacts DEF StepOf
    <3>4. place # "source" => i = 1
      BY <3>3
    <3> QED  BY <3>1, <3>2, <3>3, <3>4
  <2>2. \A e \in Names : <<"source", e>> \in Paths
    BY DEF Paths
  <2>3. moved \subseteq Worked(h)
    BY DEF Present
  <2> HIDE DEF moved
  <2> QED  BY <2>1, <2>2, <2>3
<1>6. f \in [Paths -> Inodes \cup {0}]
  <2> HIDE DEF moved, place
  <2> QED  BY <1>2, <1>5
<1>7. Sources(f)
  <2>1. \A e \in Names : <<"source", e>> \in Paths /\ f[<<"source", e>>] \in {0, files[<<"source", e>>]}
    BY DEF Paths
  <2> HIDE DEF f
  <2> QED  BY <1>2, <2>1, PathsFinite DEF Sources
<1> HIDE DEF f
<1>8. CASE Become(h, f, data, After(handler[h], StepOf(h), TRUE)) /\ UNCHANGED past
  BY <1>1, <1>2, <1>6, <1>7, <1>8, LeadsType
<1>9. CASE Goes(h, FALSE)
  BY <1>1, <1>9, GoesType
<1>10. CASE Fails(h)
  BY <1>1, <1>10, FailsType
<1> QED  BY <1>3, <1>8, <1>9, <1>10

LEMMA LinkFileType == ASSUME Shape, NEW h \in Handlers, LinkFile(h) PROVE Shape'
<1>1. Running(h) /\ StepOf(h).kind = "link"
  BY DEF LinkFile, At
<1>2. HandlerType(handler[h]) /\ handler[h].pc > 0 /\ past \in PastType
      /\ files \in [Paths -> Inodes \cup {0}] /\ Sources(files) /\ DOMAIN handler[h] = Fields
  BY <1>1, HandlerFound DEF HandlerType
<1> DEFINE inode == files[<<"source", Entries[handler[h].entry]>>]
           f == [files EXCEPT ![PathOf(h)] = inode]
           r == [handler[h] EXCEPT !.made = @ \cup {inode}]
<1>3. \/ Goes(h, FALSE)
      \/ Become(h, f, data, After(r, StepOf(h), TRUE)) /\ UNCHANGED past
  BY DEF LinkFile
<1>4. PathOf(h) \in Paths /\ PathOf(h)[1] # "source"
  BY <1>1, PathFound
<1>5. inode \in Inodes \cup {0}
  BY <1>2, PathFacts, ZenonT(30)
<1>6. f \in [Paths -> Inodes \cup {0}] /\ Sources(f)
  <2>1. f \in [Paths -> Inodes \cup {0}] /\ \A p \in Paths : p # PathOf(h) => f[p] = files[p]
    BY <1>2, <1>4, <1>5
  <2>2. \A i \in 1..Len(Entries) : <<"source", Entries[i]>> \in Paths /\ <<"source", Entries[i]>> # PathOf(h)
    BY <1>4, PathsFinite DEF Paths
  <2> HIDE DEF f
  <2> QED  BY <1>2, <2>1, <2>2 DEF Sources
<1>7. HandlerType(r) /\ r.pc = handler[h].pc /\ r.plan = handler[h].plan
  <2> DEFINE made == handler[h].made \cup {inode}
  <2>1. r = [handler[h] EXCEPT !.made = made]
    OBVIOUS
  <2> HIDE DEF made, r
  <2> QED  BY <1>2, <2>1, RecordType DEF Fields
<1> HIDE DEF r, f
<1>8. CASE Goes(h, FALSE)
  BY <1>1, <1>8, GoesType
<1>9. CASE Become(h, f, data, After(r, StepOf(h), TRUE)) /\ UNCHANGED past
  BY <1>1, <1>2, <1>6, <1>7, <1>9, LeadsType
<1> QED  BY <1>3, <1>8, <1>9

LEMMA RespondType == ASSUME Shape, NEW h \in Handlers, Respond(h) PROVE Shape'
<1>1. Running(h) /\ past' = past
  BY DEF Respond, At
<1>2. HandlerType(handler[h]) /\ handler[h].pc > 0 /\ past \in PastType
      /\ files \in [Paths -> Inodes \cup {0}] /\ Sources(files) /\ DOMAIN handler[h] = Fields
  BY <1>1, HandlerFound DEF HandlerType
<1>3. \/ \E append, beyond, response :
           Become(h, files, data, After([handler[h] EXCEPT !.append = append, !.beyond = beyond, !.response = response],
                                        StepOf(h), TRUE))
      \/ \E beyond : Become(h, files, data, After([handler[h] EXCEPT !.beyond = beyond], StepOf(h), FALSE))
  <2> DEFINE offset == Len(Content(PathOf(h)))
  <2>1. CASE \E whole \in BOOLEAN :
               Become(h, files, data,
                      After([handler[h] EXCEPT !.append = ~whole, !.beyond = FALSE,
                               !.response = IF whole THEN Whole(remote) ELSE SubSeq(Whole(remote), offset + 1, Size)],
                            StepOf(h), TRUE))
    <3>1. PICK whole \in BOOLEAN :
               Become(h, files, data,
                      After([handler[h] EXCEPT !.append = ~whole, !.beyond = FALSE,
                               !.response = IF whole THEN Whole(remote) ELSE SubSeq(Whole(remote), offset + 1, Size)],
                            StepOf(h), TRUE))
      BY <2>1
    <3> HIDE DEF offset
    <3> QED  BY <3>1, Zenon
  <2>2. CASE \E refused \in BOOLEAN :
               Become(h, files, data, After([handler[h] EXCEPT !.beyond = refused], StepOf(h), FALSE))
    BY <2>2, Zenon
  <2> QED  BY <2>1, <2>2, Zenon DEF Respond
<1>4. ASSUME NEW append, NEW beyond, NEW response,
             Become(h, files, data, After([handler[h] EXCEPT !.append = append, !.beyond = beyond, !.response = response],
                                          StepOf(h), TRUE))
      PROVE  Shape'
  <2> DEFINE r == [handler[h] EXCEPT !.append = append, !.beyond = beyond, !.response = response]
  <2>1. HandlerType(r) /\ r.pc = handler[h].pc /\ r.plan = handler[h].plan
    BY <1>2, RecordType DEF Fields
  <2>2. Become(h, files, data, After(r, StepOf(h), TRUE))
    BY <1>4
  <2> HIDE DEF r
  <2> QED  BY <1>1, <1>2, <2>1, <2>2, LeadsType
<1>5. ASSUME NEW beyond, Become(h, files, data, After([handler[h] EXCEPT !.beyond = beyond], StepOf(h), FALSE))
      PROVE  Shape'
  <2> DEFINE r == [handler[h] EXCEPT !.beyond = beyond]
  <2>1. HandlerType(r) /\ r.pc = handler[h].pc /\ r.plan = handler[h].plan
    BY <1>2, RecordType DEF Fields
  <2>2. Become(h, files, data, After(r, StepOf(h), FALSE))
    BY <1>5
  <2> HIDE DEF r
  <2> QED  BY <1>1, <1>2, <2>1, <2>2, LeadsType
<1> QED  BY <1>3, <1>4, <1>5

LEMMA TryAgainType == ASSUME Shape, NEW h \in Handlers, TryAgain(h) PROVE Shape'
<1>1. Running(h) /\ StepOf(h).kind = "retry" /\ past' = past
  BY DEF TryAgain, At
<1>2. HandlerType(handler[h]) /\ handler[h].pc > 0 /\ past \in PastType /\ handler[h].pc \in 1..Len(handler[h].plan)
      /\ files \in [Paths -> Inodes \cup {0}] /\ Sources(files) /\ DOMAIN handler[h] = Fields
  BY <1>1, HandlerFound DEF HandlerType
<1>3. StepOf(h).mode \in 1..(handler[h].pc - 1)
  BY <1>1, HandlerFound DEF SoundStep, StepOf
<1> DEFINE r == [handler[h] EXCEPT !.attempts = @ + 1, !.pc = @ - StepOf(h).mode, !.fd = 0, !.read = 0]
<1>4. \/ handler[h].attempts < Retries /\ Become(h, files, data, r)
      \/ Become(h, files, data, Answered(IF handler[h].beyond THEN "beyond" ELSE "kept"))
  BY DEF TryAgain
<1>5. handler[h].attempts < Retries => HandlerType(r)
  <2>1. handler[h].attempts \in 0..Retries
    BY <1>2 DEF HandlerType
  <2>2. handler[h].attempts < Retries => handler[h].attempts + 1 \in 0..Retries
    BY <2>1, BoundsAssumption
  <2>3. handler[h].pc - StepOf(h).mode \in 1..Len(handler[h].plan) /\ handler[h].pc - StepOf(h).mode \in Nat
    BY <1>2, <1>3, HandlerFound, <1>1
  <2> QED  BY <1>2, <2>2, <2>3 DEF HandlerType, Fields
<1>6. HandlerType(Answered(IF handler[h].beyond THEN "beyond" ELSE "kept"))
  BY AnsweredType DEF Answers
<1> HIDE DEF r
<1> QED  BY <1>1, <1>2, <1>4, <1>5, <1>6, BecomeType

LEMMA LocalStepType == ASSUME Shape, NEW h \in Handlers, LocalStep(h) PROVE Shape'
BY GoesType, FailsType DEF LocalStep, At

LEMMA NextEntryType == ASSUME Shape, NEW h \in Handlers, NextEntry(h) PROVE Shape'
<1>1. Running(h) /\ StepOf(h).kind = "again" /\ past' = past
  BY DEF NextEntry, At
<1>2. HandlerType(handler[h]) /\ handler[h].pc > 0 /\ past \in PastType /\ handler[h].pc \in 1..Len(handler[h].plan)
      /\ files \in [Paths -> Inodes \cup {0}] /\ Sources(files) /\ DOMAIN handler[h] = Fields
  BY <1>1, HandlerFound DEF HandlerType
<1>3. StepOf(h).mode \in 1..(handler[h].pc - 1)
  BY <1>1, HandlerFound DEF SoundStep, StepOf
<1> DEFINE r == [handler[h] EXCEPT !.entry = @ + 1, !.pc = @ - StepOf(h).mode]
           t == [handler[h] EXCEPT !.entry = 1]
<1>4. \/ handler[h].entry < handler[h].request.entries /\ Become(h, files, data, r)
      \/ Become(h, files, data, After(t, StepOf(h), TRUE))
  BY DEF NextEntry
<1>5. handler[h].entry < handler[h].request.entries => HandlerType(r)
  <2>1. handler[h].entry \in 1..handler[h].request.entries /\ handler[h].request.entries \in 1..Len(Entries)
    BY <1>2, PathFacts DEF HandlerType
  <2>2. handler[h].entry < handler[h].request.entries => handler[h].entry + 1 \in 1..handler[h].request.entries
    BY <2>1, PathsFinite
  <2>3. handler[h].pc - StepOf(h).mode \in 1..Len(handler[h].plan) /\ handler[h].pc - StepOf(h).mode \in Nat
    BY <1>2, <1>3, HandlerFound, <1>1
  <2> QED  BY <1>2, <2>2, <2>3 DEF HandlerType, Fields
<1>6. HandlerType(t) /\ t.pc = handler[h].pc /\ t.plan = handler[h].plan
  BY <1>2, RecordType DEF Fields
<1> HIDE DEF r, t
<1>7. CASE handler[h].entry < handler[h].request.entries /\ Become(h, files, data, r)
  BY <1>1, <1>2, <1>5, <1>7, BecomeType
<1>8. CASE Become(h, files, data, After(t, StepOf(h), TRUE))
  BY <1>1, <1>2, <1>6, <1>8, LeadsType
<1> QED  BY <1>4, <1>7, <1>8

LEMMA BeginType == ASSUME Shape, NEW h \in Handlers, NEW q \in Requests, Begin(h, q) PROVE Shape'
<1> DEFINE with == {handler[x].request : x \in {x \in Handlers : Running(x)}}
           r == [Idle EXCEPT !.request = q, !.plan = Plans[q], !.pc = 1, !.with = with]
<1>1. /\ UNCHANGED <<files, data>>
      /\ handler' = [o \in Handlers |-> IF o = h THEN r
                                        ELSE IF Running(o) THEN [handler[o] EXCEPT !.with = @ \cup {q}]
                                        ELSE handler[o]]
  BY DEF Begin
<1>2. past' \in PastType
  <2>1. past \in PastType
    BY DEF Shape
  <2>3. \E n, g, s : /\ past' = [past EXCEPT !.requests = n, !.gentle = g, !.steady = s]
                     /\ n = past.requests + 1 /\ g \in BOOLEAN /\ s \in BOOLEAN
    <3> DEFINE g == past.gentle /\ Gentle(q)
               s == past.steady /\ \A x \in Handlers : Running(x) => ~Disturbs(q, handler[x].request)
    <3>1. g \in BOOLEAN /\ s \in BOOLEAN
      OBVIOUS
    <3>2. past' = [past EXCEPT !.requests = past.requests + 1, !.gentle = g, !.steady = s]
      BY DEF Begin
    <3> HIDE DEF g, s
    <3> QED  BY <3>1, <3>2
  <2>4. PICK n, g, s : /\ past' = [past EXCEPT !.requests = n, !.gentle = g, !.steady = s]
                       /\ n = past.requests + 1 /\ g \in BOOLEAN /\ s \in BOOLEAN
    BY <2>3
  <2>5. n \in Nat
    BY <2>1, <2>4 DEF PastType
  <2> QED  BY <2>1, <2>4, <2>5, Zenon DEF PastType
<1>3. HandlerType(r)
  <2>1. DOMAIN Idle = Fields /\ Idle.in = 0 /\ Idle.fd = 0 /\ Idle.attempts = 0 /\ Idle.answer = "none" /\ Idle.entry = 1
    BY DEF Idle, Fields
  <2>2. SoundPlan(Plans[q]) /\ q.entries \in 1..Len(Entries)
    BY PlansSound, RequestFacts
  <2>3. 1 \in 1..Len(Plans[q]) /\ 1 \in 1..q.entries /\ 0 \in 0..Len(Entries) /\ 0 \in 0..Retries /\ "none" \in Answers
    BY <2>2, PathsFinite, BoundsAssumption DEF SoundPlan, Answers
  <2>4. /\ DOMAIN r = Fields /\ r.request = q /\ r.plan = Plans[q] /\ r.pc = 1
        /\ r.entry = 1 /\ r.fd = 0 /\ r.in = 0 /\ r.attempts = 0 /\ r.answer = "none"
    BY <2>1 DEF Fields
  <2> HIDE DEF r
  <2> QED  BY <2>3, <2>4 DEF HandlerType
<1> HIDE DEF r
<1>4. ASSUME NEW o \in Handlers, o # h PROVE HandlerType(handler[o]) /\ HandlerType([handler[o] EXCEPT !.with = @ \cup {q}])
  <2>1. HandlerType(handler[o])
    BY DEF Shape
  <2> QED  BY <2>1 DEF HandlerType, Fields
<1>5. DOMAIN handler' = Handlers /\ \A o \in Handlers : HandlerType(handler'[o])
  BY <1>1, <1>3, <1>4
<1> QED  BY <1>1, <1>2, <1>5 DEF Shape, Sources

LEMMA CrashType == ASSUME Shape, Crash PROVE Shape'
<1>1. /\ files' = files /\ handler' = [h \in Handlers |-> Idle] /\ DOMAIN data' = Inodes
      /\ past' = [past EXCEPT !.crashes = 1]
  BY DEF Crash
<1>2. past' \in PastType
  BY <1>1 DEF Shape, PastType
<1>3. DOMAIN handler' = Handlers /\ \A h \in Handlers : HandlerType(handler'[h])
  BY <1>1, AnsweredType
<1> QED  BY <1>1, <1>2, <1>3 DEF Shape, Sources

LEMMA RemoteChangesType == ASSUME Shape, RemoteChanges PROVE Shape'
<1>1. UNCHANGED <<files, data, handler>> /\ past' = [past EXCEPT !.steady = FALSE]
  BY DEF RemoteChanges
<1>2. past' \in PastType
  BY <1>1 DEF Shape, PastType
<1> QED  BY <1>1, <1>2 DEF Shape, Sources

LEMMA ShapeStep == Shape /\ [Next]_vars => Shape'
<1> SUFFICES ASSUME Shape, [Next]_vars PROVE Shape'
  OBVIOUS
<1>1. ASSUME NEW h \in Handlers, HandlerStep(h) PROVE Shape'
  BY <1>1, LookType, OpenInputType, OpenOutputType, PutBlockType, CutFileType, CheckHashType, RemoveFileType,
     RenameFileType, LinkFileType, RespondType, TryAgainType, LocalStepType, NextEntryType DEF HandlerStep
<1>2. CASE UNCHANGED vars
  BY <1>2 DEF vars, Shape, Sources
<1> QED  BY <1>1, <1>2, BeginType, CrashType, RemoteChangesType DEF Next

LEMMA ShapeHolds == Spec => []Shape
BY InitShape, ShapeStep, PTL DEF Spec

\* What a path names is a file, a handler is at a step of its plan, and works
\* on an entry of its request, whatever the entries of the directories.
THEOREM TypeCorrect == Spec => []TypeOK
<1>1. Shape => TypeOK
  <2> SUFFICES ASSUME Shape PROVE TypeOK
    OBVIOUS
  <2>1. ASSUME NEW h \in Handlers
        PROVE  /\ handler[h].request \in Requests \cup {Nothing}
               /\ Running(h) => handler[h].pc \in DOMAIN handler[h].plan
               /\ handler[h].entry \in 1..handler[h].request.entries
               /\ handler[h].fd \in Inodes \cup {0} /\ handler[h].in \in Inodes \cup {0}
               /\ handler[h].attempts \in 0..Retries
               /\ handler[h].answer \in Answers
    <3>1. HandlerType(handler[h])
      BY DEF Shape
    <3>2. handler[h].in \in Inodes \cup {0}
      BY <3>1, PathsFinite DEF HandlerType
    <3>3. Running(h) => handler[h].pc \in DOMAIN handler[h].plan
      <4> SUFFICES ASSUME Running(h) PROVE handler[h].pc \in DOMAIN handler[h].plan
        OBVIOUS
      <4>1. handler[h].pc \in 1..Len(handler[h].plan) /\ handler[h].plan = Plans[handler[h].request]
            /\ handler[h].request \in Requests
        BY <3>1 DEF HandlerType, Running
      <4>2. handler[h].plan \in Seq(Steps)
        BY <4>1, PlansSound DEF SoundPlan
      <4> QED  BY <4>1, <4>2
    <3> QED  BY <3>1, <3>2, <3>3 DEF HandlerType
  <2> QED  BY <2>1 DEF Shape, TypeOK
<1> QED  BY <1>1, ShapeHolds, PTL

----------------------------------------------------------------------------
(* Nothing is lost.  The requests of which NothingLost speaks are copies,  *)
(* moves, creations, links and what only looks: they make files with       *)
(* O_EXCL, replace a file of the destination by the whole source only, and *)
(* remove a source only after all entries were copied.                     *)

\* What the steps of these plans are, by their positions.
Leads(s) == s.next = 1 /\ s.orElse = 0
Excl(s)  == s.kind = "open" /\ s.mode = "excl" /\ s.place = "dest"
Copies(p) ==
    /\ Len(p) = 7
    /\ p[1].kind = "found" /\ p[2].kind = "vacant" /\ p[3].kind = "vacant" /\ p[4].kind = "input"
    /\ Excl(p[5]) /\ p[6].kind = "put" /\ p[6].place = "input" /\ p[7].kind = "again" /\ p[7].mode = 4
    /\ \A i \in 1..7 : Leads(p[i])
Moves(p) ==
    /\ Len(p) = 11
    /\ p[1].kind = "rename" /\ p[1].place = "source" /\ p[1].next = 11 /\ p[1].orElse = 1
    /\ p[2].kind = "found" /\ p[3].kind = "vacant" /\ p[4].kind = "vacant" /\ p[5].kind = "input"
    /\ Excl(p[6]) /\ p[7].kind = "put" /\ p[7].place = "input" /\ p[8].kind = "again" /\ p[8].mode = 4
    /\ p[9].kind = "found" /\ p[10].kind = "remove" /\ p[10].place = "source"
    /\ p[11].kind = "again" /\ p[11].mode = 1
    /\ \A i \in 2..11 : Leads(p[i])
Creates(p) ==
    /\ Len(p) = 2 /\ Excl(p[1]) /\ p[2].kind = "put" /\ p[2].place = "written"
    /\ \A i \in 1..2 : Leads(p[i])
Glances(p) ==
    \A i \in 1..Len(p) : /\ p[i].kind \in {"found", "hash", "local", "link"} \/ (Excl(p[i]) /\ i = Len(p))
                         /\ Leads(p[i])

Calm(p) == Copies(p) \/ Moves(p) \/ Creates(p) \/ Glances(p)

\* The first k blocks of a content.
Begun(v, k) == [i \in 1..k |-> <<v, i>>]

\* What is at the destination in full.
Full(e) == files[<<"dest", e>>] # 0 /\ data[files[<<"dest", e>>]] = Whole(e)

\* An entry is at its source in full, or at the destination.
Kept == \A i \in 1..Len(Entries) :
            /\ files[<<"source", Entries[i]>>] # 0 => data[i] = Whole(Entries[i])
            /\ files[<<"source", Entries[i]>>] = 0 => Full(Entries[i])

\* What a handler writes is no source, and no other handler has it open.
Apart == \A h \in Handlers : handler[h].fd # 0 =>
            /\ \A e \in Names : files[<<"source", e>>] # handler[h].fd
            /\ \A o \in Handlers : /\ handler[o].in # handler[h].fd
                                   /\ o # h => handler[o].fd # handler[h].fd

\* What no path names and no handler has open is empty.
Blank == \A i \in Inodes : i \notin Busy => data[i] = <<>>

\* A handler copies a whole entry, block by block, into the file it has open.
Works(h) ==
    LET r == handler[h]
        s == r.plan[r.pc]
        e == Entries[r.entry]
    IN  /\ r.pc = 0 => r.fd = 0 /\ r.in = 0
        /\ r.pc > 0 =>
             /\ Calm(r.plan)
             /\ ~r.append
             /\ r.fd # 0 <=> s.kind = "put"
             /\ r.in # 0 => s.kind \in {"open", "put"} /\ data[r.in] = Whole(e)
             /\ s.kind = "open" /\ (Copies(r.plan) \/ Moves(r.plan)) => r.in # 0
             /\ s.kind = "put" => /\ r.read \in 0..Size
                                  /\ data[r.fd] = Begun(IF s.place = "input" THEN e ELSE "written", r.read)
                                  /\ s.place = "input" => r.in # 0

\* A mover is past the entries that are at the destination in full, and comes
\* to the removal of the sources when all are.
Secures(h) ==
    LET r == handler[h] IN
    r.pc > 0 /\ Moves(r.plan) =>
      /\ r.pc <= 3 => r.entry = 1
      /\ r.pc <= 8 => \A j \in 1..(r.entry - 1) : Full(Entries[j])
      /\ r.pc = 7 => files[<<"dest", Entries[r.entry]>>] = r.fd \/ Full(Entries[r.entry])
      /\ r.pc = 8 => Full(Entries[r.entry])
      /\ r.pc >= 9 => \A j \in 1..r.request.entries : Full(Entries[j])

Safe == past.kind = "tree" /\ past.gentle =>
            Kept /\ Apart /\ Blank /\ \A h \in Handlers : Works(h) /\ Secures(h)

LEMMA Positions ==
    /\ \A p : IsCopyPlan(p) => Copies(p)
    /\ \A p : IsMovePlan(p) => Moves(p)
<1> USE DEF Step, Found, Vacant, Lacks, Input, Open, Put, Again, Then, Ignoring, Otherwise, Rename, RemoveMoved,
        Leads, Excl
<1> DEFINE F == Found("source")   V == Vacant("dest")   L == Lacks("dest")   I == Input("source")
           O == Open("dest", "excl")   P == Put("input")   A == Again(4)   B == Again(1)
           M == Then(Ignoring(Rename("source")), 11)   R == RemoveMoved
<1>1. /\ F.kind = "found" /\ Leads(F) /\ V.kind = "vacant" /\ Leads(V) /\ L.kind = "vacant" /\ Leads(L)
      /\ I.kind = "input" /\ Leads(I) /\ Excl(O) /\ Leads(O) /\ P.kind = "put" /\ P.place = "input" /\ Leads(P)
      /\ A.kind = "again" /\ A.mode = 4 /\ Leads(A)
  OBVIOUS
<1>2. /\ B.kind = "again" /\ B.mode = 1 /\ Leads(B) /\ R.kind = "remove" /\ R.place = "source" /\ Leads(R)
      /\ M.kind = "rename" /\ M.place = "source" /\ M.next = 11 /\ M.orElse = 1
  OBVIOUS
<1>3. ASSUME NEW p, IsCopyPlan(p) PROVE Copies(p)
  <2>1. /\ Len(p) = 7 /\ p[1] = F /\ p[2] = V /\ p[3] = L /\ p[4] = I /\ p[5] = O /\ p[6] = P /\ p[7] = A
    BY <1>3 DEF IsCopyPlan
  <2> HIDE DEF F, V, L, I, O, P, A, Leads, Excl
  <2> QED  BY <1>1, <2>1 DEF Copies
<1>4. ASSUME NEW p, IsMovePlan(p) PROVE Moves(p)
  <2>1. /\ Len(p) = 11 /\ p[1] = M /\ p[2] = F /\ p[3] = V /\ p[4] = L /\ p[5] = I /\ p[6] = O /\ p[7] = P
        /\ p[8] = A /\ p[9] = F /\ p[10] = R /\ p[11] = B
    BY <1>4 DEF IsMovePlan
  <2> HIDE DEF F, V, L, I, O, P, A, B, M, R, Leads, Excl
  <2> QED  BY <1>1, <1>2, <2>1 DEF Moves
<1> QED  BY <1>3, <1>4

LEMMA GlanceSteps ==
    /\ \A s \in {Found("source"), Found("dest"), Hash("source", "none"), Local, Link("dest")} :
         s.kind \in {"found", "hash", "local", "link"} /\ Leads(s)
    /\ LET s == Open("dest", "excl") IN Excl(s) /\ Leads(s)
    /\ LET s == Put("written") IN s.kind = "put" /\ s.place = "written" /\ Leads(s)
BY DEF Found, Hash, Local, Link, Open, Put, Step, Leads, Excl

\* The plans of the requests that NothingLost speaks of.
LEMMA CalmPlans ==
    ASSUME NEW q \in Requests, Kind(q) = "tree", Gentle(q)
    PROVE  Calm(Plans[q])
<1>1. PICK o, s, tool, a : o = q.overwrite /\ s = q.sha /\ tool = q.tool /\ a = q.action
  OBVIOUS
<1>2. o \in BOOLEAN /\ s \in BOOLEAN /\ tool \in DOMAIN Tools(o, s) /\ a \in DOMAIN Tools(o, s)[tool]
      /\ Plans[q] = Tools(o, s)[tool][a]
  BY <1>1, RequestFacts, Zenon
<1> DEFINE T == Tools(o, s)
<1>3. /\ DOMAIN T = {"fs_write", "fs_manage", "fs_hash", "archive", "backup", "export", "download", "upload"}
      /\ T["fs_write"] = fsWriteOperation /\ T["fs_manage"] = fsManageOperation(o)
      /\ T["fs_hash"] = fsHashOperation /\ T["archive"] = archiveOperation(o)
      /\ T["backup"] = backupOperation(o) /\ T["export"] = exportOperation
  BY <1>2, ToolsSound, Zenon
<1>4. tool \notin {"download", "upload"}
  BY <1>1 DEF Kind
<1>5. \/ o = FALSE /\ a \in {"copy", "create", "symlink", "hardlink"} /\ tool \in {"fs_write", "fs_manage"}
      \/ a \in {"move", "calculate", "list", "verify", "attributes", "mkdir"}
  <2>1. o \in BOOLEAN
    BY <1>2
  <2> QED  BY <1>1, <2>1 DEF Gentle, Makes
<1>6. /\ DOMAIN fsWriteOperation = {"write", "append", "create", "patch", "truncate", "touch", "mkdir"}
      /\ fsWriteOperation["create"] = <<Open("dest", "excl"), Put("written")>>
      /\ fsWriteOperation["mkdir"] = <<Local>>
  BY DEF fsWriteOperation
<1>7. /\ DOMAIN fsManageOperation(o) = {"copy", "move", "delete", "delete_tree", "delete_batch", "symlink", "hardlink",
                                        "attributes"}
      /\ fsManageOperation(o)["copy"] = copyPath(o)
      /\ fsManageOperation(o)["move"] = movePath
      /\ fsManageOperation(o)["symlink"] = <<Open("dest", "excl")>>
      /\ fsManageOperation(o)["hardlink"] = <<Link("dest")>>
      /\ fsManageOperation(o)["attributes"] = <<Found("dest"), Local>>
  BY DEF fsManageOperation
<1>8. DOMAIN fsHashOperation = {"calculate"} /\ fsHashOperation["calculate"] = <<Hash("source", "none")>>
  BY DEF fsHashOperation
<1>9. /\ DOMAIN archiveOperation(o) = {"create", "create_7z", "extract", "extract_7z", "list"}
      /\ archiveOperation(o)["list"] = <<Found("source"), Local>>
  BY DEF archiveOperation
<1>10. /\ DOMAIN backupOperation(o) = {"create", "verify", "restore", "restore_7z", "delete", "list"}
       /\ backupOperation(o)["verify"] = <<Hash("source", "none"), Local>>
       /\ backupOperation(o)["list"] = <<Local>>
  BY DEF backupOperation
<1>11. DOMAIN exportOperation = {"file", "directory"}
  BY DEF exportOperation
<1> DEFINE F == Found("source")   D == Found("dest")   H == Hash("source", "none")   L == Local   K == Link("dest")
           O == Open("dest", "excl")   P == Put("written")
<1>12. /\ \A x \in {F, D, H, L, K} : x.kind \in {"found", "hash", "local", "link"} /\ Leads(x)
       /\ Excl(O) /\ Leads(O) /\ P.kind = "put" /\ P.place = "written" /\ Leads(P)
  BY GlanceSteps
<1>13. Plans[q] \in {<<O, P>>, <<L>>, movePath, <<O>>, <<K>>, <<D, L>>, <<H>>, <<F, L>>, <<H, L>>}
       \/ (o = FALSE /\ Plans[q] = copyPath(o))
  <2>1. a \in DOMAIN T[tool] /\ Plans[q] = T[tool][a] /\ tool \in DOMAIN T
    BY <1>2
  <2> HIDE DEF T, F, D, H, L, K, O, P
  <2>2. tool \in {"fs_write", "fs_manage", "fs_hash", "archive", "backup", "export"}
    BY <1>3, <1>4, <2>1
  <2>3. CASE tool = "fs_write"
    <3>1. a \in {"create", "mkdir"}
      BY <1>3, <1>5, <1>6, <2>1, <2>3
    <3> QED  BY <1>3, <1>6, <2>1, <2>3, <3>1 DEF O, P, L
  <2>4. CASE tool = "fs_manage"
    <3>1. (a = "copy" /\ o = FALSE) \/ a \in {"move", "symlink", "hardlink", "attributes"}
      BY <1>3, <1>5, <1>7, <2>1, <2>4
    <3> QED  BY <1>3, <1>7, <2>1, <2>4, <3>1 DEF O, K, D, L
  <2>5. CASE tool = "fs_hash"
    BY <1>3, <1>8, <2>1, <2>5 DEF H
  <2>6. CASE tool = "archive"
    <3>1. a = "list"
      BY <1>3, <1>5, <1>9, <2>1, <2>6
    <3> QED  BY <1>3, <1>9, <2>1, <2>6, <3>1 DEF F, L
  <2>7. CASE tool = "backup"
    <3>1. a \in {"verify", "list"}
      BY <1>3, <1>5, <1>10, <2>1, <2>7
    <3> QED  BY <1>3, <1>10, <2>1, <2>7, <3>1 DEF H, L
  <2>8. CASE tool = "export"
    BY <1>3, <1>5, <1>11, <2>1, <2>8
  <2> QED  BY <2>2, <2>3, <2>4, <2>5, <2>6, <2>7, <2>8
<1> HIDE DEF T, F, D, H, L, K, O, P
<1>14. ASSUME NEW x, NEW y, x \in {F, D, H, L, K}, y \in {F, D, H, L, K} PROVE Glances(<<x>>) /\ Glances(<<x, y>>)
  BY <1>12, <1>14 DEF Glances
<1>15. Glances(<<O>>)
  BY <1>12 DEF Glances
<1>16. Creates(<<O, P>>)
  BY <1>12 DEF Creates
<1>17. Moves(movePath)
  BY MovePlan, Positions, Zenon
<1>18. CASE o = FALSE /\ Plans[q] = copyPath(o)
  <2>1. Copies(copyPath(FALSE))
    BY CopyPlan, Positions, Zenon
  <2> QED  BY <1>18, <2>1, Zenon DEF Calm
<1>19. CASE Plans[q] \in {<<O, P>>, <<L>>, movePath, <<O>>, <<K>>, <<D, L>>, <<H>>, <<F, L>>, <<H, L>>}
  <2>1. Glances(<<L>>) /\ Glances(<<K>>) /\ Glances(<<D, L>>) /\ Glances(<<H>>) /\ Glances(<<F, L>>) /\ Glances(<<H, L>>)
    BY <1>14
  <2> QED  BY <1>15, <1>16, <1>17, <1>19, <2>1 DEF Calm
<1> QED  BY <1>13, <1>18, <1>19

\* Where a step of these plans leads: to the next one, or to an answer.
LEMMA CalmLeads ==
    ASSUME NEW r, HandlerType(r), r.pc > 0, Calm(r.plan), NEW s, s = r.plan[r.pc]
    PROVE  /\ s \in Steps /\ Len(r.plan) \in Nat /\ r.pc \in 1..Len(r.plan) /\ s.code \in Answers
           /\ \/ Leads(s) /\ ~(Moves(r.plan) /\ r.pc = 1)
              \/ Moves(r.plan) /\ r.pc = 1 /\ s.next = 11 /\ s.orElse = 1 /\ Len(r.plan) = 11
<1>1. s \in Steps /\ Len(r.plan) \in Nat /\ r.pc \in 1..Len(r.plan) /\ s.code \in Answers
  BY StepFound DEF Steps
<1>2. \/ Leads(s) /\ ~(Moves(r.plan) /\ r.pc = 1)
      \/ Moves(r.plan) /\ r.pc = 1 /\ s.next = 11 /\ s.orElse = 1 /\ Len(r.plan) = 11
  <2>1. CASE Copies(r.plan)
    BY <1>1, <2>1 DEF Copies, Moves
  <2>2. CASE Creates(r.plan)
    BY <1>1, <2>2 DEF Creates, Moves
  <2>3. CASE Moves(r.plan)
    <3>1. r.pc \in 2..11 => Leads(s)
      BY <2>3 DEF Moves
    <3> QED  BY <1>1, <2>3, <3>1 DEF Moves
  <2>4. CASE Glances(r.plan)
    <3>1. Leads(s) /\ (s.kind # "rename")
      BY <1>1, <2>4 DEF Glances, Excl
    <3> QED  BY <1>1, <3>1 DEF Moves
  <2> QED  BY <2>1, <2>2, <2>3, <2>4 DEF Calm
<1> QED  BY <1>1, <1>2

Ended(a)     == a.pc = 0 /\ a.fd = 0 /\ a.in = 0
Onward(r, a) == \E part : a = [r EXCEPT !.pc = r.pc + 1, !.partial = part]

LEMMA OnwardFields ==
    ASSUME NEW r, DOMAIN r = Fields, NEW a, Onward(r, a)
    PROVE  /\ a.pc = r.pc + 1 /\ a.plan = r.plan /\ a.fd = r.fd /\ a.in = r.in /\ a.append = r.append
           /\ a.entry = r.entry /\ a.request = r.request /\ a.read = r.read /\ DOMAIN a = Fields
BY DEF Onward, Fields

LEMMA CalmPasses ==
    ASSUME NEW r, HandlerType(r), r.pc > 0, Calm(r.plan), NEW s, s = r.plan[r.pc]
    PROVE  \/ Ended(After(r, s, TRUE))
           \/ /\ r.pc + 1 \in 1..Len(r.plan) /\ ~(Moves(r.plan) /\ r.pc = 1)
              /\ Onward(r, After(r, s, TRUE))
<1>1. /\ Len(r.plan) \in Nat /\ r.pc \in 1..Len(r.plan) /\ s.code \in Answers
      /\ \/ s.next = 1 /\ ~(Moves(r.plan) /\ r.pc = 1)
         \/ s.next = 11 /\ r.pc = 1 /\ Len(r.plan) = 11
  BY CalmLeads DEF Leads
<1>3. CASE r.pc + s.next > Len(r.plan)
  <2>1. After(r, s, TRUE) = Answered(IF r.partial \/ FALSE THEN "partial" ELSE "done")
    BY <1>1, <1>3 DEF After
  <2>2. \/ After(r, s, TRUE) = Answered("partial")
        \/ After(r, s, TRUE) = Answered("done")
    BY <2>1
  <2> QED  BY <2>2, AnsweredType DEF Answers, Ended
<1>4. CASE ~(r.pc + s.next > Len(r.plan))
  <2>1. s.next = 1 /\ ~(Moves(r.plan) /\ r.pc = 1) /\ r.pc + 1 \in 1..Len(r.plan)
    <3>1. ~(s.next = 11 /\ r.pc = 1 /\ Len(r.plan) = 11)
      <4> SUFFICES ASSUME s.next = 11, r.pc = 1, Len(r.plan) = 11 PROVE FALSE
        OBVIOUS
      <4>1. r.pc + s.next = 12
        OBVIOUS
      <4>2. ~(12 > 11)
        BY <1>4, <4>1
      <4> QED  BY <4>2
    <3>2. s.next = 1
      BY <1>1, <3>1
    <3>3. ~(Moves(r.plan) /\ r.pc = 1)
      BY <1>1, <3>1
    <3>4. r.pc + 1 \in 1..Len(r.plan)
      BY <1>1, <1>4, <3>2
    <3> QED  BY <3>2, <3>3, <3>4
  <2>2. After(r, s, TRUE) = [r EXCEPT !.pc = r.pc + s.next, !.partial = r.partial \/ FALSE]
    BY <1>4, <2>1 DEF After
  <2>3. Onward(r, After(r, s, TRUE))
    BY <2>1, <2>2 DEF Onward
  <2> QED  BY <2>1, <2>3
<1> QED  BY <1>3, <1>4

LEMMA CalmFails ==
    ASSUME NEW r, HandlerType(r), r.pc > 0, Calm(r.plan), NEW s, s = r.plan[r.pc]
    PROVE  \/ Ended(After(r, s, FALSE))
           \/ /\ r.pc + 1 \in 1..Len(r.plan) /\ Moves(r.plan) /\ r.pc = 1
              /\ Onward(r, After(r, s, FALSE))
<1>1. /\ Len(r.plan) \in Nat /\ r.pc \in 1..Len(r.plan) /\ s.code \in Answers
      /\ \/ s.orElse = 0
         \/ s.orElse = 1 /\ Moves(r.plan) /\ r.pc = 1 /\ Len(r.plan) = 11
  BY CalmLeads DEF Leads
<1>2. CASE s.orElse = 0
  <2>1. After(r, s, FALSE) = Answered(s.code)
    BY <1>2 DEF After
  <2> QED  BY <1>1, <2>1, AnsweredType DEF Ended
<1>3. CASE s.orElse = 1 /\ Moves(r.plan) /\ r.pc = 1 /\ Len(r.plan) = 11
  <2>1. After(r, s, FALSE) = [r EXCEPT !.pc = r.pc + 1, !.partial = r.partial \/ (~FALSE /\ s.code = "partial")]
    BY <1>3 DEF After
  <2>2. Onward(r, After(r, s, FALSE))
    BY <2>1 DEF Onward
  <2>3. r.pc + 1 \in 1..Len(r.plan)
    BY <1>3
  <2> QED  BY <1>3, <2>2, <2>3, Zenon
<1> QED  BY <1>1, <1>2, <1>3

\* What is safe while the requests are of this kind.
Calmly == Kept /\ Apart /\ Blank /\ \A h \in Handlers : Works(h) /\ Secures(h)

\* A step takes no source away unless the entry is at the destination in full,
\* takes nothing from there that is, and leaves alone what others have open.
LEMMA Frame ==
    ASSUME Shape, Calmly, NEW h \in Handlers, NEW f \in [Paths -> Inodes \cup {0}], Sources(f), NEW d, NEW r,
           Become(h, f, d, r),
           \A e \in Names : f[<<"source", e>>] \in {0, files[<<"source", e>>]},
           \A i \in 1..Len(Entries) : f[<<"source", Entries[i]>>] # 0 => d[i] = data[i],
           \A e \in Names : \/ f[<<"source", e>>] # 0
                            \/ files[<<"source", e>>] = 0
                            \/ f[<<"dest", e>>] # 0 /\ d[f[<<"dest", e>>]] = Whole(e),
           \A e \in Names : Full(e) => f[<<"dest", e>>] # 0 /\ d[f[<<"dest", e>>]] = Whole(e),
           \A e \in Names : \/ files[<<"dest", e>>] \in {0, f[<<"dest", e>>]}
                            \/ f[<<"dest", e>>] # 0 /\ d[f[<<"dest", e>>]] = Whole(e),
           \A o \in Handlers \ {h} : /\ handler[o].fd # 0 => d[handler[o].fd] = data[handler[o].fd]
                                     /\ handler[o].in # 0 => d[handler[o].in] = data[handler[o].in],
           r.fd \in {0, handler[h].fd} \/ r.fd \notin Busy,
           r.in \in {0, handler[h].in} \/ \E e \in Names : r.in = files[<<"source", e>>]
    PROVE  /\ Kept' /\ Apart' /\ Blank'
           /\ \A e \in Names : Full(e) => Full(e)'
           /\ \A o \in Handlers \ {h} : Works(o)' /\ Secures(o)'
           /\ r.fd # 0 /\ r.fd \in Inodes => data'[r.fd] = d[r.fd]
           /\ r.in # 0 /\ r.in \in Inodes => data'[r.in] = d[r.in]
           /\ files' = f /\ handler'[h] = r
<1>1. /\ handler' = [handler EXCEPT ![h] = r] /\ files' = f /\ DOMAIN handler = Handlers
      /\ handler'[h] = r /\ \A o \in Handlers \ {h} : handler'[o] = handler[o]
  BY DEF Become, Shape
<1>2. \A i \in Inodes : (i \in Range(f) \/ \E o \in Handlers : i \in {handler'[o].fd, handler'[o].in}) => data'[i] = d[i]
  <2> SUFFICES ASSUME NEW i \in Inodes, i \in Range(f) \/ \E o \in Handlers : i \in {handler'[o].fd, handler'[o].in}
               PROVE  data'[i] = d[i]
    OBVIOUS
  <2>1. i \in Range(f) \cup {handler'[o].fd : o \in Handlers} \cup {handler'[o].in : o \in Handlers}
    OBVIOUS
  <2> QED  BY <2>1 DEF Become
<1>3. \A p \in Paths : f[p] # 0 => f[p] \in Inodes /\ data'[f[p]] = d[f[p]]
  <2>1. \A p \in Paths : f[p] \in Range(f)
    BY DEF Range
  <2> QED  BY <1>2, <2>1
<1>4. /\ \A e \in Names : <<"source", e>> \in Paths /\ <<"dest", e>> \in Paths
      /\ \A i \in 1..Len(Entries) : Entries[i] \in Names /\ i \in Inodes
      /\ \A e \in Names : \E i \in 1..Len(Entries) : e = Entries[i]
      /\ 0 \notin Inodes /\ Len(Entries) \in Nat
  BY PathsFinite DEF Paths
<1>5. \A e \in Names : f[<<"dest", e>>] # 0 /\ d[f[<<"dest", e>>]] = Whole(e) => Full(e)'
  BY <1>1, <1>3, <1>4 DEF Full
<1>6. \A e \in Names : Full(e) => Full(e)'
  BY <1>5
<1>11. Blank'
  <2> SUFFICES ASSUME NEW i \in Inodes, i \notin Busy' PROVE data'[i] = <<>>
    BY DEF Blank
  <2>1. i \notin Range(files') \cup {handler'[o].fd : o \in Handlers} \cup {handler'[o].in : o \in Handlers}
    BY DEF Busy
  <2> QED  BY <1>1, <2>1 DEF Become
<1>7. Kept'
  <2> SUFFICES ASSUME NEW i \in 1..Len(Entries)
               PROVE  /\ files'[<<"source", Entries[i]>>] # 0 => data'[i] = Whole(Entries[i])
                      /\ files'[<<"source", Entries[i]>>] = 0 => Full(Entries[i])'
    BY DEF Kept
  <2>1. Entries[i] \in Names /\ <<"source", Entries[i]>> \in Paths /\ f[<<"source", Entries[i]>>] \in {0, i}
    BY <1>4 DEF Sources
  <2>2. CASE f[<<"source", Entries[i]>>] # 0
    <3>1. data'[i] = d[i] /\ d[i] = data[i]
      BY <1>3, <2>1, <2>2
    <3>2. files[<<"source", Entries[i]>>] # 0
      BY <2>1, <2>2
    <3> QED  BY <1>1, <2>2, <3>1, <3>2 DEF Calmly, Kept
  <2>3. CASE f[<<"source", Entries[i]>>] = 0
    <3>1. files[<<"source", Entries[i]>>] = 0 => Full(Entries[i])
      BY DEF Calmly, Kept
    <3> QED  BY <1>1, <1>5, <1>6, <2>1, <2>3, <3>1
  <2> QED  BY <2>2, <2>3
<1>8. Apart'
  <2>1. \A p \in Paths : files[p] \in Busy
    BY DEF Busy, Range, Shape
  <2>2. \A o \in Handlers : handler[o].fd \in Busy /\ handler[o].in \in Busy
    BY DEF Busy
  <2>3. \A o \in Handlers : handler[o].fd # 0 =>
            /\ \A e \in Names : files[<<"source", e>>] # handler[o].fd
            /\ \A x \in Handlers : handler[x].in # handler[o].fd /\ (x # o => handler[x].fd # handler[o].fd)
    BY DEF Calmly, Apart
  <2>4. r.fd # 0 => /\ \A e \in Names : f[<<"source", e>>] # r.fd
                    /\ \A x \in Handlers \ {h} : handler[x].in # r.fd /\ handler[x].fd # r.fd
                    /\ r.in # r.fd
    <3> SUFFICES ASSUME r.fd # 0
                 PROVE  /\ \A e \in Names : f[<<"source", e>>] # r.fd
                        /\ \A x \in Handlers \ {h} : handler[x].in # r.fd /\ handler[x].fd # r.fd
                        /\ r.in # r.fd
      OBVIOUS
    <3>1. CASE r.fd = handler[h].fd
      <4>1. \A e \in Names : files[<<"source", e>>] # r.fd
        <5>1. handler[h].fd # 0
          BY <3>1
        <5>2. \A e \in Names : files[<<"source", e>>] # handler[h].fd
          BY <2>3, <5>1, Zenon
        <5> QED  BY <3>1, <5>2
      <4>2. /\ \A x \in Handlers : handler[x].in # r.fd
            /\ \A x \in Handlers \ {h} : handler[x].fd # r.fd
        <5>1. handler[h].fd # 0
          BY <3>1
        <5>2. \A x \in Handlers : handler[x].in # handler[h].fd /\ (x # h => handler[x].fd # handler[h].fd)
          BY <2>3, <5>1, Zenon
        <5> QED  BY <3>1, <5>2
      <4>3. r.in # r.fd
        BY <4>1, <4>2
      <4>4. \A e \in Names : f[<<"source", e>>] # r.fd
        BY <4>1
      <4> QED  BY <4>2, <4>3, <4>4
    <3>2. CASE r.fd \notin Busy
      <4>1. \A e \in Names : files[<<"source", e>>] # r.fd
        BY <1>4, <2>1, <3>2
      <4>2. \A x \in Handlers : handler[x].in # r.fd /\ handler[x].fd # r.fd
        BY <2>2, <3>2
      <4>3. r.in # r.fd
        BY <4>1, <4>2
      <4>4. \A e \in Names : f[<<"source", e>>] # r.fd
        BY <4>1
      <4> QED  BY <4>2, <4>3, <4>4
    <3> QED  BY <3>1, <3>2
  <2>5. \A o \in Handlers \ {h} : handler[o].fd # 0 =>
            /\ \A e \in Names : f[<<"source", e>>] # handler[o].fd
            /\ r.in # handler[o].fd /\ r.fd # handler[o].fd
    <3> SUFFICES ASSUME NEW o \in Handlers \ {h}, handler[o].fd # 0
                 PROVE  /\ \A e \in Names : f[<<"source", e>>] # handler[o].fd
                        /\ r.in # handler[o].fd /\ r.fd # handler[o].fd
      OBVIOUS
    <3>1. /\ \A e \in Names : files[<<"source", e>>] # handler[o].fd
          /\ handler[h].in # handler[o].fd /\ handler[h].fd # handler[o].fd
      BY <2>3
    <3>2. r.fd # handler[o].fd
      BY <2>2, <3>1
    <3>3. r.in # handler[o].fd
      BY <3>1
    <3>4. \A e \in Names : f[<<"source", e>>] # handler[o].fd
      BY <3>1
    <3> QED  BY <3>2, <3>3, <3>4
  <2> QED  BY <1>1, <2>3, <2>4, <2>5 DEF Apart
<1>9. ASSUME NEW o \in Handlers \ {h} PROVE Works(o)' /\ Secures(o)'
  <2>1. handler'[o] = handler[o] /\ Works(o) /\ Secures(o) /\ HandlerType(handler[o])
    BY <1>1 DEF Calmly, Shape
  <2>2. handler[o].fd \in Inodes \cup {0} /\ handler[o].in \in 0..Len(Entries)
    BY <2>1 DEF HandlerType
  <2>3. /\ handler[o].fd # 0 => data'[handler[o].fd] = data[handler[o].fd]
        /\ handler[o].in # 0 => data'[handler[o].in] = data[handler[o].in]
    <3>1. handler[o].in # 0 => handler[o].in \in Inodes
      BY <1>4, <2>2
    <3> QED  BY <1>2, <2>1, <2>2, <3>1
  <2>4. Works(o)'
    <3> DEFINE t == handler[o]
    <3>1. t.pc > 0 /\ t.plan[t.pc].kind = "put" => t.fd # 0
      BY <2>1 DEF Works
    <3>2. handler'[o] = t /\ Works(o)
      BY <2>1
    <3> QED  BY <2>3, <3>1, <3>2 DEF Works
  <2>5. Secures(o)'
    <3>0. PICK t : t = handler[o]
      OBVIOUS
    <3> SUFFICES ASSUME t.pc > 0, Moves(t.plan)
                 PROVE  /\ t.pc <= 3 => t.entry = 1
                        /\ t.pc <= 8 => \A j \in 1..(t.entry - 1) : Full(Entries[j])'
                        /\ t.pc = 7 => files'[<<"dest", Entries[t.entry]>>] = t.fd \/ Full(Entries[t.entry])'
                        /\ t.pc = 8 => Full(Entries[t.entry])'
                        /\ t.pc >= 9 => \A j \in 1..t.request.entries : Full(Entries[j])'
      BY <2>1, <3>0 DEF Secures
    <3>1. t.entry \in 1..Len(Entries) /\ t.request.entries \in 1..Len(Entries)
      BY <2>1, <3>0, PathFacts
    <3>2. /\ t.pc <= 3 => t.entry = 1
          /\ t.pc <= 8 => \A j \in 1..(t.entry - 1) : Full(Entries[j])
          /\ t.pc = 7 => files[<<"dest", Entries[t.entry]>>] = t.fd \/ Full(Entries[t.entry])
          /\ t.pc = 8 => Full(Entries[t.entry])
          /\ t.pc >= 9 => \A j \in 1..t.request.entries : Full(Entries[j])
      BY <2>1, <3>0 DEF Secures
    <3>3. \A j \in 1..Len(Entries) : Full(Entries[j]) => Full(Entries[j])'
      BY <1>4, <1>6
    <3>4. t.pc = 7 => files'[<<"dest", Entries[t.entry]>>] = t.fd \/ Full(Entries[t.entry])'
      <4>1. t.pc = 7 => t.fd # 0
        BY <2>1, <3>0 DEF Works, Moves
      <4> QED  BY <1>1, <1>4, <1>5, <3>1, <3>2, <3>3, <4>1
    <3>5. \A j \in 1..(t.entry - 1) : j \in 1..Len(Entries)
      BY <3>1, <1>4
    <3>6. \A j \in 1..t.request.entries : j \in 1..Len(Entries)
      BY <3>1, <1>4
    <3>7. t.pc <= 8 => \A j \in 1..(t.entry - 1) : Full(Entries[j])'
      BY <3>2, <3>3, <3>5
    <3>8. t.pc = 8 => Full(Entries[t.entry])'
      BY <3>1, <3>2, <3>3
    <3>9. t.pc >= 9 => \A j \in 1..t.request.entries : Full(Entries[j])'
      BY <3>2, <3>3, <3>6
    <3> QED  BY <3>2, <3>4, <3>7, <3>8, <3>9
  <2> QED  BY <2>4, <2>5
<1>10. /\ r.fd # 0 /\ r.fd \in Inodes => data'[r.fd] = d[r.fd]
       /\ r.in # 0 /\ r.in \in Inodes => data'[r.in] = d[r.in]
  BY <1>1, <1>2
<1> QED  BY <1>1, <1>6, <1>7, <1>8, <1>9, <1>10, <1>11

\* A step that changes no file.
LEMMA Still ==
    ASSUME Shape, Calmly, NEW h \in Handlers, NEW r, Become(h, files, data, r), r.fd \in {0, handler[h].fd},
           r.in \in {0, handler[h].in} \/ \E e \in Names : r.in = files[<<"source", e>>]
    PROVE  /\ Kept' /\ Apart' /\ Blank'
           /\ \A e \in Names : Full(e) => Full(e)'
           /\ \A o \in Handlers \ {h} : Works(o)' /\ Secures(o)'
           /\ r.fd # 0 /\ r.fd \in Inodes => data'[r.fd] = data[r.fd]
           /\ r.in # 0 /\ r.in \in Inodes => data'[r.in] = data[r.in]
           /\ files' = files /\ handler'[h] = r
<1>1. files \in [Paths -> Inodes \cup {0}] /\ Sources(files)
  BY DEF Shape
<1>2. \A e \in Names : Full(e) => files[<<"dest", e>>] # 0 /\ data[files[<<"dest", e>>]] = Whole(e)
  BY DEF Full
<1> QED  BY <1>1, <1>2, Frame

LEMMA GlancesOnly == \A p : Glances(p) => ~Copies(p) /\ ~Moves(p)
<1> SUFFICES ASSUME NEW p, Glances(p) PROVE ~Copies(p) /\ ~Moves(p)
  OBVIOUS
<1>1. \A j \in 1..Len(p) : p[j].kind \notin {"input", "rename"}
  BY DEF Glances, Excl
<1>2. ~Copies(p)
  <2> SUFFICES ASSUME Copies(p) PROVE FALSE
    OBVIOUS
  <2>1. 4 \in 1..Len(p) /\ p[4].kind = "input"
    BY DEF Copies
  <2> QED  BY <1>1, <2>1
<1>3. ~Moves(p)
  <2> SUFFICES ASSUME Moves(p) PROVE FALSE
    OBVIOUS
  <2>1. 1 \in 1..Len(p) /\ p[1].kind = "rename"
    BY DEF Moves
  <2> QED  BY <1>1, <2>1
<1> QED  BY <1>2, <1>3

\* What the steps of these plans do.
LEMMA CalmKinds ==
    ASSUME NEW p, Calm(p), NEW i \in 1..Len(p), Len(p) \in Nat
    PROVE  LET s == p[i] IN
           /\ s.kind \in {"found", "hash", "local", "link", "vacant", "input", "open", "put", "again", "rename", "remove"}
           /\ s.kind = "open" => Excl(s) /\ ((~Copies(p) /\ ~Moves(p)) \/ (Copies(p) /\ i = 5) \/ (Moves(p) /\ i = 6))
           /\ s.kind = "put" => \/ s.place = "input" /\ ((Copies(p) /\ i = 6) \/ (Moves(p) /\ i = 7))
                                \/ s.place = "written" /\ Creates(p) /\ i = 2
           /\ s.kind = "rename" => Moves(p) /\ i = 1 /\ s.place = "source"
           /\ s.kind = "remove" => Moves(p) /\ i = 10 /\ s.place = "source"
           /\ s.kind = "again" => (Copies(p) /\ i = 7 /\ s.mode = 4) \/ (Moves(p) /\ i = 8 /\ s.mode = 4)
                                  \/ (Moves(p) /\ i = 11 /\ s.mode = 1)
           /\ s.kind = "input" => (Copies(p) /\ i = 4) \/ (Moves(p) /\ i = 5)
           /\ s.kind \in {"found", "vacant"} /\ Moves(p) => i \in {2, 3, 4, 9}
           /\ s.kind \in {"hash", "local", "link"} => ~Moves(p)
<1>1. CASE Copies(p)
  <2>1. Len(p) = 7 /\ ~Moves(p)
    BY <1>1 DEF Copies, Moves
  <2> QED  BY <1>1, <2>1 DEF Copies, Excl
<1>2. CASE Moves(p)
  <2>1. Len(p) = 11 /\ ~Copies(p)
    BY <1>2 DEF Copies, Moves
  <2> QED  BY <1>2, <2>1 DEF Moves, Excl
<1>3. CASE Creates(p)
  <2>1. Len(p) = 2 /\ ~Copies(p) /\ ~Moves(p)
    BY <1>3 DEF Creates, Copies, Moves
  <2> QED  BY <1>3, <2>1 DEF Creates, Excl
<1>4. CASE Glances(p)
  <2>1. ~Copies(p) /\ ~Moves(p)
    BY <1>4, GlancesOnly
  <2> QED  BY <1>4, <2>1 DEF Glances, Excl
<1> QED  BY <1>1, <1>2, <1>3, <1>4 DEF Calm

LEMMA NextKind ==
    ASSUME NEW p, Calm(p), Len(p) \in Nat, NEW i \in 1..Len(p), i + 1 \in 1..Len(p),
           p[i].kind \in {"found", "hash", "local", "link", "vacant", "remove"} \/ (Moves(p) /\ i = 1)
    PROVE  p[i + 1].kind # "put" /\ (p[i + 1].kind = "open" => ~Copies(p) /\ ~Moves(p))
<1>1. CASE Copies(p)
  BY <1>1 DEF Copies, Moves, Excl
<1>2. CASE Moves(p)
  BY <1>2 DEF Copies, Moves, Excl
<1>3. CASE Creates(p)
  BY <1>3 DEF Creates, Moves, Excl
<1>4. CASE Glances(p)
  <2>1. ~Copies(p) /\ ~Moves(p)
    BY <1>4, GlancesOnly
  <2> QED  BY <1>4, <2>1 DEF Glances, Excl
<1> QED  BY <1>1, <1>2, <1>3, <1>4 DEF Calm

\* The handler whose step it was, when that wrote and opened nothing.
Follows(r, a) == /\ a.pc = r.pc + 1 /\ a.plan = r.plan /\ a.fd = r.fd /\ a.in = r.in /\ a.append = r.append
                 /\ a.entry = r.entry /\ a.request = r.request

Passing == {"found", "hash", "local", "link", "vacant", "remove", "rename"}

LEMMA OwnFollows ==
    ASSUME Shape, Calmly, NEW h \in Handlers, Running(h), NEW a, handler'[h] = a,
           \A e \in Names : Full(e) => Full(e)',
           NEW r, r = handler[h], NEW s, s = r.plan[r.pc],
           Ended(a) \/ (/\ r.pc + 1 \in 1..Len(r.plan) /\ Follows(r, a)
                        /\ (Moves(r.plan) /\ r.pc = 1) \/ s.kind \in Passing \ {"rename"})
    PROVE  Works(h)' /\ Secures(h)'
<1>1. /\ HandlerType(r) /\ r.pc > 0 /\ r.pc \in 1..Len(r.plan) /\ Len(r.plan) \in Nat /\ Calm(r.plan)
  BY HandlerFound DEF Calmly, Works, Running
<1>2. CASE Ended(a)
  BY <1>2 DEF Works, Secures, Ended
<1>3. CASE /\ r.pc + 1 \in 1..Len(r.plan) /\ Follows(r, a)
           /\ (Moves(r.plan) /\ r.pc = 1) \/ s.kind \in Passing \ {"rename"}
  <2>1. /\ a.pc = r.pc + 1 /\ a.plan = r.plan /\ a.fd = r.fd /\ a.in = r.in /\ a.append = r.append
        /\ a.entry = r.entry /\ a.request = r.request
    BY <1>3 DEF Follows
  <2>2. \/ s.kind \in {"found", "hash", "local", "link", "vacant", "remove"}
        \/ s.kind = "rename" /\ Moves(r.plan) /\ r.pc = 1
    <3>1. Moves(r.plan) /\ r.pc = 1 => s.kind = "rename"
      BY DEF Moves
    <3> QED  BY <1>3, <3>1 DEF Passing
  <2>3. Works(h) /\ Secures(h)
    BY DEF Calmly
  <2>4. r.fd = 0 /\ r.in = 0 /\ ~r.append
    BY <1>1, <2>2, <2>3 DEF Works
  <2>5. r.plan[r.pc + 1].kind # "put" /\ (r.plan[r.pc + 1].kind = "open" => ~Copies(r.plan) /\ ~Moves(r.plan))
    BY <1>1, <1>3, <2>2, NextKind
  <2>6. Works(h)'
    BY <1>1, <2>1, <2>4, <2>5 DEF Works
  <2>7. Secures(h)'
    <3> SUFFICES ASSUME Moves(r.plan) PROVE Secures(h)'
      BY <2>1 DEF Secures
    <3>1. r.pc \in {1, 2, 3, 4, 9, 10}
      BY <1>1, <2>2, CalmKinds
    <3>2. r.entry \in 1..Len(Entries) /\ r.request.entries \in 1..Len(Entries)
      BY <1>1, PathFacts
    <3>3. /\ r.pc <= 3 => r.entry = 1
          /\ r.pc <= 8 => \A j \in 1..(r.entry - 1) : Full(Entries[j])
          /\ r.pc >= 9 => \A j \in 1..r.request.entries : Full(Entries[j])
      BY <1>1, <2>3 DEF Secures
    <3>4. \A j \in 1..Len(Entries) : Full(Entries[j]) => Full(Entries[j])'
      BY PathsFinite
    <3>5. /\ \A j \in 1..(r.entry - 1) : j \in 1..Len(Entries)
          /\ \A j \in 1..r.request.entries : j \in 1..Len(Entries)
      BY <3>2, PathsFinite
    <3>6. a.pc <= 3 => a.entry = 1
      BY <2>1, <3>1, <3>3
    <3>7. a.pc <= 8 => \A j \in 1..(a.entry - 1) : Full(Entries[j])'
      BY <2>1, <3>1, <3>3, <3>4, <3>5
    <3>8. a.pc \notin {7, 8}
      BY <2>1, <3>1
    <3>9. a.pc >= 9 => \A j \in 1..a.request.entries : Full(Entries[j])'
      BY <2>1, <3>1, <3>3, <3>4, <3>5
    <3> QED  BY <3>6, <3>7, <3>8, <3>9 DEF Secures
  <2> QED  BY <2>6, <2>7
<1> QED  BY <1>2, <1>3

\* Where its record goes after its step.
LEMMA AfterFollows ==
    ASSUME NEW r, HandlerType(r), r.pc > 0, Calm(r.plan), NEW s, s = r.plan[r.pc], NEW a,
           a = After(r, s, FALSE) \/ (a = After(r, s, TRUE) /\ s.kind \in Passing)
    PROVE  Ended(a) \/ (/\ r.pc + 1 \in 1..Len(r.plan) /\ Follows(r, a)
                        /\ (Moves(r.plan) /\ r.pc = 1) \/ s.kind \in Passing \ {"rename"})
<1> DEFINE First == Moves(r.plan) /\ r.pc = 1
<1>1. DOMAIN r = Fields /\ r.pc \in 1..Len(r.plan) /\ Len(r.plan) \in Nat
  BY StepFound DEF HandlerType
<1>2. CASE a = After(r, s, FALSE)
  <2>1. Ended(After(r, s, FALSE)) \/ (r.pc + 1 \in 1..Len(r.plan) /\ First /\ Onward(r, After(r, s, FALSE)))
    BY CalmFails
  <2>2. Ended(a) \/ (r.pc + 1 \in 1..Len(r.plan) /\ First /\ Onward(r, a))
    BY <1>2, <2>1, Zenon
  <2> QED  BY <1>1, <2>2, OnwardFields DEF Follows
<1>3. CASE a = After(r, s, TRUE) /\ s.kind \in Passing
  <2>1. Ended(After(r, s, TRUE)) \/ (r.pc + 1 \in 1..Len(r.plan) /\ ~First /\ Onward(r, After(r, s, TRUE)))
    BY CalmPasses
  <2>2. Ended(a) \/ (r.pc + 1 \in 1..Len(r.plan) /\ ~First /\ Onward(r, a))
    BY <1>3, <2>1, Zenon
  <2>3. s.kind = "rename" => First
    BY <1>1, CalmKinds
  <2> QED  BY <1>1, <1>3, <2>2, <2>3, OnwardFields DEF Follows
<1> QED  BY <1>2, <1>3

CalmStep == Kept' /\ Apart' /\ Blank' /\ \A h \in Handlers : Works(h)' /\ Secures(h)'

LEMMA CalmFound ==
    ASSUME Shape, Calmly, NEW h \in Handlers, Running(h)
    PROVE  \E r, s : /\ r = handler[h] /\ s = StepOf(h) /\ s = r.plan[r.pc] /\ HandlerType(r) /\ r.pc > 0
                     /\ Calm(r.plan) /\ DOMAIN r = Fields /\ r.pc \in 1..Len(r.plan) /\ Len(r.plan) \in Nat
                     /\ r.entry \in 1..r.request.entries /\ r.request.entries \in 1..Len(Entries)
                     /\ r.entry \in 1..Len(Entries) /\ r.in \in 0..Len(Entries) /\ r.fd \in Inodes \cup {0}
<1>1. HandlerType(handler[h]) /\ handler[h].pc > 0
  BY HandlerFound
<1>2. Calm(handler[h].plan)
  BY <1>1 DEF Calmly, Works
<1> QED  BY <1>1, <1>2, HandlerFound, PathFacts DEF StepOf, HandlerType

LEMMA CalmGoes ==
    ASSUME Shape, Calmly, NEW h \in Handlers, Running(h),
           \/ Become(h, files, data, After(handler[h], StepOf(h), FALSE))
           \/ Become(h, files, data, After(handler[h], StepOf(h), TRUE)) /\ StepOf(h).kind \in Passing
    PROVE  CalmStep
<1>1. PICK r, s : /\ r = handler[h] /\ s = StepOf(h) /\ s = r.plan[r.pc] /\ HandlerType(r) /\ r.pc > 0
                  /\ Calm(r.plan) /\ DOMAIN r = Fields
  BY CalmFound
<1>2. PICK a : /\ Become(h, files, data, a)
               /\ a = After(r, s, FALSE) \/ (a = After(r, s, TRUE) /\ s.kind \in Passing)
  BY <1>1
<1>3. Ended(a) \/ (/\ r.pc + 1 \in 1..Len(r.plan) /\ Follows(r, a)
                   /\ (Moves(r.plan) /\ r.pc = 1) \/ s.kind \in Passing \ {"rename"})
  BY <1>1, <1>2, AfterFollows
<1>4. a.fd \in {0, r.fd} /\ a.in \in {0, r.in}
  BY <1>3 DEF Ended, Follows
<1>5. /\ Kept' /\ Apart' /\ Blank' /\ \A e \in Names : Full(e) => Full(e)'
      /\ \A o \in Handlers \ {h} : Works(o)' /\ Secures(o)'
      /\ handler'[h] = a
  BY <1>1, <1>2, <1>4, Still
<1>6. Works(h)' /\ Secures(h)'
  BY <1>1, <1>3, <1>5, OwnFollows
<1> QED  BY <1>5, <1>6 DEF CalmStep

\* The operations.
LEMMA CalmLook == ASSUME Shape, Calmly, NEW h \in Handlers, Look(h) PROVE CalmStep
<1>1. Running(h)
  BY DEF Look, At
<1>2. StepOf(h).kind # "size"
  <2>1. PICK r, s : /\ r = handler[h] /\ s = StepOf(h) /\ s = r.plan[r.pc] /\ Calm(r.plan)
                    /\ r.pc \in 1..Len(r.plan) /\ Len(r.plan) \in Nat
    BY <1>1, CalmFound
  <2> QED  BY <2>1, CalmKinds
<1>3. StepOf(h).kind \in {"found", "vacant"} /\ \E ok \in BOOLEAN : Goes(h, ok)
  <2>1. CASE At(h, "found") /\ Goes(h, Present(h, StepOf(h).place) # {})
    BY <2>1 DEF At
  <2>2. CASE At(h, "vacant") /\ Goes(h, IF StepOf(h).mode = "all" THEN Present(h, StepOf(h).place) = {}
                                        ELSE files[PathOf(h)] = 0)
    <3>1. (IF StepOf(h).mode = "all" THEN Present(h, StepOf(h).place) = {} ELSE files[PathOf(h)] = 0) \in BOOLEAN
      OBVIOUS
    <3> QED  BY <2>2, <3>1, Zenon DEF At
  <2> QED  BY <1>2, <2>1, <2>2 DEF Look, At
<1>4. \/ Become(h, files, data, After(handler[h], StepOf(h), FALSE))
      \/ Become(h, files, data, After(handler[h], StepOf(h), TRUE))
  BY <1>3, Zenon DEF Goes
<1> QED  BY <1>1, <1>3, <1>4, CalmGoes DEF Passing

LEMMA CalmHash == ASSUME Shape, Calmly, NEW h \in Handlers, CheckHash(h) PROVE CalmStep
<1>1. Running(h) /\ StepOf(h).kind = "hash"
  BY DEF CheckHash, At
<1>2. \/ Become(h, files, data, After(handler[h], StepOf(h), FALSE))
      \/ Become(h, files, data, After(handler[h], StepOf(h), TRUE))
  BY Zenon DEF CheckHash, Goes
<1> QED  BY <1>1, <1>2, CalmGoes DEF Passing

LEMMA CalmLocal == ASSUME Shape, Calmly, NEW h \in Handlers, LocalStep(h) PROVE CalmStep
<1>1. Running(h) /\ StepOf(h).kind = "local"
  BY DEF LocalStep, At
<1>2. \/ Become(h, files, data, After(handler[h], StepOf(h), FALSE))
      \/ Become(h, files, data, After(handler[h], StepOf(h), TRUE))
  BY Zenon DEF LocalStep, Goes, Fails
<1> QED  BY <1>1, <1>2, CalmGoes DEF Passing

LEMMA CalmOther ==
    ASSUME Shape, Calmly, NEW h \in Handlers, CutFile(h) \/ Respond(h) \/ TryAgain(h) PROVE CalmStep
<1>1. Running(h) /\ StepOf(h).kind \in {"cut", "fetch", "retry"}
  BY DEF CutFile, Respond, TryAgain, At
<1>2. PICK r, s : /\ r = handler[h] /\ s = StepOf(h) /\ s = r.plan[r.pc] /\ Calm(r.plan)
                  /\ r.pc \in 1..Len(r.plan) /\ Len(r.plan) \in Nat
  BY <1>1, CalmFound
<1> QED  BY <1>1, <1>2, CalmKinds

LEMMA CalmInput == ASSUME Shape, Calmly, NEW h \in Handlers, OpenInput(h) PROVE CalmStep
<1>1. Running(h) /\ StepOf(h).kind = "input"
  BY DEF OpenInput, At
<1>2. PICK r, s : /\ r = handler[h] /\ s = StepOf(h) /\ s = r.plan[r.pc] /\ HandlerType(r) /\ r.pc > 0
                  /\ Calm(r.plan) /\ DOMAIN r = Fields /\ r.pc \in 1..Len(r.plan) /\ Len(r.plan) \in Nat
                  /\ r.entry \in 1..Len(Entries)
  BY <1>1, CalmFound
<1>3. (Copies(r.plan) /\ r.pc = 4) \/ (Moves(r.plan) /\ r.pc = 5)
  BY <1>1, <1>2, HandlerFound, CalmKinds DEF SoundStep
<1>4. PICK inode : inode = files[PathOf(h)]
  OBVIOUS
<1>5. PathOf(h) = <<"source", Entries[r.entry]>> /\ inode \in {0, r.entry} /\ r.entry \in Inodes
      /\ Entries[r.entry] \in Names
  <2>1. s.place = "source"
    BY <1>1, <1>2, HandlerFound DEF SoundStep
  <2> QED  BY <1>2, <1>4, <2>1, PathsFinite DEF PathOf, Shape, Sources
<1>6. Works(h) /\ Secures(h) /\ r.fd = 0 /\ r.in = 0 /\ ~r.append
  BY <1>1, <1>2 DEF Calmly, Works
<1>7. Kept
  BY DEF Calmly
<1> DEFINE b == [r EXCEPT !.in = inode]
<1>8. \/ inode # 0 /\ Become(h, files, data, After(b, s, TRUE))
      \/ Become(h, files, data, After(handler[h], StepOf(h), FALSE))
      \/ inode = 0 /\ Become(h, files, data, [r EXCEPT !.pc = @ + 3])
  BY <1>2, <1>4 DEF OpenInput, Goes
<1>9. CASE inode # 0 /\ Become(h, files, data, After(b, s, TRUE))
  <2>1. HandlerType(b) /\ b.pc = r.pc /\ b.plan = r.plan /\ b.fd = 0 /\ b.in = inode /\ b.append = r.append
        /\ b.entry = r.entry /\ b.request = r.request /\ DOMAIN b = Fields
    <3>1. inode \in 0..Len(Entries)
      BY <1>2, <1>5, PathsFinite
    <3> QED  BY <1>2, <1>6, <3>1, RecordType DEF Fields
  <2> HIDE DEF b
  <2>2. PICK a : a = After(b, s, TRUE)
    OBVIOUS
  <2>3. Ended(a) \/ Onward(b, a)
    <3>1. Ended(After(b, s, TRUE)) \/ Onward(b, After(b, s, TRUE))
      BY <1>2, <2>1, CalmPasses
    <3> QED  BY <2>2, <3>1, Zenon
  <2>4. a.fd = 0 /\ a.in \in {0, inode}
    BY <2>1, <2>3, OnwardFields DEF Ended
  <2>5. Become(h, files, data, a)
    BY <1>9, <2>2
  <2>6. /\ Kept' /\ Apart' /\ Blank' /\ \A e \in Names : Full(e) => Full(e)'
        /\ \A o \in Handlers \ {h} : Works(o)' /\ Secures(o)'
        /\ a.in # 0 /\ a.in \in Inodes => data'[a.in] = data[a.in]
        /\ handler'[h] = a
    BY <1>4, <1>5, <2>4, <2>5, Still
  <2>7. CASE Ended(a)
    <3>1. Works(h)' /\ Secures(h)'
      BY <2>6, <2>7 DEF Works, Secures, Ended
    <3> QED  BY <2>6, <3>1 DEF CalmStep
  <2>8. CASE Onward(b, a)
    <3>1. /\ a.pc = r.pc + 1 /\ a.plan = r.plan /\ a.fd = 0 /\ a.in = inode /\ a.append = r.append
          /\ a.entry = r.entry /\ a.request = r.request
      BY <2>1, <2>8, OnwardFields
    <3>2. data'[inode] = Whole(Entries[r.entry])
      <4>1. inode = r.entry
        BY <1>5, <1>9
      <4>2. data[r.entry] = Whole(Entries[r.entry])
        BY <1>2, <1>4, <1>5, <1>7, <1>9 DEF Kept
      <4> QED  BY <1>5, <1>9, <2>6, <3>1, <4>1, <4>2
    <3>3. r.plan[r.pc + 1].kind = "open"
      BY <1>3 DEF Copies, Moves, Excl
    <3>4. Works(h)'
      BY <1>2, <1>6, <1>9, <2>6, <3>1, <3>2, <3>3 DEF Works
    <3>5. Secures(h)'
      <4> SUFFICES ASSUME Moves(r.plan) PROVE Secures(h)'
        BY <2>6, <3>1 DEF Secures
      <4>1. r.pc = 5 /\ a.pc = 6
        BY <1>3, <3>1 DEF Copies, Moves
      <4>2. \A j \in 1..(r.entry - 1) : Full(Entries[j])
        BY <1>2, <1>6, <4>1 DEF Secures
      <4>3. \A j \in 1..(r.entry - 1) : Full(Entries[j])'
        <5>1. \A j \in 1..(r.entry - 1) : Entries[j] \in Names
          BY <1>2, PathsFinite
        <5> QED  BY <2>6, <4>2, <5>1
      <4> QED  BY <2>6, <3>1, <4>1, <4>3 DEF Secures
    <3> QED  BY <2>6, <3>4, <3>5 DEF CalmStep
  <2> QED  BY <2>3, <2>7, <2>8
<1>10. CASE Become(h, files, data, After(handler[h], StepOf(h), FALSE))
  BY <1>1, <1>10, CalmGoes
<1>11. CASE inode = 0 /\ Become(h, files, data, [r EXCEPT !.pc = @ + 3])
  <2>1. PICK a : a = [r EXCEPT !.pc = @ + 3]
    OBVIOUS
  <2>2. /\ a.pc = r.pc + 3 /\ a.plan = r.plan /\ a.fd = 0 /\ a.in = 0 /\ a.append = r.append
        /\ a.entry = r.entry /\ a.request = r.request
    BY <1>2, <1>6, <2>1 DEF Fields
  <2>3. Become(h, files, data, a)
    BY <1>11, <2>1
  <2>4. /\ Kept' /\ Apart' /\ Blank' /\ \A e \in Names : Full(e) => Full(e)'
        /\ \A o \in Handlers \ {h} : Works(o)' /\ Secures(o)'
        /\ handler'[h] = a
    BY <2>2, <2>3, Still
  <2>5. r.plan[r.pc + 3].kind = "again"
    BY <1>3 DEF Copies, Moves
  <2>6. Works(h)'
    BY <1>2, <1>6, <2>2, <2>4, <2>5 DEF Works
  <2>7. Secures(h)'
    <3> SUFFICES ASSUME Moves(r.plan) PROVE Secures(h)'
      BY <2>2, <2>4 DEF Secures
    <3>1. r.pc = 5 /\ a.pc = 8
      BY <1>3, <2>2 DEF Copies, Moves
    <3>2. \A j \in 1..(r.entry - 1) : Full(Entries[j])
      BY <1>2, <1>6, <3>1 DEF Secures
    <3>3. Full(Entries[r.entry])
      BY <1>2, <1>4, <1>5, <1>7, <1>11 DEF Kept
    <3>4. (\A j \in 1..(r.entry - 1) : Full(Entries[j])') /\ Full(Entries[r.entry])'
      <4>1. \A j \in 1..(r.entry - 1) : Entries[j] \in Names
        BY <1>2, PathsFinite
      <4> QED  BY <1>5, <2>4, <3>2, <3>3, <4>1
    <3> QED  BY <2>2, <2>4, <3>1, <3>4 DEF Secures
  <2> QED  BY <2>4, <2>6, <2>7 DEF CalmStep
<1> QED  BY <1>8, <1>9, <1>10, <1>11

\* The blocks of a content.
LEMMA BegunFacts ==
    /\ \A v : Whole(v) = Begun(v, 2) /\ Begun(v, 0) = <<>> /\ Len(Whole(v)) = 2
    /\ \A v, w : \A k \in {0, 1} : Begun(v, k) # Whole(w)
    /\ \A v : \A k \in {0, 1} : Spliced(Begun(v, k), 1 + k, Whole(v)[k + 1]) = Begun(v, k + 1)
<1>1. \A v : Whole(v) = Begun(v, 2)
  BY DEF Whole, Begun, Size
<1>2. \A v : Begun(v, 0) = <<>>
  BY DEF Begun
<1>3. \A v : \A k \in {0, 1, 2} : Begun(v, k) \in Seq({<<v, 1>>, <<v, 2>>}) /\ Len(Begun(v, k)) = k
  <2> SUFFICES ASSUME NEW v, NEW k \in {0, 1, 2}
               PROVE  Begun(v, k) \in Seq({<<v, 1>>, <<v, 2>>}) /\ Len(Begun(v, k)) = k
    OBVIOUS
  <2>1. \A i \in 1..k : <<v, i>> \in {<<v, 1>>, <<v, 2>>}
    OBVIOUS
  <2>2. k \in Nat /\ Begun(v, k) \in [1..k -> {<<v, 1>>, <<v, 2>>}]
    BY <2>1 DEF Begun
  <2>3. Begun(v, k) \in Seq({<<v, 1>>, <<v, 2>>})
    BY <2>2, SeqDef
  <2> QED  BY <2>2, <2>3, LenProperties
<1>4. \A v, w : \A k \in {0, 1} : Begun(v, k) # Whole(w)
  <2> SUFFICES ASSUME NEW v, NEW w, NEW k \in {0, 1}, Begun(v, k) = Whole(w) PROVE FALSE
    OBVIOUS
  <2>1. Len(Begun(v, k)) = k
    BY <1>3
  <2>2. Len(Begun(w, 2)) = 2
    BY <1>3
  <2>3. Begun(v, k) = Begun(w, 2)
    BY <1>1
  <2> QED  BY <2>1, <2>2, <2>3
<1>5. ASSUME NEW v, NEW k \in {0, 1} PROVE Spliced(Begun(v, k), 1 + k, Whole(v)[k + 1]) = Begun(v, k + 1)
  <2>1. Len(Begun(v, k)) = k /\ Whole(v)[k + 1] = <<v, k + 1>>
    <3>1. Len(Begun(v, k)) = k
      BY <1>3
    <3>2. k + 1 \in 1..2
      OBVIOUS
    <3>3. Whole(v)[k + 1] = <<v, k + 1>>
      BY <3>2 DEF Whole, Size
    <3> QED  BY <3>1, <3>3
  <2>2. Spliced(Begun(v, k), 1 + k, Whole(v)[k + 1])
          = [i \in 1..(k + 1) |-> IF i = 1 + k THEN <<v, k + 1>> ELSE IF i <= k THEN Begun(v, k)[i] ELSE <<"hole", i>>]
    BY <2>1 DEF Spliced
  <2>3. \A i \in 1..(k + 1) : (IF i = 1 + k THEN <<v, k + 1>> ELSE IF i <= k THEN Begun(v, k)[i] ELSE <<"hole", i>>)
                                = <<v, i>>
    BY DEF Begun
  <2> QED  BY <2>2, <2>3 DEF Begun
<1> QED  BY <1>1, <1>2, <1>3, <1>4, <1>5

LEMMA CalmOpen == ASSUME Shape, Calmly, NEW h \in Handlers, OpenOutput(h) PROVE CalmStep
<1>1. Running(h) /\ StepOf(h).kind = "open"
  BY DEF OpenOutput, At
<1>2. PICK r, s : /\ r = handler[h] /\ s = StepOf(h) /\ s = r.plan[r.pc] /\ HandlerType(r) /\ r.pc > 0
                  /\ Calm(r.plan) /\ DOMAIN r = Fields /\ r.pc \in 1..Len(r.plan) /\ Len(r.plan) \in Nat
                  /\ r.entry \in 1..Len(Entries) /\ r.in \in 0..Len(Entries)
  BY <1>1, CalmFound
<1>3. s.mode = "excl" /\ s.place = "dest"
      /\ ((~Copies(r.plan) /\ ~Moves(r.plan)) \/ (Copies(r.plan) /\ r.pc = 5) \/ (Moves(r.plan) /\ r.pc = 6))
  BY <1>1, <1>2, CalmKinds DEF Excl
<1>4. PICK p : p = PathOf(h)
  OBVIOUS
<1>5. p \in Paths /\ p = <<"dest", Entries[r.entry]>> /\ Entries[r.entry] \in Names /\ p[1] # "source"
  BY <1>1, <1>2, <1>3, <1>4, PathFound, PathsFinite DEF PathOf
<1>6. CASE Become(h, files, data, After(handler[h], StepOf(h), FALSE))
  BY <1>1, <1>6, CalmGoes
<1>7. PICK inode : inode = Fresh
  OBVIOUS
<1> DEFINE b == [r EXCEPT !.fd = inode, !.read = 0, !.made = r.made \cup {inode},
                          !.append = r.append \/ s.mode = "append"]
           f == [files EXCEPT ![p] = inode]
           d == [data EXCEPT ![inode] = data[inode]]
<1>8. CASE files[p] = 0 /\ Become(h, f, d, After(b, s, TRUE))
  <2>1. inode \in Inodes /\ inode \notin Busy /\ inode # 0
    <3>1. files \in [Paths -> Inodes \cup {0}] /\ Sources(files) /\ \A o \in Handlers : handler[o].in \in 0..Len(Entries)
      BY DEF Shape, HandlerType
    <3> QED  BY <1>5, <1>7, <1>8, <3>1, FreshFree, PathsFinite
  <2>2. Works(h) /\ Secures(h) /\ Kept /\ Blank
    BY DEF Calmly
  <2>3. r.fd = 0 /\ ~r.append
        /\ (Copies(r.plan) \/ Moves(r.plan) => r.in # 0)
        /\ (r.in # 0 => data[r.in] = Whole(Entries[r.entry]))
    BY <1>1, <1>2, <2>2 DEF Works
  <2>4. /\ HandlerType(b) /\ b.pc = r.pc /\ b.plan = r.plan /\ b.fd = inode /\ b.in = r.in /\ ~b.append
        /\ b.entry = r.entry /\ b.request = r.request /\ b.read = 0 /\ DOMAIN b = Fields
    <3> DEFINE made == r.made \cup {inode}   append == r.append \/ s.mode = "append"
    <3>1. b = [r EXCEPT !.fd = inode, !.read = 0, !.made = made, !.append = append] /\ ~append
      BY <1>3, <2>3
    <3> HIDE DEF b, made, append
    <3> QED  BY <1>2, <2>1, <3>1, RecordType DEF Fields
  <2> HIDE DEF b
  <2>5. PICK a : a = After(b, s, TRUE)
    OBVIOUS
  <2>6. Ended(a) \/ (r.pc + 1 \in 1..Len(r.plan) /\ Onward(b, a))
    <3>1. Ended(After(b, s, TRUE)) \/ (b.pc + 1 \in 1..Len(b.plan) /\ Onward(b, After(b, s, TRUE)))
      BY <1>2, <2>4, CalmPasses
    <3> QED  BY <2>4, <2>5, <3>1
  <2>7. a.fd \in {0, inode} /\ a.in \in {0, r.in}
    BY <2>4, <2>6, OnwardFields DEF Ended
  <2>8. Become(h, f, d, a)
    BY <1>8, <2>5
  <2>9. \A x \in Inodes : d[x] = data[x]
    BY <2>1 DEF Shape
  <2>10. f \in [Paths -> Inodes \cup {0}] /\ \A x \in Paths : x # p => f[x] = files[x]
    BY <1>5, <2>1 DEF Shape
  <2>11. f[p] = inode /\ <<"dest", Entries[r.entry]>> = p
    BY <1>5 DEF Shape
  <2> HIDE DEF f, d
  <2>12. \A e \in Names : /\ <<"source", e>> \in Paths /\ <<"dest", e>> \in Paths
                          /\ <<"source", e>> # p
                          /\ <<"dest", e>> = p \/ <<"dest", e>> # p
    BY <1>5 DEF Paths
  <2>13. \A e \in Names : f[<<"source", e>>] = files[<<"source", e>>]
    BY <2>10, <2>12
  <2>14. Sources(f)
    <3>1. Sources(files)
      BY DEF Shape
    <3> QED  BY <2>13, <3>1, PathsFinite DEF Sources
  <2>15. \A e \in Names : Full(e) => f[<<"dest", e>>] # 0 /\ d[f[<<"dest", e>>]] = Whole(e)
    <3> SUFFICES ASSUME NEW e \in Names, Full(e)
                 PROVE  f[<<"dest", e>>] # 0 /\ d[f[<<"dest", e>>]] = Whole(e)
      OBVIOUS
    <3>1. f[<<"dest", e>>] = files[<<"dest", e>>] /\ files[<<"dest", e>>] # 0 /\ <<"dest", e>> \in Paths
      BY <1>8, <2>10, <2>12 DEF Full
    <3>2. files[<<"dest", e>>] \in Inodes
      BY <3>1 DEF Shape
    <3> QED  BY <2>9, <3>1, <3>2 DEF Full
  <2>16. \A e \in Names : files[<<"dest", e>>] \in {0, f[<<"dest", e>>]}
    BY <1>8, <2>10, <2>12
  <2>17. /\ Kept' /\ Apart' /\ Blank' /\ \A e \in Names : Full(e) => Full(e)'
         /\ \A o \in Handlers \ {h} : Works(o)' /\ Secures(o)'
         /\ a.fd # 0 /\ a.fd \in Inodes => data'[a.fd] = d[a.fd]
         /\ a.in # 0 /\ a.in \in Inodes => data'[a.in] = d[a.in]
         /\ files' = f /\ handler'[h] = a
    <3>1. \A e \in Names : f[<<"source", e>>] # 0 \/ files[<<"source", e>>] = 0
      BY <2>13
    <3>2. a.fd \in {0, handler[h].fd} \/ a.fd \notin Busy
      BY <2>1, <2>7
    <3>3. a.in \in {0, handler[h].in}
      BY <1>2, <2>7
    <3>4. \A i \in 1..Len(Entries) : d[i] = data[i]
      BY <2>9, PathsFinite
    <3>5. \A o \in Handlers \ {h} : /\ handler[o].fd # 0 => d[handler[o].fd] = data[handler[o].fd]
                                    /\ handler[o].in # 0 => d[handler[o].in] = data[handler[o].in]
      <4>1. \A o \in Handlers : handler[o].fd \in Inodes \cup {0} /\ handler[o].in \in 0..Len(Entries)
        BY DEF Shape, HandlerType
      <4>2. \A i \in 0..Len(Entries) : i # 0 => i \in 1..Len(Entries)
        BY PathsFinite
      <4> QED  BY <2>9, <3>4, <4>1, <4>2
    <3> QED  BY <2>8, <2>10, <2>13, <2>14, <2>15, <2>16, <3>1, <3>2, <3>3, <3>4, <3>5, Frame
  <2>18. CASE Ended(a)
    <3>1. Works(h)' /\ Secures(h)'
      BY <2>17, <2>18 DEF Works, Secures, Ended
    <3> QED  BY <2>17, <3>1 DEF CalmStep
  <2>19. CASE r.pc + 1 \in 1..Len(r.plan) /\ Onward(b, a)
    <3>1. /\ a.pc = r.pc + 1 /\ a.plan = r.plan /\ a.fd = inode /\ a.in = r.in /\ ~a.append
          /\ a.entry = r.entry /\ a.request = r.request /\ a.read = 0
      BY <2>4, <2>19, OnwardFields
    <3>2. r.plan[r.pc + 1].kind = "put"
          /\ (r.plan[r.pc + 1].place = "input" => Copies(r.plan) \/ Moves(r.plan))
      <4>1. CASE Copies(r.plan)
        BY <1>3, <4>1 DEF Copies, Moves
      <4>2. CASE Moves(r.plan)
        BY <1>3, <4>2 DEF Copies, Moves
      <4>3. CASE Creates(r.plan)
        BY <1>1, <1>2, <2>19, <4>3 DEF Creates, Excl
      <4>4. CASE Glances(r.plan)
        <5>1. r.pc = Len(r.plan)
          BY <1>1, <1>2, <4>4 DEF Glances
        <5> QED  BY <1>2, <2>19, <5>1
      <4> QED  BY <1>2, <4>1, <4>2, <4>3, <4>4 DEF Calm
    <3>3. data'[inode] = <<>>
      BY <2>1, <2>2, <2>9, <2>17, <3>1 DEF Blank
    <3>4. r.in # 0 => data'[r.in] = Whole(Entries[r.entry])
      <4>1. r.in # 0 => r.in \in Inodes
        BY <1>2, PathsFinite
      <4> QED  BY <2>3, <2>9, <2>17, <3>1, <4>1
    <3>5. 0 \in 0..Size /\ \A v : Begun(v, 0) = <<>>
      BY BegunFacts DEF Size
    <3>6. Works(h)'
      BY <1>2, <2>1, <2>3, <2>17, <3>1, <3>2, <3>3, <3>4, <3>5 DEF Works
    <3>7. Secures(h)'
      <4> SUFFICES ASSUME Moves(r.plan) PROVE Secures(h)'
        BY <2>17, <3>1 DEF Secures
      <4>1. r.pc = 6 /\ a.pc = 7
        BY <1>3, <3>1 DEF Copies, Moves
      <4>2. \A j \in 1..(r.entry - 1) : Full(Entries[j])
        BY <1>2, <2>2, <4>1 DEF Secures
      <4>3. \A j \in 1..(r.entry - 1) : Full(Entries[j])'
        <5>1. \A j \in 1..(r.entry - 1) : Entries[j] \in Names
          BY <1>2, PathsFinite
        <5> QED  BY <2>17, <4>2, <5>1
      <4>4. files'[<<"dest", Entries[r.entry]>>] = inode
        BY <2>11, <2>17
      <4> QED  BY <2>17, <3>1, <4>1, <4>3, <4>4 DEF Secures
    <3> QED  BY <2>17, <3>6, <3>7 DEF CalmStep
  <2> QED  BY <2>6, <2>18, <2>19
<1>9. \/ Become(h, files, data, After(handler[h], StepOf(h), FALSE))
      \/ files[p] = 0 /\ Become(h, f, d, After(b, s, TRUE))
  <2>1. CASE files[p] # 0
    BY <1>2, <1>3, <1>4, <2>1 DEF OpenOutput, Goes
  <2>2. CASE files[p] = 0
    <3>1. s.mode # "trunc" /\ s.mode # "response" /\ s.mode # "existing"
      BY <1>3
    <3> QED  BY <1>2, <1>4, <1>7, <2>2, <3>1 DEF OpenOutput, Goes, Fails
  <2> QED  BY <2>1, <2>2
<1> QED  BY <1>6, <1>8, <1>9

LEMMA CalmPut == ASSUME Shape, Calmly, NEW h \in Handlers, PutBlock(h) PROVE CalmStep
<1>1. Running(h) /\ StepOf(h).kind = "put"
  BY DEF PutBlock, At
<1>2. PICK r, s : /\ r = handler[h] /\ s = StepOf(h) /\ s = r.plan[r.pc] /\ HandlerType(r) /\ r.pc > 0
                  /\ Calm(r.plan) /\ DOMAIN r = Fields /\ r.pc \in 1..Len(r.plan) /\ Len(r.plan) \in Nat
                  /\ r.entry \in 1..Len(Entries) /\ r.in \in 0..Len(Entries) /\ r.fd \in Inodes \cup {0}
                  /\ r.entry \in 1..r.request.entries /\ r.request.entries \in 1..Len(Entries)
  BY <1>1, CalmFound
<1>3. \/ s.place = "input" /\ ((Copies(r.plan) /\ r.pc = 6) \/ (Moves(r.plan) /\ r.pc = 7))
      \/ s.place = "written" /\ Creates(r.plan) /\ r.pc = 2
  BY <1>1, <1>2, CalmKinds
<1>4. PICK v : v = IF s.place = "input" THEN Entries[r.entry] ELSE "written"
  OBVIOUS
<1>5. Works(h) /\ Secures(h) /\ Apart
  BY DEF Calmly
<1>6. /\ r.fd # 0 /\ r.fd \in Inodes /\ ~r.append /\ r.read \in {0, 1, 2} /\ data[r.fd] = Begun(v, r.read)
      /\ s.place = "input" => r.in # 0 /\ data[r.in] = Whole(Entries[r.entry])
  BY <1>1, <1>2, <1>4, <1>5 DEF Works, Size
<1>7. Blocks(h) = Whole(v) /\ Len(Blocks(h)) = 2
  <2>1. CASE s.place = "input"
    <3>1. Blocks(h) = data[r.in]
      BY <1>2, <2>1 DEF Blocks
    <3> QED  BY <1>4, <1>6, <2>1, <3>1, BegunFacts
  <2>2. CASE s.place = "written"
    <3>1. Blocks(h) = Whole("written")
      BY <1>2, <2>2 DEF Blocks
    <3> QED  BY <1>4, <2>2, <3>1, BegunFacts
  <2> QED  BY <1>3, <2>1, <2>2
<1> DEFINE d == [data EXCEPT ![r.fd] = Begun(v, r.read + 1)]
           b == [r EXCEPT !.read = r.read + 1]
           c == [r EXCEPT !.fd = 0, !.in = 0, !.read = 0]
<1>8. \/ r.read \in {0, 1} /\ Become(h, files, d, b)
      \/ r.read = 2 /\ Become(h, files, data, After(c, s, TRUE))
      \/ Become(h, files, data, After(handler[h], StepOf(h), FALSE))
  <2>1. s.place # "sent"
    BY <1>3
  <2>2. \/ /\ r.read < 2
           /\ Become(h, files, [data EXCEPT ![r.fd] = Spliced(data[r.fd], 1 + r.read, Whole(v)[r.read + 1])], b)
        \/ r.read >= 2 /\ Become(h, files, data, After(c, s, TRUE))
        \/ Become(h, files, data, After(handler[h], StepOf(h), FALSE))
    <3>1. PICK first : first = IF StepOf(h).place = "sent"
                               THEN CHOOSE i \in StepOf(h).mode : i - 1 \notin StepOf(h).mode ELSE 1
      OBVIOUS
    <3>2. PICK n : n = IF r.append THEN Len(data[r.fd]) + 1 ELSE first + r.read
      OBVIOUS
    <3>3. n = 1 + r.read
      BY <1>2, <1>6, <2>1, <3>1, <3>2
    <3>4. \/ /\ r.read < Len(Blocks(h))
             /\ Become(h, files, [data EXCEPT ![r.fd] = Spliced(@, n, Blocks(h)[r.read + 1])], [r EXCEPT !.read = @ + 1])
          \/ r.read >= Len(Blocks(h)) /\ Become(h, files, data, After(c, StepOf(h), TRUE))
          \/ Become(h, files, data, After(handler[h], StepOf(h), FALSE))
      BY <1>2, <3>1, <3>2 DEF PutBlock, Fails
    <3> QED  BY <1>2, <1>7, <3>3, <3>4
  <2>3. r.read \in {0, 1} => Spliced(data[r.fd], 1 + r.read, Whole(v)[r.read + 1]) = Begun(v, r.read + 1)
    BY <1>6, BegunFacts
  <2>4. r.read \in {0, 1} /\ Become(h, files, [data EXCEPT ![r.fd] = Spliced(data[r.fd], 1 + r.read, Whole(v)[r.read + 1])], b)
          => Become(h, files, d, b)
    BY <2>3
  <2>5. (r.read < 2 => r.read \in {0, 1}) /\ (r.read >= 2 => r.read = 2)
    BY <1>6
  <2> HIDE DEF b, c, d
  <2> QED  BY <2>2, <2>4, <2>5
<1>9. CASE r.read \in {0, 1} /\ Become(h, files, d, b)
  <2>1. /\ b.fd = r.fd /\ b.in = r.in /\ b.pc = r.pc /\ b.plan = r.plan /\ b.append = r.append /\ b.entry = r.entry
        /\ b.request = r.request /\ b.read = r.read + 1
    BY <1>2 DEF Fields
  <2>2. d[r.fd] = Begun(v, r.read + 1) /\ \A x \in Inodes : x # r.fd => d[x] = data[x]
    BY <1>6 DEF Shape
  <2> HIDE DEF d, b
  <2>3. /\ \A e \in Names : files[<<"source", e>>] # r.fd
        /\ \A o \in Handlers : handler[o].in # r.fd
        /\ \A o \in Handlers \ {h} : handler[o].fd # r.fd
    <3>1. handler[h].fd # 0
      BY <1>2, <1>6
    <3> QED  BY <1>2, <1>5, <3>1 DEF Apart
  <2>4. files \in [Paths -> Inodes \cup {0}] /\ Sources(files)
    BY DEF Shape
  <2>5. \A i \in 1..Len(Entries) : files[<<"source", Entries[i]>>] # 0 => d[i] = data[i]
    <3> SUFFICES ASSUME NEW i \in 1..Len(Entries), files[<<"source", Entries[i]>>] # 0 PROVE d[i] = data[i]
      OBVIOUS
    <3>1. i \in Inodes /\ Entries[i] \in Names /\ files[<<"source", Entries[i]>>] = i
      BY <2>4, PathsFinite DEF Sources
    <3> QED  BY <2>2, <2>3, <3>1
  <2>6. \A e \in Names : Full(e) => files[<<"dest", e>>] # 0 /\ d[files[<<"dest", e>>]] = Whole(e)
    <3> SUFFICES ASSUME NEW e \in Names, Full(e) PROVE files[<<"dest", e>>] # 0 /\ d[files[<<"dest", e>>]] = Whole(e)
      OBVIOUS
    <3>1. files[<<"dest", e>>] # 0 /\ data[files[<<"dest", e>>]] = Whole(e)
      BY DEF Full
    <3>2. files[<<"dest", e>>] # r.fd
      BY <1>6, <1>9, <3>1, BegunFacts
    <3>3. files[<<"dest", e>>] \in Inodes
      BY <2>4, <3>1 DEF Paths
    <3> QED  BY <2>2, <3>1, <3>2, <3>3
  <2>7. \A o \in Handlers \ {h} : /\ handler[o].fd # 0 => d[handler[o].fd] = data[handler[o].fd]
                                  /\ handler[o].in # 0 => d[handler[o].in] = data[handler[o].in]
    <3>1. \A o \in Handlers : handler[o].fd \in Inodes \cup {0} /\ handler[o].in \in 0..Len(Entries)
      BY DEF Shape, HandlerType
    <3>2. \A i \in 0..Len(Entries) : i # 0 => i \in Inodes
      BY PathsFinite
    <3> QED  BY <2>2, <2>3, <3>1, <3>2
  <2>8. /\ Kept' /\ Apart' /\ Blank' /\ \A e \in Names : Full(e) => Full(e)'
        /\ \A o \in Handlers \ {h} : Works(o)' /\ Secures(o)'
        /\ b.fd # 0 /\ b.fd \in Inodes => data'[b.fd] = d[b.fd]
        /\ b.in # 0 /\ b.in \in Inodes => data'[b.in] = d[b.in]
        /\ files' = files /\ handler'[h] = b
    <3>1. \A e \in Names : files[<<"source", e>>] # 0 \/ files[<<"source", e>>] = 0
      OBVIOUS
    <3>2. b.fd \in {0, handler[h].fd} /\ b.in \in {0, handler[h].in}
      BY <1>2, <2>1
    <3> QED  BY <1>9, <2>4, <2>5, <2>6, <2>7, <3>1, <3>2, Frame
  <2>9. Works(h)'
    <3>1. r.read + 1 \in 0..Size /\ data'[r.fd] = Begun(v, r.read + 1)
      BY <1>6, <1>9, <2>1, <2>2, <2>8 DEF Size
    <3>2. r.in # 0 => data'[r.in] = data[r.in]
      <4>1. r.in # 0 => r.in \in Inodes /\ r.in # r.fd
        BY <1>2, <2>3, PathsFinite
      <4> QED  BY <2>1, <2>2, <2>8, <4>1
    <3>3. r.in # 0 => data[r.in] = Whole(Entries[r.entry])
      BY <1>2, <1>5 DEF Works
    <3>4. r.in # 0 => data'[r.in] = Whole(Entries[r.entry])
      BY <3>2, <3>3
    <3> HIDE DEF Passing
    <3> QED  BY <1>1, <1>2, <1>4, <1>6, <2>1, <2>8, <3>1, <3>4, SMTT(30) DEF Works
  <2>10. Secures(h)'
    <3> SUFFICES ASSUME Moves(r.plan) PROVE Secures(h)'
      BY <2>1, <2>8 DEF Secures
    <3>1. r.pc = 7
      BY <1>3 DEF Copies, Moves, Creates
    <3>2. /\ \A j \in 1..(r.entry - 1) : Full(Entries[j])
          /\ files[<<"dest", Entries[r.entry]>>] = r.fd \/ Full(Entries[r.entry])
      BY <1>2, <1>5, <3>1 DEF Secures
    <3>3. (\A j \in 1..(r.entry - 1) : Full(Entries[j])')
          /\ (files'[<<"dest", Entries[r.entry]>>] = r.fd \/ Full(Entries[r.entry])')
      <4>1. Entries[r.entry] \in Names /\ \A j \in 1..(r.entry - 1) : Entries[j] \in Names
        BY <1>2, PathsFinite
      <4> QED  BY <2>8, <3>2, <4>1
    <3> QED  BY <2>1, <2>8, <3>1, <3>3 DEF Secures
  <2> QED  BY <2>8, <2>9, <2>10 DEF CalmStep
<1>10. CASE r.read = 2 /\ Become(h, files, data, After(c, s, TRUE))
  <2>1. /\ HandlerType(c) /\ c.pc = r.pc /\ c.plan = r.plan /\ c.fd = 0 /\ c.in = 0 /\ c.append = r.append
        /\ c.entry = r.entry /\ c.request = r.request /\ DOMAIN c = Fields
    BY <1>2, RecordType DEF Fields
  <2> HIDE DEF c
  <2>2. PICK a : a = After(c, s, TRUE)
    OBVIOUS
  <2>3. Ended(a) \/ (r.pc + 1 \in 1..Len(r.plan) /\ Onward(c, a))
    <3>1. Ended(After(c, s, TRUE)) \/ (c.pc + 1 \in 1..Len(c.plan) /\ Onward(c, After(c, s, TRUE)))
      BY <1>2, <2>1, CalmPasses
    <3> QED  BY <2>1, <2>2, <3>1, Zenon
  <2>4. a.fd = 0 /\ a.in = 0
    BY <2>1, <2>3, OnwardFields DEF Ended
  <2>5. Become(h, files, data, a)
    BY <1>10, <2>2
  <2>6. /\ Kept' /\ Apart' /\ Blank' /\ \A e \in Names : Full(e) => Full(e)'
        /\ \A o \in Handlers \ {h} : Works(o)' /\ Secures(o)'
        /\ handler'[h] = a
    BY <2>4, <2>5, Still
  <2>7. CASE Ended(a)
    <3>1. Works(h)' /\ Secures(h)'
      BY <2>6, <2>7 DEF Works, Secures, Ended
    <3> QED  BY <2>6, <3>1 DEF CalmStep
  <2>8. CASE r.pc + 1 \in 1..Len(r.plan) /\ Onward(c, a)
    <3>1. /\ a.pc = r.pc + 1 /\ a.plan = r.plan /\ a.fd = 0 /\ a.in = 0 /\ ~a.append
          /\ a.entry = r.entry /\ a.request = r.request
      BY <1>6, <2>1, <2>8, OnwardFields
    <3>2. r.plan[r.pc + 1].kind = "again" /\ ~Creates(r.plan)
      <4>1. ~Creates(r.plan)
        <5> SUFFICES ASSUME Creates(r.plan) PROVE FALSE
          OBVIOUS
        <5>1. Len(r.plan) = 2
          BY DEF Creates
        <5>2. ~Copies(r.plan) /\ ~Moves(r.plan)
          BY <5>1 DEF Copies, Moves
        <5>3. r.pc = 2
          BY <1>3, <5>2
        <5>4. r.pc + 1 \in 1..2
          BY <2>8, <5>1
        <5> QED  BY <5>3, <5>4
      <4>2. (Copies(r.plan) /\ r.pc = 6) \/ (Moves(r.plan) /\ r.pc = 7)
        BY <1>3, <4>1
      <4>3. CASE Copies(r.plan) /\ r.pc = 6
        BY <4>1, <4>3 DEF Copies
      <4>4. CASE Moves(r.plan) /\ r.pc = 7
        BY <4>1, <4>4 DEF Moves
      <4> QED  BY <4>2, <4>3, <4>4
    <3>3. Works(h)'
      BY <1>2, <2>6, <3>1, <3>2 DEF Works
    <3>4. Secures(h)'
      <4> SUFFICES ASSUME Moves(r.plan) PROVE Secures(h)'
        BY <2>6, <3>1 DEF Secures
      <4>1. r.pc = 7 /\ a.pc = 8 /\ s.place = "input"
        BY <1>3, <3>1 DEF Copies, Moves, Creates
      <4>2. /\ \A j \in 1..(r.entry - 1) : Full(Entries[j])
            /\ files[<<"dest", Entries[r.entry]>>] = r.fd \/ Full(Entries[r.entry])
        BY <1>2, <1>5, <4>1 DEF Secures
      <4>3. Full(Entries[r.entry])
        <5>1. data[r.fd] = Whole(Entries[r.entry])
          BY <1>4, <1>6, <1>10, <4>1, BegunFacts
        <5> QED  BY <1>6, <4>2, <5>1 DEF Full
      <4>4. (\A j \in 1..(r.entry - 1) : Full(Entries[j])') /\ Full(Entries[r.entry])'
        <5>1. Entries[r.entry] \in Names /\ \A j \in 1..(r.entry - 1) : Entries[j] \in Names
          BY <1>2, PathsFinite
        <5> QED  BY <2>6, <4>2, <4>3, <5>1
      <4> QED  BY <2>6, <3>1, <4>1, <4>4 DEF Secures
    <3> QED  BY <2>6, <3>3, <3>4 DEF CalmStep
  <2> QED  BY <2>3, <2>7, <2>8
<1>11. CASE Become(h, files, data, After(handler[h], StepOf(h), FALSE))
  BY <1>1, <1>11, CalmGoes
<1> QED  BY <1>8, <1>9, <1>10, <1>11

LEMMA CalmRemove == ASSUME Shape, Calmly, NEW h \in Handlers, RemoveFile(h) PROVE CalmStep
<1>1. Running(h) /\ StepOf(h).kind = "remove"
  BY DEF RemoveFile, At
<1>2. PICK r, s : /\ r = handler[h] /\ s = StepOf(h) /\ s = r.plan[r.pc] /\ HandlerType(r) /\ r.pc > 0
                  /\ Calm(r.plan) /\ DOMAIN r = Fields /\ r.pc \in 1..Len(r.plan) /\ Len(r.plan) \in Nat
                  /\ r.entry \in 1..Len(Entries) /\ r.entry \in 1..r.request.entries
                  /\ r.request.entries \in 1..Len(Entries)
  BY <1>1, CalmFound
<1>3. Moves(r.plan) /\ r.pc = 10 /\ s.place = "source"
  BY <1>1, <1>2, CalmKinds
<1>4. PICK p : p = PathOf(h)
  OBVIOUS
<1>5. p = <<"source", Entries[r.entry]>> /\ p \in Paths /\ Entries[r.entry] \in Names
  BY <1>2, <1>3, <1>4, PathsFinite DEF PathOf, Paths
<1>6. Works(h) /\ Secures(h)
  BY DEF Calmly
<1>7. Full(Entries[r.entry])
  BY <1>2, <1>3, <1>6 DEF Secures
<1> DEFINE f == [files EXCEPT ![p] = 0]
<1>8. \/ Become(h, files, data, After(handler[h], StepOf(h), FALSE))
      \/ Become(h, files, data, After(handler[h], StepOf(h), TRUE))
      \/ Become(h, f, data, After(r, s, TRUE))
  <2> DEFINE must == StepOf(h).mode = "must" \/ (StepOf(h).mode = "single" /\ handler[h].request.entries = 1)
  <2>1. CASE files[PathOf(h)] = 0
    <3>1. Goes(h, ~must)
      BY <2>1 DEF RemoveFile
    <3>2. Goes(h, TRUE) \/ Goes(h, FALSE)
      <4>1. (~must) \in BOOLEAN
        OBVIOUS
      <4> HIDE DEF must
      <4> QED  BY <3>1, <4>1, Zenon
    <3> QED  BY <3>2, Zenon DEF Goes
  <2>2. CASE files[PathOf(h)] # 0
    BY <1>2, <1>4, <2>2 DEF RemoveFile, Fails
  <2> QED  BY <2>1, <2>2
<1>9. CASE Become(h, f, data, After(r, s, TRUE))
  <2>1. f \in [Paths -> Inodes \cup {0}] /\ (\A x \in Paths : x # p => f[x] = files[x]) /\ f[p] = 0
    BY <1>5 DEF Shape
  <2> HIDE DEF f
  <2>2. PICK a : a = After(r, s, TRUE)
    OBVIOUS
  <2>3. Ended(a) \/ (/\ r.pc + 1 \in 1..Len(r.plan) /\ Follows(r, a)
                     /\ (Moves(r.plan) /\ r.pc = 1) \/ s.kind \in Passing \ {"rename"})
    <3>1. s.kind \in Passing
      BY <1>1, <1>2 DEF Passing
    <3> QED  BY <1>2, <2>2, <3>1, AfterFollows
  <2>4. a.fd \in {0, r.fd} /\ a.in \in {0, r.in}
    BY <2>3 DEF Ended, Follows
  <2>5. \A e \in Names : /\ <<"source", e>> \in Paths /\ <<"dest", e>> \in Paths
                         /\ <<"dest", e>> # p /\ (<<"source", e>> = p <=> e = Entries[r.entry])
    BY <1>5 DEF Paths
  <2>6. \A e \in Names : f[<<"source", e>>] \in {0, files[<<"source", e>>]} /\ f[<<"dest", e>>] = files[<<"dest", e>>]
    BY <2>1, <2>5
  <2>7. Sources(f)
    <3>1. Sources(files)
      BY DEF Shape
    <3> QED  BY <2>6, <3>1, PathsFinite DEF Sources
  <2>8. \A e \in Names : Full(e) => f[<<"dest", e>>] # 0 /\ data[f[<<"dest", e>>]] = Whole(e)
    BY <2>6 DEF Full
  <2>9. \A e \in Names : \/ f[<<"source", e>>] # 0
                         \/ files[<<"source", e>>] = 0
                         \/ f[<<"dest", e>>] # 0 /\ data[f[<<"dest", e>>]] = Whole(e)
    <3> SUFFICES ASSUME NEW e \in Names PROVE \/ f[<<"source", e>>] # 0
                                              \/ files[<<"source", e>>] = 0
                                              \/ f[<<"dest", e>>] # 0 /\ data[f[<<"dest", e>>]] = Whole(e)
      OBVIOUS
    <3>1. CASE e = Entries[r.entry]
      BY <1>7, <2>8, <3>1
    <3>2. CASE e # Entries[r.entry]
      BY <2>1, <2>5, <3>2
    <3> QED  BY <3>1, <3>2
  <2>10. Become(h, f, data, a)
    BY <1>9, <2>2
  <2>11. a.fd \in {0, handler[h].fd} /\ a.in \in {0, handler[h].in}
    BY <1>2, <2>4
  <2>12. /\ Kept' /\ Apart' /\ Blank' /\ \A e \in Names : Full(e) => Full(e)'
         /\ \A o \in Handlers \ {h} : Works(o)' /\ Secures(o)'
         /\ handler'[h] = a
    <3>1. \A e \in Names : files[<<"dest", e>>] \in {0, f[<<"dest", e>>]}
      BY <2>6
    <3>2. \A e \in Names : f[<<"source", e>>] \in {0, files[<<"source", e>>]}
      BY <2>6
    <3> QED  BY <2>1, <2>7, <2>8, <2>9, <2>10, <2>11, <3>1, <3>2, Frame
  <2>13. Works(h)' /\ Secures(h)'
    BY <1>1, <1>2, <2>3, <2>12, OwnFollows
  <2> QED  BY <2>12, <2>13 DEF CalmStep
<1> QED  BY <1>1, <1>8, <1>9, CalmGoes DEF Passing

LEMMA CalmRename == ASSUME Shape, Calmly, NEW h \in Handlers, RenameFile(h) PROVE CalmStep
<1>1. Running(h) /\ StepOf(h).kind = "rename"
  BY DEF RenameFile, At
<1>2. PICK r, s : /\ r = handler[h] /\ s = StepOf(h) /\ s = r.plan[r.pc] /\ HandlerType(r) /\ r.pc > 0
                  /\ Calm(r.plan) /\ DOMAIN r = Fields /\ r.pc \in 1..Len(r.plan) /\ Len(r.plan) \in Nat
                  /\ r.request.entries \in 1..Len(Entries)
  BY <1>1, CalmFound
<1>3. Moves(r.plan) /\ r.pc = 1 /\ s.place = "source"
  BY <1>1, <1>2, CalmKinds
<1>4. PICK moved : moved = Present(h, "source")
  OBVIOUS
<1>5. \A e \in moved : e \in Names /\ files[<<"source", e>>] # 0
  <2>1. \A i \in 1..r.request.entries : Entries[i] \in Names
    BY <1>2, PathFacts
  <2>2. \A e \in Worked(h) : e \in Names
    BY <1>2, <2>1 DEF Worked
  <2> QED  BY <1>4, <2>2 DEF Present
<1> DEFINE f == [p \in Paths |-> IF p[2] \notin moved THEN files[p]
                                 ELSE IF p[1] = "dest" THEN files[<<"source", p[2]>>]
                                 ELSE IF p[1] = "source" THEN 0 ELSE files[p]]
<1>6. \/ Become(h, f, data, After(r, s, TRUE))
      \/ Become(h, files, data, After(handler[h], StepOf(h), FALSE))
  BY <1>2, <1>3, <1>4 DEF RenameFile, Goes
<1>7. CASE Become(h, f, data, After(r, s, TRUE))
  <2>1. files \in [Paths -> Inodes \cup {0}] /\ Sources(files)
    BY DEF Shape
  <2>2. \A e \in Names : <<"source", e>> \in Paths /\ <<"dest", e>> \in Paths
    BY DEF Paths
  <2>3. \A e \in Names : /\ f[<<"source", e>>] = IF e \in moved THEN 0 ELSE files[<<"source", e>>]
                         /\ f[<<"dest", e>>] = IF e \in moved THEN files[<<"source", e>>] ELSE files[<<"dest", e>>]
    BY <2>2
  <2>4. f \in [Paths -> Inodes \cup {0}]
    <3>1. \A e \in moved : <<"source", e>> \in Paths
      BY <1>5, <2>2
    <3> QED  BY <2>1, <3>1
  <2> HIDE DEF f
  <2>5. \A e \in Names : f[<<"source", e>>] \in {0, files[<<"source", e>>]}
    BY <2>3
  <2>6. Sources(f)
    BY <2>1, <2>5, PathsFinite DEF Sources
  <2>7. \A e \in moved : f[<<"dest", e>>] # 0 /\ data[f[<<"dest", e>>]] = Whole(e)
    <3> SUFFICES ASSUME NEW e \in moved PROVE f[<<"dest", e>>] # 0 /\ data[f[<<"dest", e>>]] = Whole(e)
      OBVIOUS
    <3>1. PICK i \in 1..Len(Entries) : e = Entries[i]
      BY <1>5, PathsFinite
    <3>2. files[<<"source", e>>] = i /\ data[i] = Whole(e)
      <4>1. files[<<"source", e>>] = i
        BY <1>5, <2>1, <3>1 DEF Sources
      <4>2. data[i] = Whole(e)
        BY <1>5, <3>1 DEF Calmly, Kept
      <4> QED  BY <4>1, <4>2
    <3> QED  BY <1>5, <2>3, <3>2
  <2>8. \A e \in Names : Full(e) => f[<<"dest", e>>] # 0 /\ data[f[<<"dest", e>>]] = Whole(e)
    BY <2>3, <2>7 DEF Full
  <2>9. \A e \in Names : \/ f[<<"source", e>>] # 0
                         \/ files[<<"source", e>>] = 0
                         \/ f[<<"dest", e>>] # 0 /\ data[f[<<"dest", e>>]] = Whole(e)
    BY <2>3, <2>7
  <2>10. \A e \in Names : \/ files[<<"dest", e>>] \in {0, f[<<"dest", e>>]}
                          \/ f[<<"dest", e>>] # 0 /\ data[f[<<"dest", e>>]] = Whole(e)
    BY <2>3, <2>7
  <2>11. PICK a : a = After(r, s, TRUE)
    OBVIOUS
  <2>12. Ended(a)
    <3>1. Ended(After(r, s, TRUE))
      <4>1. \/ Ended(After(r, s, TRUE))
            \/ ~(Moves(r.plan) /\ r.pc = 1)
        BY <1>2, CalmPasses
      <4> QED  BY <1>3, <4>1, Zenon
    <3> QED  BY <2>11, <3>1, Zenon
  <2>13. Become(h, f, data, a) /\ a.fd = 0 /\ a.in = 0
    BY <1>7, <2>11, <2>12 DEF Ended
  <2>14. /\ Kept' /\ Apart' /\ Blank'
         /\ \A o \in Handlers \ {h} : Works(o)' /\ Secures(o)'
         /\ handler'[h] = a
    BY <2>4, <2>5, <2>6, <2>8, <2>9, <2>10, <2>13, Frame
  <2>15. Works(h)' /\ Secures(h)'
    BY <2>12, <2>14 DEF Works, Secures, Ended
  <2> QED  BY <2>14, <2>15 DEF CalmStep
<1>8. CASE Become(h, files, data, After(handler[h], StepOf(h), FALSE))
  BY <1>1, <1>8, CalmGoes
<1> QED  BY <1>6, <1>7, <1>8

LEMMA CalmLink == ASSUME Shape, Calmly, NEW h \in Handlers, LinkFile(h) PROVE CalmStep
<1>1. Running(h) /\ StepOf(h).kind = "link"
  BY DEF LinkFile, At
<1>2. PICK r, s : /\ r = handler[h] /\ s = StepOf(h) /\ s = r.plan[r.pc] /\ HandlerType(r) /\ r.pc > 0
                  /\ Calm(r.plan) /\ DOMAIN r = Fields /\ r.pc \in 1..Len(r.plan) /\ Len(r.plan) \in Nat
                  /\ r.entry \in 1..Len(Entries)
  BY <1>1, CalmFound
<1>3. PICK p, inode : p = PathOf(h) /\ inode = files[<<"source", Entries[r.entry]>>]
  OBVIOUS
<1>4. p = <<"dest", Entries[r.entry]>> /\ p \in Paths /\ Entries[r.entry] \in Names
      /\ <<"source", Entries[r.entry]>> \in Paths
  <2>1. s.place = "dest"
    BY <1>1, <1>2, HandlerFound DEF SoundStep
  <2> QED  BY <1>2, <1>3, <2>1, PathsFinite DEF PathOf, Paths
<1>5. files \in [Paths -> Inodes \cup {0}] /\ Sources(files)
  BY DEF Shape
<1> DEFINE f == [files EXCEPT ![p] = inode]
           b == [r EXCEPT !.made = r.made \cup {inode}]
<1>6. \/ files[p] = 0 /\ Become(h, f, data, After(b, s, TRUE))
      \/ Become(h, files, data, After(handler[h], StepOf(h), FALSE))
  BY <1>2, <1>3 DEF LinkFile, Goes
<1>7. CASE files[p] = 0 /\ Become(h, f, data, After(b, s, TRUE))
  <2>1. f \in [Paths -> Inodes \cup {0}] /\ (\A x \in Paths : x # p => f[x] = files[x])
    BY <1>3, <1>4, <1>5
  <2>2. HandlerType(b) /\ b.pc = r.pc /\ b.plan = r.plan /\ b.fd = r.fd /\ b.in = r.in /\ b.append = r.append
        /\ b.entry = r.entry /\ b.request = r.request
    <3> DEFINE made == r.made \cup {inode}
    <3>1. b = [r EXCEPT !.made = made]
      OBVIOUS
    <3> HIDE DEF made, b
    <3> QED  BY <1>2, <3>1, RecordType DEF Fields
  <2> HIDE DEF f, b
  <2>3. PICK a : a = After(b, s, TRUE)
    OBVIOUS
  <2>4. Ended(a) \/ (/\ r.pc + 1 \in 1..Len(r.plan) /\ Follows(r, a)
                     /\ (Moves(r.plan) /\ r.pc = 1) \/ s.kind \in Passing \ {"rename"})
    <3>1. s.kind \in Passing
      BY <1>1, <1>2 DEF Passing
    <3>2. Ended(a) \/ (/\ b.pc + 1 \in 1..Len(b.plan) /\ Follows(b, a)
                       /\ (Moves(b.plan) /\ b.pc = 1) \/ s.kind \in Passing \ {"rename"})
      BY <1>2, <2>2, <2>3, <3>1, AfterFollows
    <3>3. Follows(b, a) => Follows(r, a)
      BY <2>2 DEF Follows
    <3> QED  BY <2>2, <3>2, <3>3
  <2>5. a.fd \in {0, handler[h].fd} /\ a.in \in {0, handler[h].in}
    BY <1>2, <2>4 DEF Ended, Follows
  <2>6. \A e \in Names : /\ <<"source", e>> \in Paths /\ <<"dest", e>> \in Paths
                         /\ <<"source", e>> # p
    BY <1>4 DEF Paths
  <2>7. \A e \in Names : f[<<"source", e>>] = files[<<"source", e>>]
    BY <2>1, <2>6
  <2>8. Sources(f)
    BY <1>5, <2>7, PathsFinite DEF Sources
  <2>9. \A e \in Names : files[<<"dest", e>>] \in {0, f[<<"dest", e>>]}
    BY <1>7, <2>1, <2>6
  <2>10. \A e \in Names : Full(e) => f[<<"dest", e>>] # 0 /\ data[f[<<"dest", e>>]] = Whole(e)
    BY <2>9 DEF Full
  <2>11. Become(h, f, data, a)
    BY <1>7, <2>3
  <2>12. /\ Kept' /\ Apart' /\ Blank' /\ \A e \in Names : Full(e) => Full(e)'
         /\ \A o \in Handlers \ {h} : Works(o)' /\ Secures(o)'
         /\ handler'[h] = a
    <3>1. \A e \in Names : f[<<"source", e>>] # 0 \/ files[<<"source", e>>] = 0
      BY <2>7
    <3> QED  BY <2>1, <2>5, <2>7, <2>8, <2>9, <2>10, <2>11, <3>1, Frame
  <2>13. Works(h)' /\ Secures(h)'
    BY <1>1, <1>2, <2>4, <2>12, OwnFollows
  <2> QED  BY <2>12, <2>13 DEF CalmStep
<1>8. CASE Become(h, files, data, After(handler[h], StepOf(h), FALSE))
  BY <1>1, <1>8, CalmGoes
<1> QED  BY <1>6, <1>7, <1>8

LEMMA CalmNext == ASSUME Shape, Calmly, NEW h \in Handlers, NextEntry(h) PROVE CalmStep
<1>1. Running(h) /\ StepOf(h).kind = "again"
  BY DEF NextEntry, At
<1>2. PICK r, s : /\ r = handler[h] /\ s = StepOf(h) /\ s = r.plan[r.pc] /\ HandlerType(r) /\ r.pc > 0
                  /\ Calm(r.plan) /\ DOMAIN r = Fields /\ r.pc \in 1..Len(r.plan) /\ Len(r.plan) \in Nat
                  /\ r.entry \in 1..Len(Entries) /\ r.entry \in 1..r.request.entries
                  /\ r.request.entries \in 1..Len(Entries)
  BY <1>1, CalmFound
<1>3. \/ Copies(r.plan) /\ r.pc = 7 /\ s.mode = 4
      \/ Moves(r.plan) /\ r.pc = 8 /\ s.mode = 4
      \/ Moves(r.plan) /\ r.pc = 11 /\ s.mode = 1
  BY <1>1, <1>2, CalmKinds
<1>4. Works(h) /\ Secures(h)
  BY DEF Calmly
<1>5. r.fd = 0 /\ r.in = 0 /\ ~r.append
  BY <1>1, <1>2, <1>4 DEF Works
<1>6. /\ Moves(r.plan) /\ r.pc = 8 => \A j \in 1..r.entry : Full(Entries[j])
      /\ Moves(r.plan) /\ r.pc = 11 => \A j \in 1..r.request.entries : Full(Entries[j])
  <2>1. Moves(r.plan) /\ r.pc = 8 => (\A j \in 1..(r.entry - 1) : Full(Entries[j])) /\ Full(Entries[r.entry])
    BY <1>2, <1>4 DEF Secures
  <2>2. \A j \in 1..r.entry : j \in 1..(r.entry - 1) \/ j = r.entry
    BY <1>2, PathsFinite
  <2>3. Moves(r.plan) /\ r.pc = 11 => \A j \in 1..r.request.entries : Full(Entries[j])
    BY <1>2, <1>4 DEF Secures
  <2> QED  BY <2>1, <2>2, <2>3
<1>7. \A j \in 1..Len(Entries) : Entries[j] \in Names
  BY PathsFinite
<1> DEFINE b == [r EXCEPT !.entry = r.entry + 1, !.pc = r.pc - s.mode]
           c == [r EXCEPT !.entry = 1]
<1>8. \/ r.entry < r.request.entries /\ Become(h, files, data, b)
      \/ ~(r.entry < r.request.entries) /\ Become(h, files, data, After(c, s, TRUE))
  BY <1>2 DEF NextEntry
<1>9. CASE r.entry < r.request.entries /\ Become(h, files, data, b)
  <2>1. /\ b.pc = r.pc - s.mode /\ b.plan = r.plan /\ b.fd = 0 /\ b.in = 0 /\ ~b.append
        /\ b.entry = r.entry + 1 /\ b.request = r.request
    BY <1>2, <1>5 DEF Fields
  <2> HIDE DEF b
  <2>2. /\ Kept' /\ Apart' /\ Blank' /\ \A e \in Names : Full(e) => Full(e)'
        /\ \A o \in Handlers \ {h} : Works(o)' /\ Secures(o)'
        /\ handler'[h] = b
    BY <1>9, <2>1, Still
  <2>3. b.pc > 0 /\ r.plan[b.pc].kind \in {"vacant", "remove"}
    <3>1. CASE Copies(r.plan) /\ r.pc = 7 /\ s.mode = 4
      BY <2>1, <3>1 DEF Copies
    <3>2. CASE Moves(r.plan) /\ r.pc = 8 /\ s.mode = 4
      BY <2>1, <3>2 DEF Moves
    <3>3. CASE Moves(r.plan) /\ r.pc = 11 /\ s.mode = 1
      BY <2>1, <3>3 DEF Moves
    <3> QED  BY <1>3, <3>1, <3>2, <3>3
  <2>4. Works(h)'
    BY <1>2, <2>1, <2>2, <2>3 DEF Works
  <2>5. Secures(h)'
    <3> SUFFICES ASSUME Moves(r.plan) PROVE Secures(h)'
      BY <2>1, <2>2 DEF Secures
    <3>1. (r.pc = 8 /\ b.pc = 4) \/ (r.pc = 11 /\ b.pc = 10)
      BY <1>3, <2>1 DEF Copies, Moves
    <3>2. r.pc = 8 => \A j \in 1..(b.entry - 1) : Full(Entries[j])'
      <4>1. b.entry - 1 = r.entry /\ \A j \in 1..r.entry : j \in 1..Len(Entries)
        BY <1>2, <2>1, PathsFinite
      <4> QED  BY <1>6, <1>7, <2>2, <4>1
    <3>3. r.pc = 11 => \A j \in 1..b.request.entries : Full(Entries[j])'
      <4>1. \A j \in 1..r.request.entries : j \in 1..Len(Entries)
        BY <1>2, PathsFinite
      <4> QED  BY <1>6, <1>7, <2>1, <2>2, <4>1
    <3> QED  BY <2>2, <3>1, <3>2, <3>3 DEF Secures
  <2> QED  BY <2>2, <2>4, <2>5 DEF CalmStep
<1>10. CASE ~(r.entry < r.request.entries) /\ Become(h, files, data, After(c, s, TRUE))
  <2>1. /\ HandlerType(c) /\ c.pc = r.pc /\ c.plan = r.plan /\ c.fd = 0 /\ c.in = 0 /\ ~c.append
        /\ c.entry = 1 /\ c.request = r.request /\ DOMAIN c = Fields
    BY <1>2, <1>5, RecordType DEF Fields
  <2> HIDE DEF c
  <2>2. PICK a : a = After(c, s, TRUE)
    OBVIOUS
  <2>3. Ended(a) \/ (r.pc + 1 \in 1..Len(r.plan) /\ Onward(c, a))
    <3>1. Ended(After(c, s, TRUE)) \/ (c.pc + 1 \in 1..Len(c.plan) /\ Onward(c, After(c, s, TRUE)))
      BY <1>2, <2>1, CalmPasses
    <3> QED  BY <2>1, <2>2, <3>1, Zenon
  <2>4. a.fd = 0 /\ a.in = 0
    BY <2>1, <2>3, OnwardFields DEF Ended
  <2>5. Become(h, files, data, a)
    BY <1>10, <2>2
  <2>6. /\ Kept' /\ Apart' /\ Blank' /\ \A e \in Names : Full(e) => Full(e)'
        /\ \A o \in Handlers \ {h} : Works(o)' /\ Secures(o)'
        /\ handler'[h] = a
    BY <2>4, <2>5, Still
  <2>7. CASE Ended(a)
    <3>1. Works(h)' /\ Secures(h)'
      BY <2>6, <2>7 DEF Works, Secures, Ended
    <3> QED  BY <2>6, <3>1 DEF CalmStep
  <2>8. CASE r.pc + 1 \in 1..Len(r.plan) /\ Onward(c, a)
    <3>1. /\ a.pc = r.pc + 1 /\ a.plan = r.plan /\ a.fd = 0 /\ a.in = 0 /\ ~a.append
          /\ a.entry = 1 /\ a.request = r.request
      BY <2>1, <2>8, OnwardFields
    <3>2. Moves(r.plan) /\ r.pc = 8
      <4>1. ~(Copies(r.plan) /\ r.pc = 7)
        <5> SUFFICES ASSUME Copies(r.plan), r.pc = 7 PROVE FALSE
          OBVIOUS
        <5>1. r.pc + 1 \in 1..7
          BY <2>8 DEF Copies
        <5> QED  BY <5>1
      <4>2. ~(Moves(r.plan) /\ r.pc = 11)
        <5> SUFFICES ASSUME Moves(r.plan), r.pc = 11 PROVE FALSE
          OBVIOUS
        <5>1. r.pc + 1 \in 1..11
          BY <2>8 DEF Moves
        <5> QED  BY <5>1
      <4> QED  BY <1>3, <4>1, <4>2
    <3>3. r.plan[r.pc + 1].kind = "found"
      BY <3>2 DEF Moves
    <3>4. Works(h)'
      BY <1>2, <2>6, <3>1, <3>3 DEF Works
    <3>5. \A j \in 1..r.request.entries : Full(Entries[j])'
      <4>1. \A j \in 1..r.request.entries : j \in 1..r.entry /\ j \in 1..Len(Entries)
        BY <1>2, <1>10, PathsFinite
      <4> QED  BY <1>6, <1>7, <2>6, <3>2, <4>1
    <3>6. Secures(h)'
      BY <2>6, <3>1, <3>2, <3>5 DEF Secures
    <3> QED  BY <2>6, <3>4, <3>6 DEF CalmStep
  <2> QED  BY <2>3, <2>7, <2>8
<1> QED  BY <1>8, <1>9, <1>10

LEMMA CalmBegin ==
    ASSUME Shape, Calmly, NEW h \in Handlers, NEW q \in Requests, Kind(q) = "tree", Gentle(q), Begin(h, q)
    PROVE  CalmStep
<1> DEFINE with == {handler[x].request : x \in {x \in Handlers : Running(x)}}
           r == [Idle EXCEPT !.request = q, !.plan = Plans[q], !.pc = 1, !.with = with]
<1>1. /\ files' = files /\ data' = data
      /\ handler' = [o \in Handlers |-> IF o = h THEN r
                                        ELSE IF Running(o) THEN [handler[o] EXCEPT !.with = @ \cup {q}]
                                        ELSE handler[o]]
      /\ ~Running(h)
  BY DEF Begin
<1>2. /\ r.plan = Plans[q] /\ r.pc = 1 /\ r.entry = 1 /\ r.fd = 0 /\ r.in = 0 /\ ~r.append
  BY DEF Idle
<1> HIDE DEF r
<1>3. Calm(Plans[q]) /\ Len(Plans[q]) \in Nat /\ 1 \in 1..Len(Plans[q])
  BY CalmPlans, PlansSound DEF SoundPlan
<1>4. Plans[q][1].kind # "put" /\ (Plans[q][1].kind = "open" => ~Copies(Plans[q]) /\ ~Moves(Plans[q]))
  BY <1>3, CalmKinds DEF Copies, Moves
<1>5. handler'[h] = r
  BY <1>1
<1>6. \A o \in Handlers \ {h} : /\ handler'[o].pc = handler[o].pc /\ handler'[o].plan = handler[o].plan
                                /\ handler'[o].fd = handler[o].fd /\ handler'[o].in = handler[o].in
                                /\ handler'[o].append = handler[o].append /\ handler'[o].entry = handler[o].entry
                                /\ handler'[o].request = handler[o].request /\ handler'[o].read = handler[o].read
  <2> SUFFICES ASSUME NEW o \in Handlers \ {h}
               PROVE  /\ handler'[o].pc = handler[o].pc /\ handler'[o].plan = handler[o].plan
                      /\ handler'[o].fd = handler[o].fd /\ handler'[o].in = handler[o].in
                      /\ handler'[o].append = handler[o].append /\ handler'[o].entry = handler[o].entry
                      /\ handler'[o].request = handler[o].request /\ handler'[o].read = handler[o].read
    OBVIOUS
  <2>1. DOMAIN handler[o] = Fields
    BY DEF Shape, HandlerType
  <2>2. handler'[o] \in {handler[o], [handler[o] EXCEPT !.with = @ \cup {q}]}
    BY <1>1
  <2> QED  BY <2>1, <2>2 DEF Fields
<1>7. handler[h].fd = 0 /\ handler[h].in = 0
  BY <1>1 DEF Calmly, Works, Running, Shape, HandlerType
<1>8. \A o \in Handlers : handler'[o].fd = handler[o].fd /\ handler'[o].in = handler[o].in
  BY <1>2, <1>5, <1>6, <1>7
<1>9. Kept' /\ \A e \in Names : Full(e) => Full(e)'
  BY <1>1 DEF Calmly, Kept, Full
<1>10. Apart'
  BY <1>1, <1>8 DEF Calmly, Apart
<1>11. Blank'
  <2>1. Busy' = Busy
    BY <1>1, <1>8 DEF Busy
  <2> QED  BY <1>1, <2>1 DEF Calmly, Blank
<1>12. Works(h)' /\ Secures(h)'
  <2>1. Works(h)'
    BY <1>2, <1>3, <1>4, <1>5 DEF Works
  <2>2. Secures(h)'
    BY <1>2, <1>5 DEF Secures
  <2> QED  BY <2>1, <2>2
<1>13. ASSUME NEW o \in Handlers \ {h} PROVE Works(o)' /\ Secures(o)'
  <2>1. Works(o) /\ Secures(o)
    BY DEF Calmly
  <2>2. Works(o)'
    BY <1>1, <1>6, <2>1 DEF Works
  <2>3. Secures(o)'
    BY <1>1, <1>6, <2>1 DEF Secures, Full
  <2> QED  BY <2>2, <2>3
<1> QED  BY <1>9, <1>10, <1>11, <1>12, <1>13 DEF CalmStep

LEMMA CalmCrash == ASSUME Shape, Calmly, Crash PROVE CalmStep
<1>1. /\ files' = files /\ handler' = [h \in Handlers |-> Idle]
      /\ data' = [i \in Inodes |-> IF i \in Range(files) THEN data[i] ELSE <<>>]
  BY DEF Crash
<1>2. \A h \in Handlers : handler'[h] = Idle /\ Idle.pc = 0 /\ Idle.fd = 0 /\ Idle.in = 0
  BY <1>1 DEF Idle
<1>3. \A p \in Paths : files[p] # 0 => data'[files[p]] = data[files[p]]
  BY <1>1 DEF Shape, Range
<1>4. \A e \in Names : <<"source", e>> \in Paths /\ <<"dest", e>> \in Paths
  BY DEF Paths
<1>5. \A e \in Names : Full(e) => Full(e)'
  BY <1>1, <1>3, <1>4 DEF Full
<1>6. Kept'
  <2> SUFFICES ASSUME NEW i \in 1..Len(Entries)
               PROVE  /\ files'[<<"source", Entries[i]>>] # 0 => data'[i] = Whole(Entries[i])
                      /\ files'[<<"source", Entries[i]>>] = 0 => Full(Entries[i])'
    BY DEF Kept
  <2>1. /\ files[<<"source", Entries[i]>>] # 0 => data[i] = Whole(Entries[i])
        /\ files[<<"source", Entries[i]>>] = 0 => Full(Entries[i])
    BY DEF Calmly, Kept
  <2>2. Entries[i] \in Names /\ files[<<"source", Entries[i]>>] \in {0, i}
    BY PathsFinite DEF Shape, Sources
  <2>3. files[<<"source", Entries[i]>>] # 0 => data'[i] = data[i]
    BY <1>3, <1>4, <2>2
  <2> QED  BY <1>1, <1>5, <2>1, <2>2, <2>3
<1>7. Apart' /\ \A h \in Handlers : Works(h)' /\ Secures(h)'
  BY <1>2 DEF Apart, Works, Secures
<1>8. Blank'
  <2> SUFFICES ASSUME NEW i \in Inodes, i \notin Busy' PROVE data'[i] = <<>>
    BY DEF Blank
  <2>1. i \notin Range(files)
    BY <1>1 DEF Busy
  <2> QED  BY <1>1, <2>1
<1> QED  BY <1>6, <1>7, <1>8 DEF CalmStep

LEMMA InitCalm == Init /\ past.kind = "tree" => Calmly
<1> SUFFICES ASSUME Init, past.kind = "tree" PROVE Calmly
  OBVIOUS
<1>1. PICK there \in SUBSET Names, left \in {"v0", "v1"} \X (0..(Size - 1)), parted \in BOOLEAN :
        /\ files = [p \in Paths |-> IF p \in Named("tree", there, parted) THEN Initially(p) ELSE 0]
        /\ data = [i \in Inodes |->
               CASE \E p \in Paths : files[p] = i /\ p[1] = "source" -> Whole((CHOOSE p \in Paths : files[p] = i)[2])
                 [] \E p \in Paths : files[p] = i /\ p[1] = "dest" -> Whole("old")
                 [] \E p \in Paths : files[p] = i /\ p[1] = "part" -> Part(left[1], left[2])
                 [] i \notin Range(files) -> <<>>]
  BY SMT DEF Init
<1>2. Shape
  BY InitShape
<1>3. \A h \in Handlers : handler[h] = Idle /\ Idle.pc = 0 /\ Idle.fd = 0 /\ Idle.in = 0
  BY DEF Init, Idle
<1>4. Apart /\ \A h \in Handlers : Works(h) /\ Secures(h)
  BY <1>3 DEF Apart, Works, Secures
<1>5. Blank
  BY <1>1 DEF Blank, Busy
<1>6. ASSUME NEW i \in 1..Len(Entries) 
      PROVE  files[<<"source", Entries[i]>>] = i /\ data[i] = Whole(Entries[i])
  <2>1. Entries[i] \in Names /\ i \in Inodes /\ <<"source", Entries[i]>> \in Paths /\ Len(Entries) \in Nat
    BY PathsFinite DEF Paths
  <2>2. <<"source", Entries[i]>> \in Named("tree", there, parted)
    BY <2>1 DEF Named
  <2>3. /\ \A j \in 1..Len(Entries) : (CHOOSE k \in DOMAIN Entries : Entries[k] = Entries[j]) = j
    BY EntriesAssumption
  <2>4. files[<<"source", Entries[i]>>] = i
    BY <1>1, <2>1, <2>2, <2>3 DEF Initially
  <2>5. \A p \in Paths : files[p] = i => p = <<"source", Entries[i]>>
    <3> SUFFICES ASSUME NEW p \in Paths, files[p] = i PROVE p = <<"source", Entries[i]>>
      OBVIOUS
    <3>1. p \in Named("tree", there, parted) /\ Initially(p) = i
      BY <1>1, <2>1, PathsFinite
    <3>2. \/ \E j \in 1..Len(Entries) : p = <<"source", Entries[j]>> \/ p = <<"dest", Entries[j]>>
          \/ p = <<"part", Entries[1]>>
      <4>1. \/ \E e \in Names : p = <<"source", e>> \/ p = <<"dest", e>>
            \/ p = <<"part", Entries[1]>>
        BY <3>1 DEF Named
      <4> QED  BY <4>1, PathsFinite
    <3>3. ASSUME NEW j \in 1..Len(Entries), p = <<"source", Entries[j]>> PROVE j = i
      BY <2>3, <3>1, <3>3 DEF Initially
    <3>4. ASSUME NEW j \in 1..Len(Entries), p = <<"dest", Entries[j]>> PROVE FALSE
      <4>1. Initially(p) = Len(Entries) + j
        BY <2>3, <3>4 DEF Initially
      <4> QED  BY <2>1, <3>1, <4>1
    <3>5. p # <<"part", Entries[1]>>
      <4>1. p = <<"part", Entries[1]>> => Initially(p) = 2 * Len(Entries) + 1
        BY DEF Initially
      <4> QED  BY <2>1, <3>1, <4>1
    <3> QED  BY <3>2, <3>3, <3>4, <3>5
  <2>6. PICK c : c = CHOOSE p \in Paths : files[p] = i
    OBVIOUS
  <2>7. c \in Paths /\ files[c] = i
    BY <2>1, <2>4, <2>6
  <2>8. c = <<"source", Entries[i]>> /\ c[1] = "source" /\ c[2] = Entries[i]
    BY <2>5, <2>7
  <2>9. data[i] = Whole(c[2])
    <3>1. \E p \in Paths : files[p] = i /\ p[1] = "source"
      BY <2>7, <2>8
    <3>2. ~(\E p \in Paths : files[p] = i /\ p[1] = "dest") /\ ~(\E p \in Paths : files[p] = i /\ p[1] = "part")
      BY <2>5
    <3>3. i \in Range(files)
      BY <1>1, <2>7 DEF Range
    <3>4. data[i] = CASE \E p \in Paths : files[p] = i /\ p[1] = "source" -> Whole(c[2])
                      [] \E p \in Paths : files[p] = i /\ p[1] = "dest" -> Whole("old")
                      [] \E p \in Paths : files[p] = i /\ p[1] = "part" -> Part(left[1], left[2])
                      [] i \notin Range(files) -> <<>>
      BY <1>1, <2>1, <2>6, Zenon
    <3> QED  BY <3>1, <3>2, <3>3, <3>4
  <2> QED  BY <2>4, <2>8, <2>9
<1>7. Kept
  BY <1>6, PathsFinite DEF Kept
<1> QED  BY <1>4, <1>5, <1>7 DEF Calmly

LEMMA CalmSteps == ASSUME Shape, Calmly, NEW h \in Handlers, HandlerStep(h) PROVE CalmStep
BY CalmLook, CalmInput, CalmOpen, CalmPut, CalmHash, CalmRemove, CalmRename, CalmLink, CalmOther, CalmLocal, CalmNext
   DEF HandlerStep

LEMMA SafeStep == Shape /\ Safe /\ [Next]_vars => Safe'
<1> SUFFICES ASSUME Shape, Safe, [Next]_vars, past'.kind = "tree", past'.gentle PROVE CalmStep
  BY DEF Safe, CalmStep
<1>1. past.kind = "tree" /\ past.gentle => Calmly
  BY DEF Safe, Calmly
<1>2. ASSUME NEW h \in Handlers, NEW q \in Requests, Begin(h, q) PROVE CalmStep
  <2>1. past.kind = "tree" /\ past.gentle /\ Gentle(q) /\ Kind(q) = "tree"
    <3>1. PICK n, g, s : past' = [past EXCEPT !.requests = n, !.gentle = g, !.steady = s]
                         /\ (g <=> past.gentle /\ Gentle(q)) /\ Kind(q) = past.kind
      <4> DEFINE g == past.gentle /\ Gentle(q)
                 s == past.steady /\ \A x \in Handlers : Running(x) => ~Disturbs(q, handler[x].request)
      <4>1. past' = [past EXCEPT !.requests = past.requests + 1, !.gentle = g, !.steady = s] /\ Kind(q) = past.kind
        BY <1>2 DEF Begin
      <4>2. g <=> past.gentle /\ Gentle(q)
        OBVIOUS
      <4> HIDE DEF g, s
      <4> QED  BY <4>1, <4>2, Zenon
    <3>2. past \in PastType
      BY DEF Shape
    <3>3. past'.kind = past.kind /\ past'.gentle = g
      BY <3>1, <3>2 DEF PastType
    <3>4. g
      BY <3>3
    <3>5. past.gentle /\ Gentle(q)
      BY <3>1, <3>4, Zenon
    <3> QED  BY <3>1, <3>3, <3>5
  <2> QED  BY <1>1, <1>2, <2>1, CalmBegin
<1>3. ASSUME past' = past \/ \E n : past' = [past EXCEPT !.failures = n] PROVE past.kind = "tree" /\ past.gentle
  BY <1>3 DEF Shape, PastType
<1>4. ASSUME NEW h \in Handlers, HandlerStep(h) PROVE CalmStep
  <2>1. past' = past \/ \E n : past' = [past EXCEPT !.failures = n]
    <3>1. ASSUME NEW x, Goes(h, x) PROVE past' = past
      BY <3>1 DEF Goes
    <3>2. Fails(h) => \E n : past' = [past EXCEPT !.failures = n]
      BY Zenon DEF Fails
    <3> QED  BY <1>4, <3>1, <3>2 DEF HandlerStep, Look, OpenInput, OpenOutput, PutBlock, CutFile, CheckHash, RemoveFile,
                 RenameFile, LinkFile, Respond, TryAgain, LocalStep, NextEntry
  <2> QED  BY <1>1, <1>3, <1>4, <2>1, CalmSteps
<1>5. CASE Crash
  <2>1. past.kind = "tree" /\ past.gentle
    BY <1>5 DEF Crash, Shape, PastType
  <2> QED  BY <1>1, <1>5, <2>1, CalmCrash
<1>6. CASE RemoteChanges
  <2>1. past'.kind = "download"
    BY <1>6 DEF RemoteChanges, Shape, PastType
  <2> QED  BY <2>1
<1>7. CASE UNCHANGED vars
  BY <1>1, <1>7 DEF vars, CalmStep, Calmly, Kept, Apart, Blank, Works, Secures, Full, Busy
<1> QED  BY <1>2, <1>4, <1>5, <1>6, <1>7 DEF Next

\* What is copied or moved is at its source or at its destination in full, at
\* every instant, however copies, moves, creations and links interleave and
\* whatever fails or crashes on the way.
THEOREM NothingLostCorrect == Spec => []NothingLost
<1>1. Init => Safe
  BY InitCalm DEF Safe, Calmly
<1>2. Shape /\ Safe => NothingLost
  <2> SUFFICES ASSUME Shape, Safe, past.kind = "tree", past.gentle, NEW e \in Names
               PROVE  Whole(e) \in {Content(<<"source", e>>), Content(<<"dest", e>>)}
    BY DEF NothingLost
  <2>1. PICK i \in 1..Len(Entries) : e = Entries[i]
    BY PathsFinite
  <2>2. Kept /\ files[<<"source", e>>] \in {0, i}
    BY <2>1 DEF Safe, Shape, Sources
  <2>3. CASE files[<<"source", e>>] = 0
    BY <2>1, <2>2, <2>3 DEF Kept, Full, Content
  <2>4. CASE files[<<"source", e>>] # 0
    BY <2>1, <2>2, <2>4 DEF Kept, Content
  <2> QED  BY <2>3, <2>4
<1> QED  BY <1>1, <1>2, SafeStep, ShapeHolds, PTL DEF Spec

----------------------------------------------------------------------------
(* What was there.  A copy, a creation, a link and an extraction make a    *)
(* file with O_EXCL, or right after its entry was found vacant, and write  *)
(* into what they opened just before; a transfer looks at the destination  *)
(* once, and renames to it at its end.                                     *)

\* The look whether the entry is at the destination.
Asks(s)  == s.kind = "vacant" /\ s.mode = "entry" /\ s.place = "dest"
\* A step that needs the one before it.
Bound(s) == s.kind = "put" \/ (s.kind = "open" /\ s.mode # "excl")
Strict(p) == \A i \in 1..Len(p) : p[i].kind = "open" => p[i].mode = "excl"
Careful(p) ==
    \A i \in 1..Len(p) :
      /\ p[i].kind \in {"found", "local", "vacant", "input", "open", "put", "again", "link"} /\ Leads(p[i])
      /\ p[i].kind = "open" => p[i].place = "dest"
      /\ p[i].kind = "put" => i > 1 /\ p[i - 1].kind = "open"
      /\ p[i].kind = "open" /\ p[i].mode # "excl" => i > 1 /\ Asks(p[i - 1])
      /\ p[i].kind = "input" => ~Bound(p[i + 3])
      /\ p[i].kind = "again" => ~Bound(p[i - p[i].mode])
Transfers(p, l) ==
    /\ l \in 1..Len(p) /\ Asks(p[l]) /\ Leads(p[l])
    /\ \A i \in 1..(l - 1) : p[i].kind \in {"found", "size", "hash"} /\ Leads(p[i])
    /\ \A i \in (l + 1)..Len(p) :
         /\ p[i].kind \in {"remove", "fetch", "open", "put", "retry", "hash", "rename"}
         /\ p[i].kind = "open" => p[i].place # "dest"
         /\ p[i].kind = "rename" => i = Len(p)

\* A transfer has one entry.
LEMMA OneEntry == \A q \in Requests : Kind(q) # "tree" => q.entries = 1
<1> SUFFICES ASSUME NEW q \in Requests, Kind(q) # "tree" PROVE q.entries = 1
  OBVIOUS
<1>1. PICK o, s, tool, a : o = q.overwrite /\ s = q.sha /\ tool = q.tool /\ a = q.action
  OBVIOUS
<1>2. /\ o \in BOOLEAN /\ s \in BOOLEAN /\ tool \in DOMAIN Tools(o, s) /\ a \in DOMAIN Tools(o, s)[tool]
      /\ Plans[q] = Tools(o, s)[tool][a] /\ q.entries \in 1..Len(Entries)
      /\ q.entries > 1 => \E i \in DOMAIN Plans[q] : Plans[q][i].kind = "again"
  BY <1>1, RequestFacts, Zenon
<1>3. tool \in {"download", "upload"}
  BY <1>1 DEF Kind
<1>4. Tools(o, s)["download"] = downloadOperation(o, s) /\ Tools(o, s)["upload"] = uploadOperation(o, s)
  BY <1>2, ToolsSound
<1>5. CASE tool = "download"
  <2>1. a \in DOMAIN downloadOperation(o, s) /\ Plans[q] = downloadOperation(o, s)[a]
    BY <1>2, <1>4, <1>5
  <2>2. SoundPlan(downloadOperation(o, s)[a]) /\ ~Loops(downloadOperation(o, s)[a])
    BY <1>2, <2>1, DownloadPlans
  <2>3. SoundPlan(Plans[q]) /\ ~Loops(Plans[q])
    BY <2>1, <2>2
  <2> QED  BY <1>2, <2>3, PathsFinite DEF SoundPlan, Loops
<1>6. CASE tool = "upload"
  <2>1. a \in DOMAIN uploadOperation(o, s) /\ Plans[q] = uploadOperation(o, s)[a]
    BY <1>2, <1>4, <1>6
  <2>2. SoundPlan(uploadOperation(o, s)[a]) /\ ~Loops(uploadOperation(o, s)[a])
    BY <1>2, <2>1, UploadPlans
  <2>3. SoundPlan(Plans[q]) /\ ~Loops(Plans[q])
    BY <2>1, <2>2
  <2> QED  BY <1>2, <2>3, PathsFinite DEF SoundPlan, Loops
<1> QED  BY <1>3, <1>5, <1>6

\* The steps these plans are made of.
LEMMA KeepingSteps ==
    /\ \A s \in {Found("source"), Found("uploading")} : s.kind = "found" /\ Leads(s)
    /\ LET s == Local IN s.kind = "local" /\ Leads(s)
    /\ LET s == Vacant("dest") IN s.kind = "vacant" /\ Leads(s)
    /\ LET s == Lacks("dest") IN Asks(s) /\ Leads(s)
    /\ LET s == Input("source") IN s.kind = "input" /\ Leads(s)
    /\ LET s == Open("dest", "excl") IN Excl(s) /\ Leads(s)
    /\ LET s == Open("dest", "trunc") IN s.kind = "open" /\ s.mode = "trunc" /\ s.place = "dest" /\ Leads(s)
    /\ \A c : LET s == Put(c) IN s.kind = "put" /\ Leads(s)
    /\ \A k : LET s == Again(k) IN s.kind = "again" /\ s.mode = k /\ Leads(s)
    /\ LET s == Link("dest") IN s.kind = "link" /\ Leads(s)
    /\ LET s == SizeIs("uploading", Size) IN s.kind = "size" /\ Leads(s)
    /\ \A v : LET s == Hash("uploading", v) IN s.kind = "hash" /\ Leads(s)
<1> USE DEF Step, Leads
<1>1. \A s \in {Found("source"), Found("uploading")} : s.kind = "found" /\ Leads(s)
  BY DEF Found
<1>2. /\ LET s == Local IN s.kind = "local" /\ Leads(s)
      /\ LET s == Vacant("dest") IN s.kind = "vacant" /\ Leads(s)
      /\ LET s == Lacks("dest") IN Asks(s) /\ Leads(s)
      /\ LET s == Input("source") IN s.kind = "input" /\ Leads(s)
  BY DEF Local, Vacant, Lacks, Input, Asks
<1>3. /\ LET s == Open("dest", "excl") IN Excl(s) /\ Leads(s)
      /\ LET s == Open("dest", "trunc") IN s.kind = "open" /\ s.mode = "trunc" /\ s.place = "dest" /\ Leads(s)
  BY DEF Open, Excl
<1>4. /\ \A c : LET s == Put(c) IN s.kind = "put" /\ Leads(s)
      /\ \A k : LET s == Again(k) IN s.kind = "again" /\ s.mode = k /\ Leads(s)
      /\ LET s == Link("dest") IN s.kind = "link" /\ Leads(s)
  BY DEF Put, Again, Link
<1>5. /\ LET s == SizeIs("uploading", Size) IN s.kind = "size" /\ Leads(s)
      /\ \A v : LET s == Hash("uploading", v) IN s.kind = "hash" /\ Leads(s)
  BY DEF SizeIs, Hash
<1> QED  BY <1>1, <1>2, <1>3, <1>4, <1>5

\* The copy and the extraction.
LEMMA CopyCareful == Careful(copyPath(FALSE)) /\ Strict(copyPath(FALSE)) /\ Careful(extractTAR(FALSE))
<1>1. ASSUME NEW p, IsCopyPlan(p) PROVE Careful(p) /\ Strict(p)
  <2>1. /\ Len(p) = 7 /\ p[1].kind = "found" /\ p[2].kind = "vacant" /\ Asks(p[3]) /\ p[4].kind = "input"
        /\ Excl(p[5]) /\ p[6].kind = "put" /\ p[7].kind = "again" /\ p[7].mode = 4
        /\ Leads(p[1]) /\ Leads(p[2]) /\ Leads(p[3]) /\ Leads(p[4]) /\ Leads(p[5]) /\ Leads(p[6]) /\ Leads(p[7])
    BY <1>1, KeepingSteps DEF IsCopyPlan
  <2>2. Strict(p)
    BY <2>1 DEF Strict, Excl, Asks
  <2>3. Careful(p)
    <3> SUFFICES ASSUME NEW i \in 1..7
                 PROVE  /\ p[i].kind \in {"found", "local", "vacant", "input", "open", "put", "again", "link"} /\ Leads(p[i])
                        /\ p[i].kind = "open" => p[i].place = "dest"
                        /\ p[i].kind = "put" => i > 1 /\ p[i - 1].kind = "open"
                        /\ p[i].kind = "open" /\ p[i].mode # "excl" => i > 1 /\ Asks(p[i - 1])
                        /\ p[i].kind = "input" => ~Bound(p[i + 3])
                        /\ p[i].kind = "again" => ~Bound(p[i - p[i].mode])
      BY <2>1 DEF Careful
    <3>1. ~Bound(p[7]) /\ ~Bound(p[3])
      BY <2>1 DEF Bound, Asks
    <3>2. p[3].kind = "vacant" /\ p[5].kind = "open" /\ p[5].mode = "excl" /\ p[5].place = "dest"
      BY <2>1 DEF Excl, Asks
    <3> HIDE DEF Leads, Asks, Bound
    <3> QED  BY <2>1, <3>1, <3>2
  <2> QED  BY <2>2, <2>3
<1>2. ASSUME NEW p, IsExtractPlan(p) PROVE Careful(p)
  <2>1. /\ Len(p) = 6 /\ p[1].kind = "found" /\ p[2].kind = "local" /\ Asks(p[3])
        /\ p[4].kind = "open" /\ p[4].place = "dest" /\ p[5].kind = "put" /\ p[6].kind = "again" /\ p[6].mode = 3
        /\ Leads(p[1]) /\ Leads(p[2]) /\ Leads(p[3]) /\ Leads(p[4]) /\ Leads(p[5]) /\ Leads(p[6])
    BY <1>2, KeepingSteps DEF IsExtractPlan
  <2>2. p[3].kind = "vacant" /\ ~Bound(p[3])
    BY <2>1 DEF Bound, Asks
  <2>3. ASSUME NEW i \in 1..6
        PROVE  /\ p[i].kind \in {"found", "local", "vacant", "input", "open", "put", "again", "link"} /\ Leads(p[i])
               /\ p[i].kind = "open" => p[i].place = "dest"
               /\ p[i].kind = "put" => i > 1 /\ p[i - 1].kind = "open"
               /\ p[i].kind = "open" /\ p[i].mode # "excl" => i > 1 /\ Asks(p[i - 1])
               /\ p[i].kind = "input" => ~Bound(p[i + 3])
               /\ p[i].kind = "again" => ~Bound(p[i - p[i].mode])
    BY <2>1, <2>2
  <2> QED  BY <2>1, <2>3 DEF Careful
<1> QED  BY <1>1, <1>2, CopyPlan, ExtractPlan, Zenon

\* A file that is created, and a link that is made.
LEMMA CreateCareful ==
    /\ LET p == <<Open("dest", "excl"), Put("written")>> IN Careful(p) /\ Strict(p)
    /\ LET p == <<Open("dest", "excl")>> IN Careful(p) /\ Strict(p)
    /\ LET p == <<Link("dest")>> IN Careful(p) /\ Strict(p)
<1> DEFINE O == Open("dest", "excl")   P == Put("written")   K == Link("dest")
<1>1. Excl(O) /\ Leads(O) /\ P.kind = "put" /\ Leads(P) /\ K.kind = "link" /\ Leads(K)
  BY KeepingSteps
<1> HIDE DEF O, P, K
<1>2. Careful(<<O, P>>) /\ Strict(<<O, P>>)
  BY <1>1 DEF Careful, Strict, Excl
<1>3. Careful(<<O>>) /\ Strict(<<O>>)
  BY <1>1 DEF Careful, Strict, Excl
<1>4. Careful(<<K>>) /\ Strict(<<K>>)
  BY <1>1 DEF Careful, Strict
<1> QED  BY <1>2, <1>3, <1>4 DEF O, P, K

\* The download looks first, before all else.
LEMMA DownloadTransfers ==
    ASSUME NEW sha \in BOOLEAN, NEW resume \in BOOLEAN
    PROVE  Transfers(Download(FALSE, sha, resume), 1)
<1> DEFINE L == Lacks("dest")   X == Ignoring(RemoveAny("part"))   R == Rename("part")
           A == Otherwise(Fetch, 3)   B == Otherwise(Open("part", "response"), 2)
           C == Then(Ignoring(Put("response")), 2)   D == Retry(3)   E == Hash("part", IF sha THEN "v1" ELSE "none")
           m == <<A, B, C, D, E>>
           After1 == {"remove", "fetch", "open", "put", "retry", "hash"}
<1>1. /\ Asks(L) /\ Leads(L)
      /\ X.kind = "remove" /\ A.kind = "fetch" /\ B.kind = "open" /\ B.place = "part" /\ C.kind = "put"
      /\ D.kind = "retry" /\ E.kind = "hash" /\ R.kind = "rename"
  <2>1. Asks(L) /\ Leads(L)
    BY KeepingSteps
  <2>2. X.kind = "remove" /\ A.kind = "fetch" /\ B.kind = "open" /\ B.place = "part" /\ C.kind = "put"
    BY DEF Ignoring, RemoveAny, Otherwise, Fetch, Open, Then, Put, Step
  <2>3. D.kind = "retry" /\ E.kind = "hash" /\ R.kind = "rename"
    BY DEF Retry, Hash, Rename, Step
  <2> QED  BY <2>1, <2>2, <2>3
<1>2. /\ Unless(FALSE, L) = <<L>> /\ Unless(TRUE, X) = <<>> /\ Unless(FALSE, X) = <<X>>
      /\ When(FALSE, Ignoring(RemoveAny("dest"))) = <<>>
  BY DEF Unless, When
<1>3. Download(FALSE, sha, TRUE) = <<L>> \o <<>> \o m \o <<>> \o <<R>>
  BY <1>2, Zenon DEF Download
<1>4. Download(FALSE, sha, FALSE) = <<L>> \o <<X>> \o m \o <<>> \o <<R>>
  BY <1>2, Zenon DEF Download
<1> HIDE DEF L, X, R, A, B, C, D, E
<1>5. LET p == <<L>> \o <<>> \o m \o <<>> \o <<R>> IN
      Len(p) = 7 /\ p[1] = L /\ p[2] = A /\ p[3] = B /\ p[4] = C /\ p[5] = D /\ p[6] = E /\ p[7] = R
  OBVIOUS
<1>6. LET p == <<L>> \o <<X>> \o m \o <<>> \o <<R>> IN
      Len(p) = 8 /\ p[1] = L /\ p[2] = X /\ p[3] = A /\ p[4] = B /\ p[5] = C /\ p[6] = D /\ p[7] = E /\ p[8] = R
  OBVIOUS
<1> HIDE DEF m
<1>7. Transfers(Download(FALSE, sha, TRUE), 1)
  <2> DEFINE p == Download(FALSE, sha, TRUE)
  <2>1. Len(p) = 7 /\ p[1] = L /\ p[2] = A /\ p[3] = B /\ p[4] = C /\ p[5] = D /\ p[6] = E /\ p[7] = R
    BY <1>3, <1>5
  <2> HIDE DEF p
  <2>2. Transfers(p, 1)
    BY <1>1, <2>1 DEF Transfers
  <2> QED  BY <2>2 DEF p
<1>8. Transfers(Download(FALSE, sha, FALSE), 1)
  <2> DEFINE p == Download(FALSE, sha, FALSE)
  <2>1. Len(p) = 8 /\ p[1] = L /\ p[2] = X /\ p[3] = A /\ p[4] = B /\ p[5] = C /\ p[6] = D /\ p[7] = E /\ p[8] = R
    BY <1>4, <1>6
  <2> HIDE DEF p
  <2>2. Transfers(p, 1)
    BY <1>1, <2>1 DEF Transfers
  <2> QED  BY <2>2 DEF p
<1>9. resume = TRUE \/ resume = FALSE
  OBVIOUS
<1> QED  BY <1>7, <1>8, <1>9, Zenon

\* The upload looks after it has checked what was sent.
LEMMA CompleteTransfers ==
    ASSUME NEW sha \in BOOLEAN
    PROVE  Transfers(uploadOperation(FALSE, sha)["complete"], 4)
<1> DEFINE F == Found("uploading")   S == SizeIs("uploading", Size)   L == Lacks("dest")   R == Rename("uploading")
           H == Hash("uploading", IF sha THEN "sent" ELSE "none")
           p == <<F, S, H>> \o <<L>> \o <<>> \o <<R>>
<1>1. /\ F.kind = "found" /\ Leads(F) /\ S.kind = "size" /\ Leads(S) /\ H.kind = "hash" /\ Leads(H)
      /\ Asks(L) /\ Leads(L) /\ R.kind = "rename"
  <2>1. R.kind = "rename"
    BY DEF Rename, Step
  <2> QED  BY <2>1, KeepingSteps
<1>2. Unless(FALSE, L) = <<L>> /\ When(FALSE, RemoveAny("dest")) = <<>>
  BY DEF Unless, When
<1>3. uploadOperation(FALSE, sha)["complete"] = <<F, S, H>> \o Unless(FALSE, L) \o When(FALSE, RemoveAny("dest")) \o <<R>>
  BY DEF uploadOperation
<1>4. uploadOperation(FALSE, sha)["complete"] = p
  BY <1>2, <1>3, Zenon
<1> HIDE DEF F, S, H, L, R
<1>5. Len(p) = 5 /\ p[1] = F /\ p[2] = S /\ p[3] = H /\ p[4] = L /\ p[5] = R
  OBVIOUS
<1> HIDE DEF p
<1>6. Transfers(p, 4)
  BY <1>1, <1>5 DEF Transfers
<1> QED  BY <1>4, <1>6

\* What the plans are of the requests that KeepsExisting speaks of.
LEMMA KeepingPlans ==
    ASSUME NEW q \in Requests
    PROVE  /\ Makes(q) => Kind(q) = "tree" /\ Careful(Plans[q]) /\ Strict(Plans[q])
           /\ Looks(q) => IF Kind(q) = "tree" THEN Careful(Plans[q]) ELSE \E l : Transfers(Plans[q], l)
<1>1. PICK o, s, tool, a : o = q.overwrite /\ s = q.sha /\ tool = q.tool /\ a = q.action
  OBVIOUS
<1>2. o \in BOOLEAN /\ s \in BOOLEAN /\ tool \in DOMAIN Tools(o, s) /\ a \in DOMAIN Tools(o, s)[tool]
      /\ Plans[q] = Tools(o, s)[tool][a]
  BY <1>1, RequestFacts, Zenon
<1> DEFINE T == Tools(FALSE, s)
<1>3. /\ T["fs_write"] = fsWriteOperation /\ T["fs_manage"] = fsManageOperation(FALSE)
      /\ T["archive"] = archiveOperation(FALSE) /\ T["backup"] = backupOperation(FALSE)
      /\ T["download"] = downloadOperation(FALSE, s) /\ T["upload"] = uploadOperation(FALSE, s)
  BY <1>2, ToolsSound, Zenon
<1> HIDE DEF T
<1>4. ASSUME Makes(q) PROVE Kind(q) = "tree" /\ Careful(Plans[q]) /\ Strict(Plans[q])
  <2>1. o = FALSE /\ a \in {"copy", "create", "symlink", "hardlink"} /\ tool \in {"fs_write", "fs_manage"}
    BY <1>1, <1>2, <1>4 DEF Makes
  <2>2. Plans[q] = T[tool][a] /\ a \in DOMAIN T[tool]
    BY <1>2, <2>1, Zenon DEF T
  <2>3. Kind(q) = "tree"
    BY <1>1, <2>1 DEF Kind
  <2>4. CASE tool = "fs_write"
    <3>1. /\ DOMAIN fsWriteOperation = {"write", "append", "create", "patch", "truncate", "touch", "mkdir"}
          /\ fsWriteOperation["create"] = <<Open("dest", "excl"), Put("written")>>
      BY DEF fsWriteOperation
    <3>2. a = "create"
      BY <1>3, <2>1, <2>2, <2>4, <3>1
    <3>3. Plans[q] = <<Open("dest", "excl"), Put("written")>>
      BY <1>3, <2>2, <2>4, <3>1, <3>2
    <3> QED  BY <2>3, <3>3, CreateCareful, Zenon
  <2>5. CASE tool = "fs_manage"
    <3> DEFINE t == fsManageOperation(FALSE)
    <3>1. /\ DOMAIN t = {"copy", "move", "delete", "delete_tree", "delete_batch", "symlink", "hardlink", "attributes"}
          /\ t["copy"] = copyPath(FALSE) /\ t["symlink"] = <<Open("dest", "excl")>> /\ t["hardlink"] = <<Link("dest")>>
      BY DEF fsManageOperation
    <3> HIDE DEF t
    <3>2. a \in {"copy", "symlink", "hardlink"} /\ Plans[q] = t[a]
      BY <1>3, <2>1, <2>2, <2>5, <3>1 DEF t
    <3>3. Plans[q] = copyPath(FALSE) \/ Plans[q] = <<Open("dest", "excl")>> \/ Plans[q] = <<Link("dest")>>
      BY <3>1, <3>2
    <3> QED  BY <2>3, <3>3, CopyCareful, CreateCareful, Zenon
  <2> QED  BY <2>1, <2>4, <2>5
<1>5. ASSUME Looks(q)
      PROVE  IF Kind(q) = "tree" THEN Careful(Plans[q]) ELSE \E l : Transfers(Plans[q], l)
  <2>1. /\ o = FALSE
        /\ \/ tool = "archive" /\ a = "extract"
           \/ tool = "backup" /\ a = "restore"
           \/ tool = "upload" /\ a = "complete"
           \/ tool = "download"
    <3>1. \A x, y, u, v : <<x, y>> = <<u, v>> => x = u /\ y = v
      OBVIOUS
    <3> QED  BY <1>1, <1>2, <1>5, <3>1 DEF Looks
  <2>2. Plans[q] = T[tool][a] /\ a \in DOMAIN T[tool]
    BY <1>2, <2>1, Zenon DEF T
  <2>3. CASE tool = "archive" /\ a = "extract"
    <3>1. archiveOperation(FALSE)["extract"] = extractTAR(FALSE)
      BY DEF archiveOperation
    <3>2. Plans[q] = extractTAR(FALSE)
      BY <1>3, <2>2, <2>3, <3>1
    <3>3. Kind(q) = "tree"
      BY <1>1, <2>3 DEF Kind
    <3> QED  BY <3>2, <3>3, CopyCareful, Zenon
  <2>4. CASE tool = "backup" /\ a = "restore"
    <3>1. backupOperation(FALSE)["restore"] = extractTAR(FALSE)
      BY DEF backupOperation
    <3>2. Plans[q] = extractTAR(FALSE)
      BY <1>3, <2>2, <2>4, <3>1
    <3>3. Kind(q) = "tree"
      BY <1>1, <2>4 DEF Kind
    <3> QED  BY <3>2, <3>3, CopyCareful, Zenon
  <2>5. CASE tool = "upload" /\ a = "complete"
    <3>1. Kind(q) # "tree"
      BY <1>1, <2>5 DEF Kind
    <3>2. Plans[q] = uploadOperation(FALSE, s)["complete"]
      BY <1>3, <2>2, <2>5
    <3>3. Transfers(Plans[q], 4)
      BY <1>2, <3>2, CompleteTransfers
    <3> QED  BY <3>1, <3>3
  <2>6. CASE tool = "download"
    <3> DEFINE t == downloadOperation(FALSE, s)
    <3>1. Kind(q) # "tree"
      BY <1>1, <2>6 DEF Kind
    <3>2. DOMAIN t = {"start", "restart"}
      BY DEF downloadOperation
    <3>3. t["start"] = Download(FALSE, s, TRUE) /\ t["restart"] = Download(FALSE, s, FALSE)
      BY Zenon DEF downloadOperation
    <3> HIDE DEF t
    <3>4. Plans[q] = t[a] /\ a \in DOMAIN t
      BY <1>3, <2>2, <2>6 DEF t
    <3>5. Plans[q] = Download(FALSE, s, TRUE) \/ Plans[q] = Download(FALSE, s, FALSE)
      BY <3>2, <3>3, <3>4
    <3>6. Transfers(Download(FALSE, s, TRUE), 1) /\ Transfers(Download(FALSE, s, FALSE), 1)
      BY <1>2, DownloadTransfers
    <3>7. Transfers(Plans[q], 1)
      BY <3>5, <3>6, Zenon
    <3> QED  BY <3>1, <3>7
  <2> QED  BY <2>1, <2>3, <2>4, <2>5, <2>6
<1> QED  BY <1>4, <1>5

\* What the step leaves at the destination: all that its handler did not make.
Keeps(h) ==
    \A e \in Names :
      LET i == files[<<"dest", e>>] IN
      (i # 0 /\ i \notin handler[h].made) => files'[<<"dest", e>>] = i /\ data'[i] = data[i]

\* A handler writes into a file it made, and truncates, alone, at a path that
\* is vacant.
Ready(h) ==
    LET r == handler[h]
        s == r.plan[r.pc]
    IN  r.pc > 0 =>
          /\ s.kind = "put" => r.fd \in r.made
          /\ s.kind = "open" /\ s.mode # "excl" => r.with = {} /\ files[<<"dest", Entries[r.entry]>>] = 0
Cautious(h) ==
    /\ Careful(handler[h].plan) /\ Ready(h)
    /\ Strict(handler[h].plan) \/ handler[h].with = {}

\* The record after a step that leads on.
Moved(r, a) == /\ a.pc = r.pc + 1 /\ r.pc + 1 \in 1..Len(r.plan) /\ a.plan = r.plan /\ a.request = r.request
               /\ a.with = r.with /\ a.entry = r.entry /\ a.fd = r.fd /\ a.made = r.made

LEMMA LeadsOn ==
    ASSUME NEW r, HandlerType(r), r.pc > 0, NEW s, s = r.plan[r.pc], Leads(s)
    PROVE  /\ After(r, s, FALSE).pc = 0
           /\ After(r, s, TRUE).pc = 0 \/ Moved(r, After(r, s, TRUE))
<1>1. /\ DOMAIN r = Fields /\ r.pc \in 1..Len(r.plan) /\ Len(r.plan) \in Nat /\ s.next = 1 /\ s.orElse = 0
  BY StepFound DEF HandlerType, Leads
<1>2. After(r, s, FALSE).pc = 0
  <2>1. After(r, s, FALSE) = Answered(s.code)
    BY <1>1 DEF After
  <2> QED  BY <2>1 DEF Answered, Idle
<1>3. After(r, s, TRUE).pc = 0 \/ Moved(r, After(r, s, TRUE))
  <2>1. CASE r.pc + 1 > Len(r.plan)
    <3>1. After(r, s, TRUE) = Answered(IF r.partial \/ FALSE THEN "partial" ELSE "done")
      BY <1>1, <2>1 DEF After
    <3> QED  BY <3>1 DEF Answered, Idle
  <2>2. CASE ~(r.pc + 1 > Len(r.plan))
    <3>1. After(r, s, TRUE) = [r EXCEPT !.pc = r.pc + 1, !.partial = r.partial \/ FALSE]
      BY <1>1, <2>2 DEF After
    <3>2. PICK part : After(r, s, TRUE) = [r EXCEPT !.pc = r.pc + 1, !.partial = part]
      BY <3>1
    <3>3. r.pc + 1 \in 1..Len(r.plan)
      BY <1>1, <2>2
    <3> QED  BY <1>1, <3>2, <3>3 DEF Moved, Fields
  <2> QED  BY <2>1, <2>2
<1> QED  BY <1>2, <1>3

\* What a step does that leaves the files alone.
LEMMA Untouched ==
    ASSUME Shape, NEW h \in Handlers, NEW r, Become(h, files, data, r)
    PROVE  files' = files /\ Keeps(h) /\ handler'[h] = r
<1>1. files' = files /\ handler'[h] = r
  BY DEF Become, Shape
<1>2. ASSUME NEW e \in Names, files[<<"dest", e>>] # 0
      PROVE  data'[files[<<"dest", e>>]] = data[files[<<"dest", e>>]]
  <2>1. <<"dest", e>> \in Paths /\ files \in [Paths -> Inodes \cup {0}]
    BY DEF Paths, Shape
  <2>2. files[<<"dest", e>>] \in Inodes /\ files[<<"dest", e>>] \in Range(files)
    BY <1>2, <2>1 DEF Range
  <2> QED  BY <2>2 DEF Become
<1> QED  BY <1>1, <1>2 DEF Keeps

\* A handler that is careful, at its step.
LEMMA CautiousFound ==
    ASSUME Shape, NEW h \in Handlers, Running(h), Cautious(h)
    PROVE  \E r, s : /\ r = handler[h] /\ s = StepOf(h) /\ s = r.plan[r.pc] /\ HandlerType(r) /\ r.pc > 0
                     /\ DOMAIN r = Fields /\ r.pc \in 1..Len(r.plan) /\ Len(r.plan) \in Nat /\ r.pc \in Nat
                     /\ s.kind \in {"found", "local", "vacant", "input", "open", "put", "again", "link"} /\ Leads(s)
                     /\ s.kind = "open" => s.place = "dest"
                     /\ s.kind = "input" => ~Bound(r.plan[r.pc + 3])
                     /\ s.kind = "again" => ~Bound(r.plan[r.pc - s.mode])
                     /\ s.kind = "put" => r.fd \in r.made
                     /\ s.kind = "open" /\ s.mode # "excl" => files[<<"dest", Entries[r.entry]>>] = 0
                     /\ Entries[r.entry] \in Names
<1>1. HandlerType(handler[h]) /\ handler[h].pc > 0 /\ handler[h].pc \in 1..Len(handler[h].plan)
      /\ Len(handler[h].plan) \in Nat /\ DOMAIN handler[h] = Fields
  BY HandlerFound DEF HandlerType
<1>2. Entries[handler[h].entry] \in Names
  BY <1>1, PathFacts
<1> DEFINE r == handler[h]   s == r.plan[r.pc]
<1>3. Careful(r.plan) /\ Ready(h)
  BY DEF Cautious
<1>4. /\ s.kind \in {"found", "local", "vacant", "input", "open", "put", "again", "link"} /\ Leads(s)
      /\ s.kind = "open" => s.place = "dest"
      /\ s.kind = "input" => ~Bound(r.plan[r.pc + 3])
      /\ s.kind = "again" => ~Bound(r.plan[r.pc - s.mode])
  BY <1>1, <1>3 DEF Careful
<1>5. /\ s.kind = "put" => r.fd \in r.made
      /\ s.kind = "open" /\ s.mode # "excl" => files[<<"dest", Entries[r.entry]>>] = 0
  BY <1>1, <1>3 DEF Ready
<1>6. s = StepOf(h)
  BY DEF StepOf
<1>7. r.pc \in Nat
  BY <1>1
<1> HIDE DEF r, s
<1>8. r = handler[h]
  BY DEF r
<1>9. s = r.plan[r.pc]
  BY DEF s
<1> QED  BY <1>1, <1>2, <1>4, <1>5, <1>6, <1>7, <1>8, <1>9

\* It is ready for the step that follows one that opens nothing.
LEMMA ReadyOn ==
    ASSUME Shape, NEW h \in Handlers, Running(h), Cautious(h), files' = files, NEW a, handler'[h] = a,
           a.pc = 0 \/ Moved(handler[h], a), StepOf(h).kind # "open",
           Asks(StepOf(h)) /\ a.pc # 0 => files[<<"dest", Entries[handler[h].entry]>>] = 0
    PROVE  Ready(h)'
<1>1. CASE a.pc = 0
  BY <1>1 DEF Ready
<1>2. CASE a.pc # 0 /\ Moved(handler[h], a)
  <2> DEFINE r == handler[h]   t == r.plan[r.pc + 1]
  <2>1. /\ r.pc \in 1..Len(r.plan) /\ r.pc + 1 \in 1..Len(r.plan) /\ r.pc \in Nat
        /\ Careful(r.plan) /\ (Strict(r.plan) \/ r.with = {})
    BY <1>2, HandlerFound DEF Moved, Cautious
  <2>2. (r.pc + 1) - 1 = r.pc
    BY <2>1
  <2>3. t.kind # "put"
    <3>1. t.kind = "put" => r.plan[(r.pc + 1) - 1].kind = "open"
      BY <2>1 DEF Careful
    <3> QED  BY <2>2, <3>1 DEF StepOf
  <2>4. t.kind = "open" /\ t.mode # "excl" => Asks(StepOf(h)) /\ r.with = {}
    <3>1. t.kind = "open" /\ t.mode # "excl" => Asks(r.plan[(r.pc + 1) - 1])
      BY <2>1 DEF Careful
    <3>2. t.kind = "open" /\ t.mode # "excl" => ~Strict(r.plan)
      BY <2>1 DEF Strict
    <3> QED  BY <2>1, <2>2, <3>1, <3>2 DEF StepOf
  <2>5. a.plan[a.pc] = t /\ a.entry = r.entry /\ a.with = r.with
    BY <1>2 DEF Moved
  <2> HIDE DEF t, r
  <2>6. a.plan[a.pc].kind # "put"
    BY <2>3, <2>5
  <2>7. a.plan[a.pc].kind = "open" /\ a.plan[a.pc].mode # "excl"
          => a.with = {} /\ files'[<<"dest", Entries[a.entry]>>] = 0
    BY <1>2, <2>4, <2>5 DEF r
  <2> QED  BY <2>6, <2>7 DEF Ready
<1> QED  BY <1>1, <1>2

\* And for a step that needs none before it.
LEMMA ReadyFree ==
    ASSUME NEW h \in Handlers, handler'[h].pc > 0 => ~Bound(handler'[h].plan[handler'[h].pc])
    PROVE  Ready(h)'
BY DEF Ready, Bound

\* What leaves the files alone, and what fails.
LEMMA CautiousGoes ==
    ASSUME Shape, NEW h \in Handlers, Running(h), Cautious(h),
           \/ Become(h, files, data, After(handler[h], StepOf(h), FALSE))
           \/ /\ Become(h, files, data, After(handler[h], StepOf(h), TRUE)) /\ StepOf(h).kind # "open"
              /\ Asks(StepOf(h)) => files[<<"dest", Entries[handler[h].entry]>>] = 0
    PROVE  Ready(h)' /\ Keeps(h)
<1>1. PICK r, s : r = handler[h] /\ s = StepOf(h) /\ s = r.plan[r.pc] /\ HandlerType(r) /\ r.pc > 0 /\ Leads(s)
  BY CautiousFound
<1>2. After(r, s, FALSE).pc = 0 /\ (After(r, s, TRUE).pc = 0 \/ Moved(r, After(r, s, TRUE)))
  BY <1>1, LeadsOn
<1>3. CASE Become(h, files, data, After(r, s, FALSE))
  <2>1. files' = files /\ Keeps(h) /\ handler'[h] = After(r, s, FALSE)
    BY <1>3, Untouched
  <2>2. handler'[h].pc = 0
    BY <1>2, <2>1, Zenon
  <2>3. ~(handler'[h].pc > 0)
    BY <2>2
  <2>4. Ready(h)'
    BY <2>3, ReadyFree
  <2> QED  BY <2>1, <2>4
<1>4. CASE /\ Become(h, files, data, After(r, s, TRUE)) /\ s.kind # "open"
           /\ Asks(s) => files[<<"dest", Entries[r.entry]>>] = 0
  <2>1. PICK a : a = After(r, s, TRUE)
    OBVIOUS
  <2>2. files' = files /\ Keeps(h) /\ handler'[h] = a
    BY <1>4, <2>1, Untouched
  <2>3. a.pc = 0 \/ Moved(r, a)
    BY <1>2, <2>1, Zenon
  <2> QED  BY <1>1, <1>4, <2>2, <2>3, ReadyOn
<1> QED  BY <1>1, <1>3, <1>4

\* The operations.
LEMMA CautiousLook ==
    ASSUME Shape, NEW h \in Handlers, Cautious(h), Look(h)
    PROVE  Ready(h)' /\ Keeps(h)
<1>1. Running(h)
  BY DEF Look, At
<1>2. PICK r, s : /\ r = handler[h] /\ s = StepOf(h) /\ s = r.plan[r.pc] /\ HandlerType(r) /\ r.pc > 0 /\ Leads(s)
                  /\ s.kind \in {"found", "local", "vacant", "input", "open", "put", "again", "link"}
  BY <1>1, CautiousFound
<1>4. s.kind \in {"found", "vacant"}
  BY <1>2 DEF Look, At
<1>5. \/ Become(h, files, data, After(r, s, FALSE))
      \/ /\ Become(h, files, data, After(r, s, TRUE))
         /\ Asks(s) => files[PathOf(h)] = 0
  <2>1. CASE At(h, "found") /\ Goes(h, Present(h, StepOf(h).place) # {})
    <3>1. \E ok \in BOOLEAN : Goes(h, ok)
      BY <2>1
    <3>2. Become(h, files, data, After(r, s, FALSE)) \/ Become(h, files, data, After(r, s, TRUE))
      BY <1>2, <3>1, Zenon DEF Goes
    <3>3. ~Asks(s)
      BY <1>2, <2>1 DEF At, Asks
    <3> QED  BY <3>2, <3>3
  <2>2. CASE At(h, "vacant") /\ Goes(h, IF StepOf(h).mode = "all" THEN Present(h, StepOf(h).place) = {}
                                        ELSE files[PathOf(h)] = 0)
    <3>1. CASE s.mode = "all"
      <4>1. \E ok \in BOOLEAN : Goes(h, ok)
        BY <1>2, <2>2, <3>1
      <4>2. Become(h, files, data, After(r, s, FALSE)) \/ Become(h, files, data, After(r, s, TRUE))
        BY <1>2, <4>1, Zenon DEF Goes
      <4>3. ~Asks(s)
        BY <3>1 DEF Asks
      <4> QED  BY <4>2, <4>3
    <3>2. CASE s.mode # "all"
      <4>1. Goes(h, files[PathOf(h)] = 0)
        BY <1>2, <2>2, <3>2
      <4>2. CASE files[PathOf(h)] = 0
        <5>1. \E ok \in BOOLEAN : Goes(h, ok)
          BY <4>1
        <5>2. Become(h, files, data, After(r, s, FALSE)) \/ Become(h, files, data, After(r, s, TRUE))
          BY <1>2, <5>1, Zenon DEF Goes
        <5> QED  BY <4>2, <5>2
      <4>3. CASE files[PathOf(h)] # 0
        <5>1. Goes(h, FALSE)
          <6>1. (files[PathOf(h)] = 0) = FALSE
            BY <4>3
          <6> QED  BY <4>1, <6>1, Zenon
        <5> QED  BY <1>2, <5>1 DEF Goes
      <4> QED  BY <4>2, <4>3
    <3> QED  BY <3>1, <3>2
  <2> QED  BY <1>2, <1>4, <2>1, <2>2 DEF Look, At
<1>6. Asks(s) /\ files[PathOf(h)] = 0 => files[<<"dest", Entries[r.entry]>>] = 0
  BY <1>2 DEF Asks, PathOf
<1> QED  BY <1>1, <1>2, <1>4, <1>5, <1>6, CautiousGoes

LEMMA CautiousLocal ==
    ASSUME Shape, NEW h \in Handlers, Cautious(h), LocalStep(h)
    PROVE  Ready(h)' /\ Keeps(h)
<1>1. Running(h) /\ StepOf(h).kind = "local" /\ ~Asks(StepOf(h))
  BY DEF LocalStep, At, Asks
<1>2. \/ Become(h, files, data, After(handler[h], StepOf(h), FALSE))
      \/ Become(h, files, data, After(handler[h], StepOf(h), TRUE))
  BY Zenon DEF LocalStep, Goes, Fails
<1> QED  BY <1>1, <1>2, CautiousGoes

LEMMA CautiousInput ==
    ASSUME Shape, NEW h \in Handlers, Cautious(h), OpenInput(h)
    PROVE  Ready(h)' /\ Keeps(h)
<1>1. Running(h)
  BY DEF OpenInput, At
<1>2. PICK r, s : /\ r = handler[h] /\ s = StepOf(h) /\ s = r.plan[r.pc] /\ HandlerType(r) /\ r.pc > 0 /\ Leads(s)
                  /\ DOMAIN r = Fields
                  /\ s.kind = "input" => ~Bound(r.plan[r.pc + 3])
  BY <1>1, CautiousFound
<1>3. s.kind = "input" /\ ~Asks(s)
  BY <1>2 DEF OpenInput, At, Asks
<1> DEFINE inode == files[PathOf(h)]
           b == [r EXCEPT !.in = inode]
<1>4. \/ inode # 0 /\ Become(h, files, data, After(b, s, TRUE))
      \/ Become(h, files, data, After(r, s, FALSE))
      \/ Become(h, files, data, [r EXCEPT !.pc = @ + 3])
  BY <1>2 DEF OpenInput, Goes
<1>5. CASE inode # 0 /\ Become(h, files, data, After(b, s, TRUE))
  <2>1. s.place = "source"
    BY <1>1, <1>2, <1>3, HandlerFound DEF SoundStep
  <2>2. inode \in 0..Len(Entries)
    <3>1. r.entry \in 1..Len(Entries)
      BY <1>2, PathFacts
    <3>2. inode \in {0, r.entry}
      BY <1>2, <2>1, <3>1 DEF Shape, Sources, PathOf
    <3> QED  BY <3>1, <3>2, PathsFinite
  <2> HIDE DEF inode
  <2>3. HandlerType(b) /\ b.pc = r.pc /\ b.plan = r.plan /\ b.fd = r.fd /\ b.made = r.made
        /\ b.entry = r.entry /\ b.with = r.with /\ b.request = r.request
    BY <1>2, <2>2, RecordType DEF Fields
  <2> HIDE DEF b
  <2>4. b.pc > 0 /\ s = b.plan[b.pc]
    BY <1>2, <2>3
  <2>5. After(b, s, TRUE).pc = 0 \/ Moved(b, After(b, s, TRUE))
    BY <1>2, <2>3, <2>4, LeadsOn
  <2>6. PICK a : a = After(b, s, TRUE)
    OBVIOUS
  <2>7. a.pc = 0 \/ Moved(b, a)
    BY <2>5, <2>6, Zenon
  <2>8. a.pc = 0 \/ Moved(r, a)
    BY <2>3, <2>7 DEF Moved
  <2>9. files' = files /\ Keeps(h) /\ handler'[h] = a
    BY <1>5, <2>6, Untouched
  <2> QED  BY <1>1, <1>2, <1>3, <2>8, <2>9, ReadyOn
<1>6. CASE Become(h, files, data, After(r, s, FALSE))
  BY <1>1, <1>2, <1>6, CautiousGoes
<1>7. CASE Become(h, files, data, [r EXCEPT !.pc = @ + 3])
  <2>1. Keeps(h) /\ handler'[h] = [r EXCEPT !.pc = @ + 3]
    BY <1>7, Untouched
  <2>2. handler'[h].pc = r.pc + 3 /\ handler'[h].plan = r.plan
    BY <1>2, <2>1 DEF Fields
  <2>3. ~Bound(handler'[h].plan[handler'[h].pc])
    BY <1>2, <1>3, <2>2
  <2> QED  BY <2>1, <2>3, ReadyFree
<1> QED  BY <1>4, <1>5, <1>6, <1>7

\* What follows a step that opens nothing and does not look.
LEMMA FreeOn ==
    ASSUME NEW p, Careful(p), Len(p) \in Nat, NEW i \in 1..Len(p), i + 1 \in 1..Len(p),
           p[i].kind # "open", ~Asks(p[i])
    PROVE  ~Bound(p[i + 1])
<1>1. (i + 1) - 1 = i
  OBVIOUS
<1>2. /\ p[i + 1].kind = "put" => p[(i + 1) - 1].kind = "open"
      /\ p[i + 1].kind = "open" /\ p[i + 1].mode # "excl" => Asks(p[(i + 1) - 1])
  BY DEF Careful
<1> QED  BY <1>1, <1>2 DEF Bound

LEMMA CautiousNext ==
    ASSUME Shape, NEW h \in Handlers, Cautious(h), NextEntry(h)
    PROVE  Ready(h)' /\ Keeps(h)
<1>1. Running(h)
  BY DEF NextEntry, At
<1>2. PICK r, s : /\ r = handler[h] /\ s = StepOf(h) /\ s = r.plan[r.pc] /\ HandlerType(r) /\ r.pc > 0 /\ Leads(s)
                  /\ DOMAIN r = Fields
                  /\ s.kind = "again" => ~Bound(r.plan[r.pc - s.mode])
                  /\ r.pc \in 1..Len(r.plan) /\ Len(r.plan) \in Nat
  BY <1>1, CautiousFound
<1>3. s.kind = "again"
  BY <1>2 DEF NextEntry, At
<1> DEFINE b == [r EXCEPT !.entry = 1]
<1>4. \/ Become(h, files, data, [r EXCEPT !.entry = @ + 1, !.pc = @ - s.mode])
      \/ Become(h, files, data, After(b, s, TRUE))
  BY <1>2 DEF NextEntry
<1>5. CASE Become(h, files, data, [r EXCEPT !.entry = @ + 1, !.pc = @ - s.mode])
  <2>1. Keeps(h) /\ handler'[h] = [r EXCEPT !.entry = @ + 1, !.pc = @ - s.mode]
    BY <1>5, Untouched
  <2>2. handler'[h].pc = r.pc - s.mode /\ handler'[h].plan = r.plan
    BY <1>2, <2>1 DEF Fields
  <2>3. ~Bound(handler'[h].plan[handler'[h].pc])
    BY <1>2, <1>3, <2>2
  <2> QED  BY <2>1, <2>3, ReadyFree
<1>6. CASE Become(h, files, data, After(b, s, TRUE))
  <2>1. HandlerType(b) /\ b.pc = r.pc /\ b.plan = r.plan
    BY <1>2, RecordType DEF Fields
  <2> HIDE DEF b
  <2>2. b.pc > 0 /\ s = b.plan[b.pc]
    BY <1>2, <2>1
  <2>3. After(b, s, TRUE).pc = 0 \/ Moved(b, After(b, s, TRUE))
    BY <1>2, <2>1, <2>2, LeadsOn
  <2>4. PICK a : a = After(b, s, TRUE)
    OBVIOUS
  <2>5. a.pc = 0 \/ (a.pc = r.pc + 1 /\ a.plan = r.plan /\ r.pc + 1 \in 1..Len(r.plan))
    <3>1. a.pc = 0 \/ Moved(b, a)
      BY <2>3, <2>4, Zenon
    <3> QED  BY <2>1, <3>1 DEF Moved
  <2>6. Keeps(h) /\ handler'[h] = a
    BY <1>6, <2>4, Untouched
  <2>7. a.pc > 0 => ~Bound(a.plan[a.pc])
    <3> SUFFICES ASSUME a.pc # 0 PROVE ~Bound(r.plan[r.pc + 1])
      BY <2>5
    <3>1. r.pc + 1 \in 1..Len(r.plan)
      BY <2>5
    <3> QED  BY <1>2, <1>3, <3>1, FreeOn DEF Asks, Cautious
  <2> QED  BY <2>6, <2>7, ReadyFree
<1> QED  BY <1>4, <1>5, <1>6

LEMMA CautiousOpen ==
    ASSUME Shape, NEW h \in Handlers, Cautious(h), OpenOutput(h)
    PROVE  Ready(h)' /\ Keeps(h)
<1>1. Running(h) /\ StepOf(h).kind = "open"
  BY DEF OpenOutput, At
<1>2. PICK r, s : /\ r = handler[h] /\ s = StepOf(h) /\ s = r.plan[r.pc] /\ HandlerType(r) /\ r.pc > 0 /\ Leads(s)
                  /\ DOMAIN r = Fields
                  /\ s.kind = "open" => s.place = "dest"
                  /\ s.kind = "open" /\ s.mode # "excl" => files[<<"dest", Entries[r.entry]>>] = 0
                  /\ r.pc \in 1..Len(r.plan) /\ Len(r.plan) \in Nat
  BY <1>1, CautiousFound
<1> DEFINE P     == PathOf(h)
           there == files[P]
           inode == IF there = 0 THEN Fresh ELSE there
           cut   == s.mode = "trunc" \/ (s.mode = "response" /\ ~handler[h].append)
           b     == [handler[h] EXCEPT !.fd = inode, !.read = 0, !.made = IF there = 0 THEN @ \cup {inode} ELSE @,
                                       !.append = @ \/ s.mode = "append"]
           f     == [files EXCEPT ![P] = inode]
           d     == [data EXCEPT ![inode] = IF cut THEN <<>> ELSE @]
<1>3. \/ Become(h, files, data, After(handler[h], StepOf(h), FALSE))
      \/ ~(s.mode = "excl" /\ there # 0) /\ Become(h, f, d, After(b, s, TRUE))
  BY <1>2 DEF OpenOutput, Goes, Fails
<1>4. P = <<"dest", Entries[r.entry]>>
  BY <1>1, <1>2 DEF PathOf
<1>5. CASE ~(s.mode = "excl" /\ there # 0) /\ Become(h, f, d, After(b, s, TRUE))
  <2>1. there = 0
    BY <1>1, <1>2, <1>4, <1>5
  <2>2. /\ P \in Paths /\ P[1] # "source" /\ files \in [Paths -> Inodes \cup {0}] /\ DOMAIN data = Inodes
    BY <1>1, PathFound DEF Shape
  <2>3. Fresh \in Inodes /\ Fresh \notin Busy
    <3>1. \A o \in Handlers : handler[o].in \in 0..Len(Entries)
      BY DEF Shape, HandlerType
    <3> QED  BY <2>1, <2>2, <3>1, FreshFree DEF Shape
  <2>4. inode = Fresh
    BY <2>1
  <2>5. f = [files EXCEPT ![P] = Fresh] /\ d = [data EXCEPT ![Fresh] = IF cut THEN <<>> ELSE @]
    BY <2>4
  <2>6. /\ HandlerType(b) /\ b.pc = r.pc /\ b.plan = r.plan /\ b.fd = Fresh /\ b.made = r.made \cup {Fresh}
    <3> DEFINE made == r.made \cup {Fresh}   append == r.append \/ s.mode = "append"
    <3>1. b = [r EXCEPT !.fd = Fresh, !.read = 0, !.made = made, !.append = append]
      BY <1>2, <2>1
    <3>2. b.pc = r.pc /\ b.plan = r.plan /\ b.fd = Fresh /\ b.made = made
      <4> HIDE DEF b, made, append
      <4> QED  BY <1>2, <3>1 DEF Fields
    <3>3. HandlerType(b)
      <4> HIDE DEF b, made, append
      <4> QED  BY <1>2, <2>3, <3>1, RecordType
    <3> QED  BY <3>2, <3>3
  <2>7. PICK a : a = After(b, s, TRUE)
    OBVIOUS
  <2> HIDE DEF b, f, d, inode, there, cut, P
  <2>8. a.pc = 0 \/ Moved(b, a)
    <3>1. b.pc > 0 /\ s = b.plan[b.pc]
      BY <1>2, <2>6
    <3>2. After(b, s, TRUE).pc = 0 \/ Moved(b, After(b, s, TRUE))
      BY <1>2, <2>6, <3>1, LeadsOn
    <3> QED  BY <2>7, <3>2, Zenon
  <2>9. /\ files' = f /\ handler'[h] = a
        /\ \A i \in Inodes : i \in Range(f) => data'[i] = d[i]
    BY <1>5, <2>7 DEF Become, Shape
  <2>10. Keeps(h)
    <3> SUFFICES ASSUME NEW e \in Names, files[<<"dest", e>>] # 0
                 PROVE  /\ files'[<<"dest", e>>] = files[<<"dest", e>>]
                        /\ data'[files[<<"dest", e>>]] = data[files[<<"dest", e>>]]
      BY DEF Keeps
    <3>1. <<"dest", e>> \in Paths /\ <<"dest", e>> # P
      BY <2>1 DEF Paths, there
    <3>2. f[<<"dest", e>>] = files[<<"dest", e>>] /\ <<"dest", e>> \in DOMAIN f
      BY <2>2, <2>5, <3>1
    <3>3. files[<<"dest", e>>] \in Inodes /\ files[<<"dest", e>>] \in Range(f)
      BY <2>2, <3>1, <3>2 DEF Range
    <3>4. files[<<"dest", e>>] # Fresh
      <4>1. files[<<"dest", e>>] \in Busy
        BY <2>2, <3>1 DEF Busy, Range
      <4> QED  BY <2>3, <4>1
    <3>5. d[files[<<"dest", e>>]] = data[files[<<"dest", e>>]]
      BY <2>2, <2>5, <3>3, <3>4
    <3> QED  BY <2>9, <3>2, <3>3, <3>5
  <2>11. Ready(h)'
    <3>1. a.pc > 0 => (a.plan[a.pc].kind = "put" => a.fd \in a.made)
                      /\ ~(a.plan[a.pc].kind = "open" /\ a.plan[a.pc].mode # "excl")
      <4> SUFFICES ASSUME a.pc # 0
                   PROVE  a.fd \in a.made /\ ~(a.plan[a.pc].kind = "open" /\ a.plan[a.pc].mode # "excl")
        OBVIOUS
      <4>1. /\ a.pc = r.pc + 1 /\ r.pc + 1 \in 1..Len(r.plan) /\ a.plan = r.plan /\ a.fd = Fresh
            /\ a.made = r.made \cup {Fresh}
        BY <2>6, <2>8 DEF Moved
      <4>2. Careful(r.plan) /\ (r.pc + 1) - 1 = r.pc
        BY <1>2 DEF Cautious
      <4>3. r.plan[r.pc + 1].kind = "open" /\ r.plan[r.pc + 1].mode # "excl" => Asks(r.plan[(r.pc + 1) - 1])
        BY <4>1, <4>2 DEF Careful
      <4>4. ~Asks(s)
        BY <1>1, <1>2 DEF Asks
      <4> QED  BY <1>2, <4>1, <4>2, <4>3, <4>4
    <3> QED  BY <2>9, <3>1 DEF Ready
  <2> QED  BY <2>10, <2>11
<1>6. CASE Become(h, files, data, After(handler[h], StepOf(h), FALSE))
  BY <1>1, <1>6, CautiousGoes
<1> QED  BY <1>3, <1>5, <1>6

LEMMA CautiousPut ==
    ASSUME Shape, NEW h \in Handlers, Cautious(h), PutBlock(h)
    PROVE  Ready(h)' /\ Keeps(h)
<1>1. Running(h) /\ StepOf(h).kind = "put"
  BY DEF PutBlock, At
<1>2. PICK r, s : /\ r = handler[h] /\ s = StepOf(h) /\ s = r.plan[r.pc] /\ HandlerType(r) /\ r.pc > 0 /\ Leads(s)
                  /\ DOMAIN r = Fields
                  /\ s.kind = "put" => r.fd \in r.made
                  /\ r.pc \in 1..Len(r.plan) /\ Len(r.plan) \in Nat
  BY <1>1, CautiousFound
<1> DEFINE b == [r EXCEPT !.fd = 0, !.in = 0, !.read = 0]
<1>3. \/ \E x : Become(h, files, [data EXCEPT ![r.fd] = x], [r EXCEPT !.read = @ + 1])
      \/ Become(h, files, data, After(b, s, TRUE))
      \/ Become(h, files, data, After(handler[h], StepOf(h), FALSE))
  BY <1>2 DEF PutBlock, Fails
<1>4. ASSUME NEW x, Become(h, files, [data EXCEPT ![r.fd] = x], [r EXCEPT !.read = @ + 1])
      PROVE  Ready(h)' /\ Keeps(h)
  <2>1. /\ files' = files /\ handler'[h] = [r EXCEPT !.read = @ + 1]
        /\ \A i \in Inodes : i \in Range(files) /\ i # r.fd => data'[i] = data[i]
    BY <1>4 DEF Become, Shape
  <2>2. Keeps(h)
    <3> SUFFICES ASSUME NEW e \in Names, files[<<"dest", e>>] # 0, files[<<"dest", e>>] \notin r.made
                 PROVE  data'[files[<<"dest", e>>]] = data[files[<<"dest", e>>]]
      BY <1>2, <2>1 DEF Keeps
    <3>1. <<"dest", e>> \in Paths /\ files \in [Paths -> Inodes \cup {0}]
      BY DEF Paths, Shape
    <3>2. files[<<"dest", e>>] \in Inodes /\ files[<<"dest", e>>] \in Range(files)
      BY <3>1 DEF Range
    <3>3. files[<<"dest", e>>] # r.fd
      BY <1>1, <1>2
    <3> QED  BY <2>1, <3>2, <3>3
  <2>3. /\ handler'[h].pc = r.pc /\ handler'[h].plan = r.plan /\ handler'[h].fd = r.fd /\ handler'[h].made = r.made
    BY <1>2, <2>1 DEF Fields
  <2>4. Ready(h)'
    BY <1>1, <1>2, <2>3 DEF Ready
  <2> QED  BY <2>2, <2>4
<1>5. CASE Become(h, files, data, After(b, s, TRUE))
  <2>1. HandlerType(b) /\ b.pc = r.pc /\ b.plan = r.plan
    BY <1>2, RecordType DEF Fields
  <2> HIDE DEF b
  <2>2. b.pc > 0 /\ s = b.plan[b.pc]
    BY <1>2, <2>1
  <2>3. After(b, s, TRUE).pc = 0 \/ Moved(b, After(b, s, TRUE))
    BY <1>2, <2>1, <2>2, LeadsOn
  <2>4. PICK a : a = After(b, s, TRUE)
    OBVIOUS
  <2>5. a.pc = 0 \/ (a.pc = r.pc + 1 /\ a.plan = r.plan /\ r.pc + 1 \in 1..Len(r.plan))
    <3>1. a.pc = 0 \/ Moved(b, a)
      BY <2>3, <2>4, Zenon
    <3> QED  BY <2>1, <3>1 DEF Moved
  <2>6. Keeps(h) /\ handler'[h] = a
    BY <1>5, <2>4, Untouched
  <2>7. a.pc > 0 => ~Bound(a.plan[a.pc])
    <3> SUFFICES ASSUME a.pc # 0 PROVE ~Bound(r.plan[r.pc + 1])
      BY <2>5
    <3>1. r.pc + 1 \in 1..Len(r.plan)
      BY <2>5
    <3> QED  BY <1>1, <1>2, <3>1, FreeOn DEF Asks, Cautious
  <2> QED  BY <2>6, <2>7, ReadyFree
<1>6. CASE Become(h, files, data, After(handler[h], StepOf(h), FALSE))
  BY <1>1, <1>6, CautiousGoes
<1> QED  BY <1>3, <1>4, <1>5, <1>6

LEMMA CautiousLink ==
    ASSUME Shape, NEW h \in Handlers, Cautious(h), LinkFile(h)
    PROVE  Ready(h)' /\ Keeps(h)
<1>1. Running(h) /\ StepOf(h).kind = "link"
  BY DEF LinkFile, At
<1>2. PICK r, s : /\ r = handler[h] /\ s = StepOf(h) /\ s = r.plan[r.pc] /\ HandlerType(r) /\ r.pc > 0 /\ Leads(s)
                  /\ DOMAIN r = Fields /\ r.pc \in 1..Len(r.plan) /\ Len(r.plan) \in Nat
  BY <1>1, CautiousFound
<1> DEFINE inode == files[<<"source", Entries[handler[h].entry]>>]
           P == PathOf(h)
           f == [files EXCEPT ![P] = inode]
           b == [handler[h] EXCEPT !.made = @ \cup {inode}]
<1>3. \/ Become(h, files, data, After(handler[h], StepOf(h), FALSE))
      \/ files[P] = 0 /\ Become(h, f, data, After(b, s, TRUE))
  BY <1>2 DEF LinkFile, Goes
<1>4. CASE files[P] = 0 /\ Become(h, f, data, After(b, s, TRUE))
  <2>1. HandlerType(b) /\ b.pc = r.pc /\ b.plan = r.plan
    BY <1>2, RecordType DEF Fields
  <2>2. b.pc > 0 /\ s = b.plan[b.pc]
    BY <1>2, <2>1
  <2> HIDE DEF b
  <2>3. After(b, s, TRUE).pc = 0 \/ Moved(b, After(b, s, TRUE))
    BY <1>2, <2>1, <2>2, LeadsOn
  <2>4. PICK a : a = After(b, s, TRUE)
    OBVIOUS
  <2>5. a.pc = 0 \/ (a.pc = r.pc + 1 /\ a.plan = r.plan /\ r.pc + 1 \in 1..Len(r.plan))
    <3>1. a.pc = 0 \/ Moved(b, a)
      BY <2>3, <2>4, Zenon
    <3> QED  BY <2>1, <3>1 DEF Moved
  <2>6. /\ files' = f /\ handler'[h] = a
        /\ \A i \in Inodes : i \in Range(f) => data'[i] = data[i]
    BY <1>4, <2>4 DEF Become, Shape
  <2>7. Keeps(h)
    <3> SUFFICES ASSUME NEW e \in Names, files[<<"dest", e>>] # 0
                 PROVE  /\ files'[<<"dest", e>>] = files[<<"dest", e>>]
                        /\ data'[files[<<"dest", e>>]] = data[files[<<"dest", e>>]]
      BY DEF Keeps
    <3>1. <<"dest", e>> \in Paths /\ <<"dest", e>> # P /\ files \in [Paths -> Inodes \cup {0}]
      BY <1>4 DEF Paths, Shape
    <3> HIDE DEF P, inode
    <3>2. f[<<"dest", e>>] = files[<<"dest", e>>] /\ <<"dest", e>> \in DOMAIN f
      BY <3>1
    <3>3. files[<<"dest", e>>] \in Inodes /\ files[<<"dest", e>>] \in Range(f)
      BY <3>1, <3>2 DEF Range
    <3> QED  BY <2>6, <3>2, <3>3
  <2>8. a.pc > 0 => ~Bound(a.plan[a.pc])
    <3> SUFFICES ASSUME a.pc # 0 PROVE ~Bound(r.plan[r.pc + 1])
      BY <2>5
    <3>1. r.pc + 1 \in 1..Len(r.plan)
      BY <2>5
    <3> QED  BY <1>1, <1>2, <3>1, FreeOn DEF Asks, Cautious
  <2> QED  BY <2>6, <2>7, <2>8, ReadyFree
<1>5. CASE Become(h, files, data, After(handler[h], StepOf(h), FALSE))
  BY <1>1, <1>5, CautiousGoes
<1> QED  BY <1>3, <1>4, <1>5

LEMMA CautiousStep ==
    ASSUME Shape, NEW h \in Handlers, Cautious(h), HandlerStep(h)
    PROVE  Ready(h)' /\ Keeps(h)
<1>1. CutFile(h) \/ CheckHash(h) \/ RemoveFile(h) \/ RenameFile(h) \/ Respond(h) \/ TryAgain(h) => FALSE
  <2> SUFFICES ASSUME Running(h), StepOf(h).kind \in {"cut", "hash", "remove", "rename", "fetch", "retry"} PROVE FALSE
    BY DEF CutFile, CheckHash, RemoveFile, RenameFile, Respond, TryAgain, At
  <2>1. Careful(handler[h].plan) /\ handler[h].pc \in 1..Len(handler[h].plan)
    BY HandlerFound DEF Cautious
  <2>2. StepOf(h).kind \in {"found", "local", "vacant", "input", "open", "put", "again", "link"}
    BY <2>1 DEF Careful, StepOf
  <2> QED  BY <2>2
<1> QED  BY <1>1, CautiousLook, CautiousInput, CautiousOpen, CautiousPut, CautiousLink, CautiousLocal, CautiousNext
            DEF HandlerStep

\* The steps that open, remove, rename and link nothing leave the paths alone.
LEMMA FilesStay ==
    ASSUME NEW h \in Handlers, HandlerStep(h), StepOf(h).kind \notin {"open", "remove", "rename", "link"}
    PROVE  files' = files
<1>1. OpenOutput(h) \/ RemoveFile(h) \/ RenameFile(h) \/ LinkFile(h) => FALSE
  BY DEF OpenOutput, RemoveFile, RenameFile, LinkFile, At
<1>2. ASSUME NEW d, NEW r, Become(h, files, d, r) PROVE files' = files
  BY <1>2 DEF Become
<1>3. ASSUME NEW x, Goes(h, x) PROVE files' = files
  BY <1>2, <1>3 DEF Goes
<1>4. Fails(h) => files' = files
  BY <1>2 DEF Fails
<1>5. Look(h) => files' = files
  BY <1>3 DEF Look
<1>6. OpenInput(h) => files' = files
  BY <1>2, <1>3 DEF OpenInput
<1>7. PutBlock(h) \/ CutFile(h) => files' = files
  BY <1>2, <1>3, <1>4 DEF PutBlock, CutFile
<1>8. CheckHash(h) \/ LocalStep(h) => files' = files
  BY <1>3, <1>4 DEF CheckHash, LocalStep
<1>9. Respond(h) \/ TryAgain(h) \/ NextEntry(h) => files' = files
  BY <1>2 DEF Respond, TryAgain, NextEntry
<1> QED  BY <1>1, <1>5, <1>6, <1>7, <1>8, <1>9 DEF HandlerStep

\* No entry is at the destination.
Bare == \A e \in Names : files[<<"dest", e>>] = 0

\* A transfer that has found the destination vacant finds it so until it ends.
LEMMA TransferStep ==
    ASSUME Shape, NEW h \in Handlers, Running(h), HandlerStep(h), NEW l, Transfers(handler[h].plan, l),
           handler[h].pc > l => Bare, handler[h].request.entries = 1,
           \A e \in Names \ {Entries[1]} : files[<<"dest", e>>] = 0
    PROVE  Keeps(h) /\ (handler'[h].pc > l => Bare')
<1> DEFINE r == handler[h]   s == StepOf(h)   p == r.plan
<1>1. /\ HandlerType(r) /\ r.pc > 0 /\ r.pc \in 1..Len(p) /\ Len(p) \in Nat /\ s \in Steps /\ s = p[r.pc]
      /\ l \in 1..Len(p)
  BY HandlerFound DEF StepOf, Transfers
<1>2. CASE r.pc > l
  <2>1. Keeps(h)
    BY <1>2 DEF Keeps, Bare
  <2>2. /\ s.kind \in {"remove", "fetch", "open", "put", "retry", "hash", "rename"}
        /\ s.kind = "open" => s.place # "dest"
        /\ s.kind = "rename" => r.pc = Len(p)
    <3>1. r.pc \in (l + 1)..Len(p)
      BY <1>1, <1>2
    <3> QED  BY <1>1, <3>1 DEF Transfers
  <2>3. CASE s.kind \in {"fetch", "put", "retry", "hash"}
    <3>1. files' = files
      BY <2>3, FilesStay
    <3> QED  BY <1>2, <2>1, <3>1 DEF Bare
  <2>4. CASE s.kind = "remove"
    <3>1. RemoveFile(h)
      BY <2>4 DEF HandlerStep, At, Look, OpenInput, OpenOutput, PutBlock, CutFile, CheckHash, RenameFile, LinkFile,
                  Respond, TryAgain, LocalStep, NextEntry
    <3>2. files' = files \/ files' = [files EXCEPT ![PathOf(h)] = 0]
      BY <3>1 DEF RemoveFile, Goes, Fails, Become
    <3>3. \A e \in Names : <<"dest", e>> \in Paths /\ files \in [Paths -> Inodes \cup {0}]
      BY DEF Paths, Shape
    <3>4. Bare'
      BY <1>2, <3>2, <3>3 DEF Bare
    <3> QED  BY <2>1, <3>4
  <2>5. CASE s.kind = "open"
    <3>1. OpenOutput(h)
      BY <2>5 DEF HandlerStep, At, Look, OpenInput, RemoveFile, PutBlock, CutFile, CheckHash, RenameFile, LinkFile,
                  Respond, TryAgain, LocalStep, NextEntry
    <3>2. files' = files \/ \E x : files' = [files EXCEPT ![PathOf(h)] = x]
      BY <3>1 DEF OpenOutput, Goes, Fails, Become
    <3>3. \A e \in Names : <<"dest", e>> \in Paths /\ files \in [Paths -> Inodes \cup {0}]
      BY DEF Paths, Shape
    <3>4. \A e \in Names : <<"dest", e>> # PathOf(h)
      BY <2>2, <2>5 DEF PathOf
    <3>5. Bare'
      BY <1>2, <3>2, <3>3, <3>4 DEF Bare
    <3> QED  BY <2>1, <3>5
  <2>6. CASE s.kind = "rename"
    <3>1. RenameFile(h)
      BY <2>6 DEF HandlerStep, At, Look, OpenInput, RemoveFile, PutBlock, CutFile, CheckHash, OpenOutput, LinkFile,
                  Respond, TryAgain, LocalStep, NextEntry
    <3>2. \/ files' = files
          \/ \E f : Become(h, f, data, After(r, s, TRUE))
      <4>1. Goes(h, FALSE) \/ Fails(h) => files' = files
        BY DEF Goes, Fails, Become
      <4> QED  BY <3>1, <4>1 DEF RenameFile
    <3>3. After(r, s, TRUE).pc = 0
      <4>1. s.next \in Nat \ {0}
        BY <1>1 DEF Steps
      <4>2. s.next # 0 /\ r.pc + s.next > Len(r.plan)
        BY <1>1, <2>2, <2>6, <4>1
      <4>3. After(r, s, TRUE) = Answered(IF r.partial \/ (~TRUE /\ s.code = "partial") THEN "partial" ELSE "done")
        BY <4>2 DEF After
      <4> QED  BY <4>3 DEF Answered, Idle
    <3>4. CASE files' = files
      BY <1>2, <2>1, <3>4 DEF Bare
    <3>5. CASE \E f : Become(h, f, data, After(r, s, TRUE))
      <4>1. handler'[h] = After(r, s, TRUE)
        BY <3>5 DEF Become, Shape
      <4>2. handler'[h].pc = 0
        BY <3>3, <4>1, Zenon
      <4>3. ~(handler'[h].pc > l)
        BY <1>1, <4>2
      <4> QED  BY <2>1, <4>3
    <3> QED  BY <3>2, <3>4, <3>5
  <2> QED  BY <2>2, <2>3, <2>4, <2>5, <2>6
<1>3. CASE ~(r.pc > l)
  <2>1. /\ Leads(s) /\ r.pc <= l
        /\ s.kind \in {"found", "size", "hash"} \/ (Asks(s) /\ r.pc = l)
    <3>1. r.pc \in 1..(l - 1) \/ r.pc = l
      BY <1>1, <1>3
    <3> QED  BY <1>1, <3>1 DEF Transfers
  <2>2. Look(h) \/ CheckHash(h)
    <3>1. s.kind \in {"found", "size", "hash", "vacant"}
      BY <2>1 DEF Asks
    <3> QED  BY <3>1 DEF HandlerStep, At, OpenInput, OpenOutput, RemoveFile, PutBlock, CutFile, RenameFile, LinkFile,
                        Respond, TryAgain, LocalStep, NextEntry
  <2>3. \/ Become(h, files, data, After(r, s, FALSE))
        \/ /\ Become(h, files, data, After(r, s, TRUE))
           /\ Asks(s) => files[PathOf(h)] = 0
    <3>1. CASE Asks(s)
      <4>1. Goes(h, files[PathOf(h)] = 0)
        BY <2>2, <3>1 DEF Look, CheckHash, At, Asks
      <4>2. CASE files[PathOf(h)] = 0
        <5>1. \E ok \in BOOLEAN : Goes(h, ok)
          BY <4>1
        <5>2. Become(h, files, data, After(r, s, FALSE)) \/ Become(h, files, data, After(r, s, TRUE))
          BY <5>1, Zenon DEF Goes
        <5> QED  BY <4>2, <5>2
      <4>3. CASE files[PathOf(h)] # 0
        <5>1. (files[PathOf(h)] = 0) = FALSE
          BY <4>3
        <5>2. Goes(h, FALSE)
          BY <4>1, <5>1, Zenon
        <5> QED  BY <5>2 DEF Goes
      <4> QED  BY <4>2, <4>3
    <3>2. CASE ~Asks(s)
      <4>1. \E ok \in BOOLEAN : Goes(h, ok)
        <5>1. CASE Look(h)
          <6>1. CASE At(h, "found") /\ Goes(h, Present(h, StepOf(h).place) # {})
            BY <6>1
          <6>2. CASE At(h, "vacant") /\ Goes(h, IF StepOf(h).mode = "all" THEN Present(h, StepOf(h).place) = {}
                                                ELSE files[PathOf(h)] = 0)
            BY <2>1, <3>2, <6>2 DEF At
          <6>3. CASE At(h, "size") /\ LET inode == IF StepOf(h).place = "open" THEN handler[h].fd ELSE files[PathOf(h)]
                                      IN  Goes(h, inode # 0 /\ Len(data[inode]) = StepOf(h).mode)
            <7> DEFINE inode == IF StepOf(h).place = "open" THEN handler[h].fd ELSE files[PathOf(h)]
            <7>1. (inode # 0 /\ Len(data[inode]) = StepOf(h).mode) \in BOOLEAN
              OBVIOUS
            <7> QED  BY <6>3, <7>1, Zenon
          <6> QED  BY <5>1, <6>1, <6>2, <6>3, Zenon DEF Look
        <5>2. CASE CheckHash(h)
          BY <5>2, Zenon DEF CheckHash
        <5> QED  BY <2>2, <5>1, <5>2
      <4>2. Become(h, files, data, After(r, s, FALSE)) \/ Become(h, files, data, After(r, s, TRUE))
        BY <4>1, Zenon DEF Goes
      <4> QED  BY <3>2, <4>2
    <3> QED  BY <3>1, <3>2
  <2>4. After(r, s, FALSE).pc = 0 /\ (After(r, s, TRUE).pc = 0 \/ Moved(r, After(r, s, TRUE)))
    BY <1>1, <2>1, LeadsOn
  <2>5. CASE Become(h, files, data, After(r, s, FALSE))
    <3>1. Keeps(h) /\ handler'[h] = After(r, s, FALSE)
      BY <2>5, Untouched
    <3>2. handler'[h].pc = 0
      BY <2>4, <3>1, Zenon
    <3>3. ~(handler'[h].pc > l)
      BY <1>1, <3>2
    <3> QED  BY <3>1, <3>3
  <2>6. CASE /\ Become(h, files, data, After(r, s, TRUE))
             /\ Asks(s) => files[PathOf(h)] = 0
    <3>1. PICK a : a = After(r, s, TRUE)
      OBVIOUS
    <3>2. files' = files /\ Keeps(h) /\ handler'[h] = a
      BY <2>6, <3>1, Untouched
    <3>3. a.pc = 0 \/ Moved(r, a)
      BY <2>4, <3>1, Zenon
    <3>4. a.pc > l => r.pc = l
      BY <1>1, <2>1, <3>3 DEF Moved
    <3>5. r.pc = l => Asks(s)
      BY <1>1 DEF Transfers
    <3>6. Asks(s) => files[<<"dest", Entries[1]>>] = 0
      <4>1. r.entry = 1
        BY <1>1 DEF HandlerType
      <4> QED  BY <2>6, <4>1 DEF Asks, PathOf
    <3>7. a.pc > l => Bare
      BY <3>4, <3>5, <3>6 DEF Bare
    <3>8. Bare => Bare'
      BY <3>2 DEF Bare
    <3> QED  BY <3>2, <3>7, <3>8
  <2> QED  BY <2>3, <2>5, <2>6
<1> QED  BY <1>2, <1>3

\* The record stays that of its request until it has answered.
Same(r, a) == a.request = r.request /\ a.plan = r.plan /\ a.with = r.with
Own(h) == \E a : handler' = [handler EXCEPT ![h] = a] /\ (a.pc = 0 \/ Same(handler[h], a))

LEMMA SameAfter ==
    ASSUME NEW r, DOMAIN r = Fields, NEW s, NEW ok
    PROVE  After(r, s, ok).pc = 0 \/ Same(r, After(r, s, ok))
<1> DEFINE jump == IF ok THEN s.next ELSE s.orElse
           part == r.partial \/ (~ok /\ s.code = "partial")
<1>1. \A x : Answered(x).pc = 0
  BY DEF Answered, Idle
<1>2. CASE jump = 0
  <2>1. After(r, s, ok) = Answered(s.code)
    BY <1>2 DEF After
  <2> QED  BY <1>1, <2>1
<1>3. CASE jump # 0 /\ r.pc + jump > Len(r.plan)
  <2>1. After(r, s, ok) = Answered(IF part THEN "partial" ELSE "done")
    BY <1>3 DEF After
  <2> HIDE DEF part
  <2> QED  BY <1>1, <2>1
<1>4. CASE jump # 0 /\ ~(r.pc + jump > Len(r.plan))
  <2>1. After(r, s, ok) = [r EXCEPT !.pc = r.pc + jump, !.partial = part]
    BY <1>4 DEF After
  <2> HIDE DEF part, jump
  <2> QED  BY <2>1 DEF Same, Fields
<1> QED  BY <1>2, <1>3, <1>4

LEMMA OwnAfter ==
    ASSUME Shape, NEW h \in Handlers, NEW r, DOMAIN r = Fields, Same(handler[h], r), NEW ok, NEW f, NEW d,
           Become(h, f, d, After(r, StepOf(h), ok))
    PROVE  Own(h)
<1>1. PICK a : a = After(r, StepOf(h), ok)
  OBVIOUS
<1>2. a.pc = 0 \/ Same(r, a)
  BY <1>1, SameAfter, Zenon
<1>3. a.pc = 0 \/ Same(handler[h], a)
  BY <1>2 DEF Same
<1>4. Become(h, f, d, a)
  BY <1>1
<1> QED  BY <1>3, <1>4 DEF Become, Own

LEMMA OwnRecord == ASSUME Shape, NEW h \in Handlers, HandlerStep(h) PROVE Own(h)
<1>1. DOMAIN handler[h] = Fields /\ Same(handler[h], handler[h])
  BY DEF Shape, HandlerType, Same
<1>2. ASSUME NEW ok, Goes(h, ok) PROVE Own(h)
  BY <1>1, <1>2, OwnAfter DEF Goes
<1>3. Fails(h) => Own(h)
  BY <1>1, OwnAfter DEF Fails
<1>4. ASSUME NEW r, DOMAIN r = Fields, Same(handler[h], r), NEW ok, NEW f, NEW d,
             Become(h, f, d, After(r, StepOf(h), ok))
      PROVE  Own(h)
  BY <1>1, <1>4, OwnAfter
<1>5. ASSUME NEW a, a.pc = 0 \/ Same(handler[h], a), NEW f, NEW d, Become(h, f, d, a) PROVE Own(h)
  BY <1>5 DEF Become, Own
<1>6. Look(h) => Own(h)
  BY <1>2, Zenon DEF Look
<1>7. OpenInput(h) => Own(h)
  <2> SUFFICES ASSUME OpenInput(h) PROVE Own(h)
    OBVIOUS
  <2>1. CASE Goes(h, FALSE)
    BY <1>2, <2>1
  <2>2. CASE \E inode : Become(h, files, data, After([handler[h] EXCEPT !.in = inode], StepOf(h), TRUE))
    <3>1. PICK inode, r : r = [handler[h] EXCEPT !.in = inode] /\ Become(h, files, data, After(r, StepOf(h), TRUE))
      BY <2>2
    <3>2. DOMAIN r = Fields /\ Same(handler[h], r)
      BY <1>1, <3>1 DEF Same, Fields
    <3> QED  BY <1>4, <3>1, <3>2
  <2>3. CASE Become(h, files, data, [handler[h] EXCEPT !.pc = @ + 3])
    <3>1. PICK a : a = [handler[h] EXCEPT !.pc = @ + 3]
      OBVIOUS
    <3>2. Same(handler[h], a)
      BY <1>1, <3>1 DEF Same, Fields
    <3> QED  BY <1>5, <2>3, <3>1, <3>2
  <2> QED  BY <2>1, <2>2, <2>3, Zenon DEF OpenInput
<1>8. OpenOutput(h) => Own(h)
  <2> SUFFICES ASSUME OpenOutput(h), ~Goes(h, FALSE), ~Fails(h) PROVE Own(h)
    BY <1>2, <1>3
  <2>1. PICK inode, made, append, f, d :
          Become(h, f, d, After([handler[h] EXCEPT !.fd = inode, !.read = 0, !.made = made, !.append = append],
                                StepOf(h), TRUE))
    BY Zenon DEF OpenOutput
  <2> DEFINE r == [handler[h] EXCEPT !.fd = inode, !.read = 0, !.made = made, !.append = append]
  <2>2. DOMAIN r = Fields /\ Same(handler[h], r)
    BY <1>1 DEF Same, Fields
  <2> HIDE DEF r
  <2>3. Become(h, f, d, After(r, StepOf(h), TRUE))
    BY <2>1 DEF r
  <2> QED  BY <1>4, <2>2, <2>3
<1>9. PutBlock(h) => Own(h)
  <2> DEFINE r == [handler[h] EXCEPT !.fd = 0, !.in = 0, !.read = 0]
  <2>1. DOMAIN r = Fields /\ Same(handler[h], r)
    BY <1>1 DEF Same, Fields
  <2>2. ASSUME NEW n PROVE Same(handler[h], [handler[h] EXCEPT !.read = n])
    BY <1>1 DEF Same, Fields
  <2> SUFFICES ASSUME PutBlock(h), ~Fails(h) PROVE Own(h)
    BY <1>3
  <2>3. CASE Become(h, files, data, After(r, StepOf(h), TRUE))
    <3> HIDE DEF r
    <3> QED  BY <1>4, <2>1, <2>3
  <2>4. CASE \E d, n : Become(h, files, d, [handler[h] EXCEPT !.read = n])
    BY <1>5, <2>2, <2>4
  <2>5. \/ Become(h, files, data, After(r, StepOf(h), TRUE))
        \/ \E d : Become(h, files, d, [handler[h] EXCEPT !.read = handler[h].read + 1])
    BY Zenon DEF PutBlock
  <2> QED  BY <2>3, <2>4, <2>5
<1>10. CutFile(h) => Own(h)
  BY <1>1, <1>2, <1>3, <1>4, Zenon DEF CutFile
<1>11. CheckHash(h) => Own(h)
  BY <1>2, Zenon DEF CheckHash
<1>12. RemoveFile(h) => Own(h)
  BY <1>1, <1>2, <1>3, <1>4, Zenon DEF RemoveFile
<1>13. RenameFile(h) => Own(h)
  BY <1>1, <1>2, <1>3, <1>4, Zenon DEF RenameFile
<1>14. LinkFile(h) => Own(h)
  <2> SUFFICES ASSUME LinkFile(h), ~Goes(h, FALSE) PROVE Own(h)
    BY <1>2
  <2>1. PICK made, f : Become(h, f, data, After([handler[h] EXCEPT !.made = made], StepOf(h), TRUE))
    BY Zenon DEF LinkFile
  <2> DEFINE r == [handler[h] EXCEPT !.made = made]
  <2>2. DOMAIN r = Fields /\ Same(handler[h], r)
    BY <1>1 DEF Same, Fields
  <2> HIDE DEF r
  <2>3. Become(h, f, data, After(r, StepOf(h), TRUE))
    BY <2>1 DEF r
  <2> QED  BY <1>4, <2>2, <2>3
<1>15. Respond(h) => Own(h)
  <2>1. ASSUME NEW append, NEW response,
               Become(h, files, data, After([handler[h] EXCEPT !.append = append, !.beyond = FALSE, !.response = response],
                                            StepOf(h), TRUE))
        PROVE  Own(h)
    <3> DEFINE r == [handler[h] EXCEPT !.append = append, !.beyond = FALSE, !.response = response]
    <3>1. DOMAIN r = Fields /\ Same(handler[h], r)
      BY <1>1 DEF Same, Fields
    <3> HIDE DEF r
    <3>2. Become(h, files, data, After(r, StepOf(h), TRUE))
      BY <2>1 DEF r
    <3> QED  BY <1>4, <3>1, <3>2
  <2>2. ASSUME NEW beyond, Become(h, files, data, After([handler[h] EXCEPT !.beyond = beyond], StepOf(h), FALSE))
        PROVE  Own(h)
    <3> DEFINE r == [handler[h] EXCEPT !.beyond = beyond]
    <3>1. DOMAIN r = Fields /\ Same(handler[h], r)
      BY <1>1 DEF Same, Fields
    <3> HIDE DEF r
    <3>2. Become(h, files, data, After(r, StepOf(h), FALSE))
      BY <2>2 DEF r
    <3> QED  BY <1>4, <3>1, <3>2
  <2> QED  BY <2>1, <2>2, Zenon DEF Respond
<1>16. TryAgain(h) => Own(h)
  <2> SUFFICES ASSUME TryAgain(h) PROVE Own(h)
    OBVIOUS
  <2>1. ASSUME NEW x PROVE Answered(x).pc = 0
    BY DEF Answered, Idle
  <2>2. ASSUME NEW n, NEW k PROVE Same(handler[h], [handler[h] EXCEPT !.attempts = n, !.pc = k, !.fd = 0, !.read = 0])
    BY <1>1 DEF Same, Fields
  <2>3. \/ \E x : Become(h, files, data, Answered(x))
        \/ \E n, k : Become(h, files, data, [handler[h] EXCEPT !.attempts = n, !.pc = k, !.fd = 0, !.read = 0])
    BY Zenon DEF TryAgain
  <2>4. CASE \E x : Become(h, files, data, Answered(x))
    BY <1>5, <2>1, <2>4
  <2>5. CASE \E n, k : Become(h, files, data, [handler[h] EXCEPT !.attempts = n, !.pc = k, !.fd = 0, !.read = 0])
    BY <1>5, <2>2, <2>5
  <2> QED  BY <2>3, <2>4, <2>5
<1>17. LocalStep(h) => Own(h)
  BY <1>2, <1>3 DEF LocalStep
<1>18. NextEntry(h) => Own(h)
  <2> SUFFICES ASSUME NextEntry(h) PROVE Own(h)
    OBVIOUS
  <2> DEFINE r == [handler[h] EXCEPT !.entry = 1]
  <2>1. DOMAIN r = Fields /\ Same(handler[h], r)
    BY <1>1 DEF Same, Fields
  <2>2. ASSUME NEW n, NEW k PROVE Same(handler[h], [handler[h] EXCEPT !.entry = n, !.pc = k])
    BY <1>1 DEF Same, Fields
  <2>3. \/ Become(h, files, data, After(r, StepOf(h), TRUE))
        \/ \E n, k : Become(h, files, data, [handler[h] EXCEPT !.entry = n, !.pc = k])
    BY Zenon DEF NextEntry
  <2> HIDE DEF r
  <2>4. CASE \E n, k : Become(h, files, data, [handler[h] EXCEPT !.entry = n, !.pc = k])
    BY <1>5, <2>2, <2>4
  <2> QED  BY <1>4, <2>1, <2>3, <2>4
<1> QED  BY <1>6, <1>7, <1>8, <1>9, <1>10, <1>11, <1>12, <1>13, <1>14, <1>15, <1>16, <1>17, <1>18 DEF HandlerStep

\* What a step of a handler leaves alone: the other handlers and the kind.
LEMMA OwnOnly ==
    ASSUME Shape, NEW h \in Handlers, HandlerStep(h)
    PROVE  /\ \A o \in Handlers \ {h} : handler'[o] = handler[o]
           /\ handler'[h].pc = 0 \/ Same(handler[h], handler'[h])
           /\ past'.kind = past.kind /\ Running(h)
<1>1. PICK a : handler' = [handler EXCEPT ![h] = a] /\ (a.pc = 0 \/ Same(handler[h], a))
  BY OwnRecord DEF Own
<1>2. handler'[h] = a /\ \A o \in Handlers \ {h} : handler'[o] = handler[o]
  BY <1>1 DEF Shape
<1>3. past' = past \/ \E n : past' = [past EXCEPT !.failures = n]
  <2>1. ASSUME NEW x, Goes(h, x) PROVE past' = past
    BY <2>1 DEF Goes
  <2>2. Fails(h) => \E n : past' = [past EXCEPT !.failures = n]
    BY Zenon DEF Fails
  <2> QED  BY <2>1, <2>2 DEF HandlerStep, Look, OpenInput, OpenOutput, PutBlock, CutFile, CheckHash, RemoveFile,
               RenameFile, LinkFile, Respond, TryAgain, LocalStep, NextEntry
<1>4. past'.kind = past.kind
  BY <1>3 DEF Shape, PastType
<1>5. Running(h)
  BY DEF HandlerStep, Look, OpenInput, OpenOutput, PutBlock, CutFile, CheckHash, RemoveFile,
         RenameFile, LinkFile, Respond, TryAgain, LocalStep, NextEntry, At
<1> QED  BY <1>1, <1>2, <1>4, <1>5

\* A request for one entry leaves the others of the destination alone.
LEMMA OneOnly ==
    ASSUME Shape, NEW h \in Handlers, HandlerStep(h), handler[h].request.entries = 1,
           NEW e \in Names \ {Entries[1]}
    PROVE  files'[<<"dest", e>>] = files[<<"dest", e>>]
<1>1. Running(h)
  BY OwnOnly
<1>2. /\ files \in [Paths -> Inodes \cup {0}] /\ <<"dest", e>> \in Paths
      /\ PathOf(h)[2] = Entries[1] /\ Worked(h) = {Entries[1]}
  <2>1. handler[h].entry = 1
    BY <1>1, HandlerFound DEF HandlerType
  <2> QED  BY <2>1 DEF Shape, Paths, PathOf, Worked
<1>3. CASE StepOf(h).kind \notin {"open", "remove", "rename", "link"}
  BY <1>3, FilesStay
<1>4. CASE StepOf(h).kind \in {"open", "remove", "link"}
  <2>1. files' = files \/ \E x : files' = [files EXCEPT ![PathOf(h)] = x]
    <3>1. OpenOutput(h) \/ RemoveFile(h) \/ LinkFile(h)
      BY <1>4 DEF HandlerStep, At, Look, OpenInput, PutBlock, CutFile, CheckHash, RenameFile,
                  Respond, TryAgain, LocalStep, NextEntry
    <3> QED  BY <3>1 DEF OpenOutput, RemoveFile, LinkFile, Goes, Fails, Become
  <2>2. PathOf(h) # <<"dest", e>>
    BY <1>2
  <2> QED  BY <1>2, <2>1, <2>2
<1>5. CASE StepOf(h).kind = "rename"
  <2>1. RenameFile(h)
    BY <1>5 DEF HandlerStep, At, Look, OpenInput, RemoveFile, PutBlock, CutFile, CheckHash, OpenOutput, LinkFile,
                Respond, TryAgain, LocalStep, NextEntry
  <2> DEFINE place == StepOf(h).place
             moved == Present(h, place)
             f == [p \in Paths |-> IF p[2] \notin moved THEN files[p]
                                   ELSE IF p[1] = "dest" THEN files[<<place, p[2]>>]
                                   ELSE IF p[1] = place THEN 0 ELSE files[p]]
  <2>2. files' = files \/ files' = f
    BY <2>1 DEF RenameFile, Goes, Fails, Become
  <2>3. e \notin moved
    BY <1>2 DEF Present
  <2>4. f[<<"dest", e>>] = files[<<"dest", e>>]
    BY <1>2, <2>3
  <2> QED  BY <2>2, <2>4
<1> QED  BY <1>3, <1>4, <1>5

\* Two that run know of each other, all are of one kind, a transfer's only
\* entry is the first, and each is ready for its next step.
Solo      == \A h, o \in Handlers : h # o /\ Running(h) /\ Running(o) => handler[h].with # {}
Sorted    == \A h \in Handlers : Running(h) => Kind(handler[h].request) = past.kind
OnlyFirst == past.kind # "tree" => \A e \in Names \ {Entries[1]} : files[<<"dest", e>>] = 0
Held(h) ==
    LET r == handler[h] IN
    r.pc > 0 /\ (Makes(r.request) \/ (Looks(r.request) /\ r.with = {})) =>
      /\ Kind(r.request) = "tree" => Ready(h)
      /\ Kind(r.request) # "tree" => \A l : Transfers(r.plan, l) /\ r.pc > l => Bare
Keeping == Solo /\ Sorted /\ OnlyFirst /\ \A h \in Handlers : Held(h)

LEMMA InitKeeping == Init => Keeping
<1> SUFFICES ASSUME Init PROVE Keeping
  OBVIOUS
<1>1. \A h \in Handlers : handler[h].pc = 0
  BY DEF Init, Idle
<1>2. Solo /\ Sorted /\ \A h \in Handlers : Held(h)
  BY <1>1 DEF Solo, Sorted, Held, Running
<1>3. PICK kind \in DOMAIN MaxRequests, there \in SUBSET Names, left \in {"v0", "v1"} \X (0..(Size - 1)),
           parted \in BOOLEAN :
        /\ kind # "tree" => there \subseteq {Entries[1]}
        /\ files = [p \in Paths |-> IF p \in Named(kind, there, parted) THEN Initially(p) ELSE 0]
        /\ past.kind = kind
  BY SMT DEF Init
<1>4. OnlyFirst
  <2> SUFFICES ASSUME kind # "tree", NEW e \in Names \ {Entries[1]} PROVE files[<<"dest", e>>] = 0
    BY <1>3 DEF OnlyFirst
  <2>1. <<"dest", e>> \in Paths /\ e \notin there
    BY <1>3 DEF Paths
  <2>2. <<"dest", e>> \notin Named(kind, there, parted)
    BY <2>1 DEF Named
  <2> QED  BY <1>3, <2>1, <2>2
<1> QED  BY <1>2, <1>4 DEF Keeping

\* One that makes its files with O_EXCL, whatever the others do to the paths.
LEMMA HeldApart ==
    ASSUME Shape, NEW o \in Handlers, Held(o), Running(o),
           LET r == handler[o]   a == handler'[o] IN
           /\ a.pc = r.pc /\ a.plan = r.plan /\ a.request = r.request /\ a.fd = r.fd /\ a.made = r.made
           /\ a.with # {}
    PROVE  Held(o)'
<1> SUFFICES ASSUME Makes(handler[o].request) PROVE Ready(o)' /\ Kind(handler[o].request) = "tree"
  BY DEF Held
<1>1. /\ handler[o].pc > 0 /\ handler[o].request \in Requests /\ handler[o].plan = Plans[handler[o].request]
      /\ handler[o].pc \in 1..Len(handler[o].plan)
  BY HandlerFound DEF HandlerType
<1>2. Kind(handler[o].request) = "tree" /\ Strict(handler[o].plan)
  BY <1>1, KeepingPlans
<1>3. Ready(o)
  BY <1>1, <1>2 DEF Held
<1>4. Ready(o)'
  BY <1>1, <1>2, <1>3 DEF Ready, Strict
<1> QED  BY <1>2, <1>4

\* At its own step, one that is held keeps what was there.
LEMMA HeldStep ==
    ASSUME Shape, Keeping, NEW h \in Handlers, HandlerStep(h),
           Makes(handler[h].request) \/ (Looks(handler[h].request) /\ handler[h].with = {})
    PROVE  Keeps(h) /\ Held(h)'
<1> DEFINE r == handler[h]
<1>1. /\ Running(h) /\ r.pc > 0 /\ r.request \in Requests /\ r.plan = Plans[r.request] /\ Held(h)
      /\ handler'[h].pc = 0 \/ Same(r, handler'[h])
  BY OwnOnly, HandlerFound DEF HandlerType, Keeping
<1>2. CASE Kind(r.request) = "tree"
  <2>1. Cautious(h)
    <3>1. Ready(h)
      BY <1>1, <1>2 DEF Held
    <3>2. Careful(r.plan) /\ (Strict(r.plan) \/ r.with = {})
      BY <1>1, <1>2, KeepingPlans
    <3> QED  BY <3>1, <3>2 DEF Cautious
  <2>2. Ready(h)' /\ Keeps(h)
    BY <2>1, CautiousStep
  <2>3. Held(h)'
    BY <1>1, <1>2, <2>2 DEF Held, Same
  <2> QED  BY <2>2, <2>3
<1>3. CASE Kind(r.request) # "tree"
  <2>1. r.request.entries = 1 /\ \A e \in Names \ {Entries[1]} : files[<<"dest", e>>] = 0
    BY <1>1, <1>3, OneEntry DEF Keeping, Sorted, OnlyFirst
  <2>2. \A l : Transfers(r.plan, l) => Keeps(h) /\ (handler'[h].pc > l => Bare')
    BY <1>1, <1>3, <2>1, TransferStep DEF Held
  <2>3. \E l : Transfers(r.plan, l)
    BY <1>1, <1>3, KeepingPlans
  <2>4. Held(h)'
    BY <1>1, <1>3, <2>2 DEF Held, Same
  <2> QED  BY <2>2, <2>3, <2>4
<1> QED  BY <1>2, <1>3

LEMMA BeginKeeping ==
    ASSUME Shape, Keeping, NEW h \in Handlers, NEW q \in Requests, Begin(h, q)
    PROVE  Keeping'
<1> DEFINE with == {handler[x].request : x \in {x \in Handlers : Running(x)}}
           r == [Idle EXCEPT !.request = q, !.plan = Plans[q], !.pc = 1, !.with = with]
<1>1. /\ files' = files /\ data' = data /\ ~Running(h) /\ Kind(q) = past.kind
      /\ handler' = [o \in Handlers |-> IF o = h THEN r
                                        ELSE IF Running(o) THEN [handler[o] EXCEPT !.with = @ \cup {q}]
                                        ELSE handler[o]]
  BY DEF Begin
<1>2. r.request = q /\ r.plan = Plans[q] /\ r.pc = 1 /\ r.with = with
  BY DEF Idle
<1> HIDE DEF r
<1>3. handler'[h] = r
  BY <1>1
<1>4. ASSUME NEW o \in Handlers \ {h}, Running(o)'
      PROVE  LET s == handler[o]   a == handler'[o] IN
             /\ Running(o) /\ a.pc = s.pc /\ a.plan = s.plan /\ a.request = s.request /\ a.fd = s.fd /\ a.made = s.made
             /\ a.with # {}
  <2>1. DOMAIN handler[o] = Fields
    BY DEF Shape, HandlerType
  <2>2. Running(o)
    BY <1>1, <1>4 DEF Running
  <2>3. handler'[o] = [handler[o] EXCEPT !.with = @ \cup {q}]
    BY <1>1, <2>2
  <2> QED  BY <2>1, <2>2, <2>3 DEF Fields
<1>5. past'.kind = past.kind
  <2>1. \E n, g, s : past' = [past EXCEPT !.requests = n, !.gentle = g, !.steady = s]
    BY Zenon DEF Begin
  <2> QED  BY <2>1 DEF Shape, PastType
<1>6. Solo'
  <2> SUFFICES ASSUME NEW o \in Handlers, NEW x \in Handlers, o # x, Running(o)', Running(x)'
               PROVE  handler'[o].with # {}
    BY DEF Solo
  <2>1. CASE o = h
    <3>1. Running(x)
      BY <1>4, <2>1
    <3> QED  BY <1>2, <1>3, <2>1, <3>1
  <2>2. CASE o # h
    BY <1>4, <2>2
  <2> QED  BY <2>1, <2>2
<1>7. Sorted'
  <2>1. ASSUME NEW o \in Handlers, Running(o)' PROVE Kind(handler'[o].request) = past'.kind
    <3>1. CASE o = h
      BY <1>1, <1>2, <1>3, <1>5, <3>1
    <3>2. CASE o # h
      BY <1>4, <1>5, <2>1, <3>2 DEF Keeping, Sorted
    <3> QED  BY <3>1, <3>2
  <2> QED  BY <2>1 DEF Sorted
<1>8. OnlyFirst'
  BY <1>1, <1>5 DEF Keeping, OnlyFirst
<1>9. Held(h)'
  <2>1. ASSUME Makes(q) \/ Looks(q), Kind(q) = "tree" PROVE Ready(h)'
    <3>1. Careful(Plans[q]) /\ 1 \in 1..Len(Plans[q])
      BY <2>1, KeepingPlans, PlansSound DEF SoundPlan
    <3>2. ~Bound(Plans[q][1])
      BY <3>1 DEF Careful, Bound
    <3>3. ~Bound(handler'[h].plan[handler'[h].pc])
      BY <1>2, <1>3, <3>2
    <3> QED  BY <3>3, ReadyFree
  <2>2. \A l : Transfers(Plans[q], l) => ~(1 > l)
    <3>1. Len(Plans[q]) \in Nat
      BY PlansSound DEF SoundPlan
    <3> QED  BY <3>1 DEF Transfers
  <2> QED  BY <1>2, <1>3, <2>1, <2>2 DEF Held
<1>10. ASSUME NEW o \in Handlers \ {h} PROVE Held(o)'
  <2>1. CASE Running(o)'
    <3>1. Held(o)
      BY DEF Keeping
    <3> QED  BY <1>4, <2>1, <3>1, HeldApart
  <2>2. CASE ~Running(o)'
    BY <2>2 DEF Held, Running
  <2> QED  BY <2>1, <2>2
<1> QED  BY <1>6, <1>7, <1>8, <1>9, <1>10 DEF Keeping

LEMMA StepKeeping == ASSUME Shape, Keeping, NEW h \in Handlers, HandlerStep(h) PROVE Keeping'
<1>1. /\ Running(h) /\ past'.kind = past.kind
      /\ \A o \in Handlers \ {h} : handler'[o] = handler[o]
      /\ handler'[h].pc = 0 \/ Same(handler[h], handler'[h])
  BY OwnOnly
<1>2. \A o \in Handlers : Running(o)' => /\ Running(o) /\ handler'[o].with = handler[o].with
                                         /\ handler'[o].request = handler[o].request
  <2> SUFFICES ASSUME NEW o \in Handlers, Running(o)'
               PROVE  Running(o) /\ handler'[o].with = handler[o].with /\ handler'[o].request = handler[o].request
    OBVIOUS
  <2>1. CASE o = h
    BY <1>1, <2>1 DEF Running, Same
  <2>2. CASE o # h
    BY <1>1, <2>2 DEF Running
  <2> QED  BY <2>1, <2>2
<1>3. Solo'
  BY <1>2 DEF Keeping, Solo
<1>4. Sorted'
  BY <1>1, <1>2 DEF Keeping, Sorted
<1>5. OnlyFirst'
  <2> SUFFICES ASSUME past.kind # "tree", NEW e \in Names \ {Entries[1]} PROVE files'[<<"dest", e>>] = 0
    BY <1>1 DEF OnlyFirst
  <2>1. handler[h].request.entries = 1
    <3>1. handler[h].request \in Requests
      BY <1>1, HandlerFound DEF HandlerType
    <3> QED  BY <1>1, <3>1, OneEntry DEF Keeping, Sorted
  <2> QED  BY <2>1, OneOnly DEF Keeping, OnlyFirst
<1>6. Held(h)'
  <2>1. CASE Makes(handler[h].request) \/ (Looks(handler[h].request) /\ handler[h].with = {})
    BY <2>1, HeldStep
  <2>2. CASE ~(Makes(handler[h].request) \/ (Looks(handler[h].request) /\ handler[h].with = {}))
    BY <1>1, <2>2 DEF Held, Same
  <2> QED  BY <2>1, <2>2
<1>7. ASSUME NEW o \in Handlers \ {h} PROVE Held(o)'
  <2>1. CASE Running(o)
    <3>1. handler[o].with # {} /\ Held(o)
      BY <1>1, <2>1 DEF Keeping, Solo
    <3> QED  BY <1>1, <2>1, <3>1, HeldApart
  <2>2. CASE ~Running(o)
    BY <1>1, <2>2 DEF Held, Running
  <2> QED  BY <2>1, <2>2
<1> QED  BY <1>3, <1>4, <1>5, <1>6, <1>7 DEF Keeping

LEMMA KeepingStep == Shape /\ Keeping /\ [Next]_vars => Keeping'
<1> SUFFICES ASSUME Shape, Keeping, [Next]_vars PROVE Keeping'
  OBVIOUS
<1>1. CASE Crash
  <2>1. files' = files /\ past'.kind = past.kind /\ \A h \in Handlers : handler'[h].pc = 0
    BY <1>1 DEF Crash, Idle, Shape, PastType
  <2> QED  BY <2>1 DEF Keeping, Solo, Sorted, OnlyFirst, Held, Running
<1>2. CASE RemoteChanges
  <2>1. files' = files /\ past'.kind = past.kind /\ handler' = handler
    BY <1>2 DEF RemoteChanges, Shape, PastType
  <2> QED  BY <2>1 DEF Keeping, Solo, Sorted, OnlyFirst, Held, Running, Ready, Bare
<1>3. CASE UNCHANGED vars
  BY <1>3 DEF vars, Keeping, Solo, Sorted, OnlyFirst, Held, Running, Ready, Bare
<1> QED  BY <1>1, <1>2, <1>3, BeginKeeping, StepKeeping DEF Next

\* Without overwrite a request leaves alone what it did not make itself: under
\* any interleaving where it makes its files with O_EXCL (copyPath, create), and
\* while no other runs where it looks first (extract, restore, the transfers).
THEOREM KeepsExistingCorrect == Spec => KeepsExisting
<1> DEFINE Keep == \A h \in Handlers :
             LET q == handler[h].request IN
             (Running(h) /\ handler'[h] # handler[h] /\ (Makes(q) \/ (Looks(q) /\ handler[h].with = {})))
             => \A e \in Names :
                  LET i == files[<<"dest", e>>] IN
                  (i # 0 /\ i \notin handler[h].made) => files'[<<"dest", e>>] = i /\ data'[i] = data[i]
<1>1. Shape /\ Keeping /\ [Next]_vars => [Keep]_vars
  <2> SUFFICES ASSUME Shape, Keeping, Next, NEW h \in Handlers, handler'[h] # handler[h],
                      Makes(handler[h].request) \/ (Looks(handler[h].request) /\ handler[h].with = {})
               PROVE  Keeps(h)
    BY DEF Keeps
  <2>1. CASE HandlerStep(h)
    BY <2>1, HeldStep
  <2>2. ASSUME NEW o \in Handlers \ {h}, HandlerStep(o) PROVE FALSE
    BY <2>2, OwnOnly
  <2>3. CASE \E o \in Handlers, q \in Requests : Begin(o, q)
    BY <2>3 DEF Begin, Keeps
  <2>4. CASE Crash
    <3>1. files' = files /\ data' = [i \in Inodes |-> IF i \in Range(files) THEN data[i] ELSE <<>>]
      BY <2>4 DEF Crash
    <3>2. ASSUME NEW e \in Names, files[<<"dest", e>>] # 0
          PROVE  data'[files[<<"dest", e>>]] = data[files[<<"dest", e>>]]
      <4>1. <<"dest", e>> \in Paths /\ files \in [Paths -> Inodes \cup {0}]
        BY DEF Paths, Shape
      <4>2. files[<<"dest", e>>] \in Inodes /\ files[<<"dest", e>>] \in Range(files)
        BY <3>2, <4>1 DEF Range
      <4> QED  BY <3>1, <4>2
    <3> QED  BY <3>1, <3>2 DEF Keeps
  <2>5. CASE RemoteChanges
    BY <2>5 DEF RemoteChanges
  <2> QED  BY <2>1, <2>2, <2>3, <2>4, <2>5 DEF Next
<1>2. [][Keep]_vars => KeepsExisting
  BY PTL DEF KeepsExisting
<1> QED  BY <1>1, <1>2, InitKeeping, KeepingStep, ShapeHolds, PTL DEF Spec
=============================================================================
