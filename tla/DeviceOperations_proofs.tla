---------------------- MODULE DeviceOperations_proofs ----------------------
(***************************************************************************)
(* What TLAPS proves of DeviceOperations for any callers: the types, that  *)
(* a verified answer was right, that no install leaves a session open, and *)
(* that a refused request has changed nothing.                             *)
(*                                                                         *)
(* The plans are few and fixed, the callers are not.  A first part states  *)
(* of each plan what the invariants need to know of it; the invariants are *)
(* then proved of any plan of which that is so.                            *)
(***************************************************************************)
EXTENDS DeviceOperations, SequenceTheorems, TLAPS

(* What an effect, a step and a plan are.                                  *)

\* The cells that always hold one value, since commands only set them.
Values == {"night", "background", "mock", "appop"}

FineEffect(c, e) ==
    /\ e.keep \in {"nothing", "cell", "list", "flag"}
    /\ e.cell = "sessions" => e.keep = "cell" /\ e.add \subseteq {c} /\ e.drop \subseteq {c}
    /\ e.cell \in Values => e.keep = "nothing" /\ \E v : v # "it.longer" /\ e.add = {v}

\* A command changes the list of services or its flag, not both.
FineEffects(c, E) ==
    /\ \A e \in E : FineEffect(c, e)
    /\ ~(\E e1, e2 \in E : e1.cell = "accessibility" /\ e2.cell = "accessibility_flag")

StepFields == {"kind", "variants", "test", "code", "next", "orElse", "unread", "background"}

FineStep(c, s) ==
    /\ DOMAIN s = StepFields
    /\ s.kind \in {"run", "check", "remember", "own", "parse"}
    /\ DOMAIN s.variants = 1..Len(s.variants) /\ Len(s.variants) \in Nat
    /\ s.kind # "check" => Len(s.variants) > 0
    /\ s.kind = "remember" => s.variants[1] # {}
    /\ \A i \in 1..Len(s.variants) : FineEffects(c, s.variants[i])
    /\ s.next \in Nat /\ s.orElse \in Nat
    /\ s.code \in Answers \ {"none"}

\* A step that no plan but those of private DNS, a recording and the removal
\* of a Systemless target differs from.
Plain(c, s) == FineStep(c, s) /\ s.kind # "remember" /\ s.code \notin {"invalid", "done"}

Steady(c, q) ==
    /\ DOMAIN q = 1..Len(q) /\ Len(q) \in Nat /\ Len(q) > 0
    /\ \A i \in 1..Len(q) : Plain(c, q[i])

FineSteps(c, q) ==
    /\ DOMAIN q = 1..Len(q) /\ Len(q) \in Nat /\ Len(q) > 0
    /\ \A i \in 1..Len(q) : FineStep(c, q[i]) /\ (q[i].kind = "remember" => i < Len(q))

\* Only the first step refuses the arguments, and it has no effect.
Prompt(q) == \A i \in 1..Len(q) :
    q[i].code = "invalid" => i = 1 /\ q[i].kind = "own" /\ q[i].variants = <<{}>>

\* A step that leads on only if a goal holds then, and that no step jumps over.
Proves(s, g) ==
    \/ /\ s.kind = "check" /\ ~s.unread /\ s.orElse = 0
       /\ \/ s.test = g
          \/ \E v : g = Lacks(g.cell, v) /\ s.test = Omits(g.cell, v)
          \/ \E v : /\ v # "it" /\ g.cell \in Values /\ g = Is(g.cell, v) /\ s.test = Prints(g.cell, v)
          \/ /\ s.variants = <<{Effect(g.cell, "nothing", g.v, {})}>> /\ g.how = "is" /\ g.exact
    \/ /\ s.kind = "own" /\ s.code = "partial"
       /\ s.variants = <<{Effect(g.cell, "nothing", g.v, {})}>> /\ g.how = "is" /\ g.exact
Reached(q, i) == \A j \in 1..(i - 1) : j + q[j].next <= i /\ j + q[j].orElse <= i

Guards(q, goals) == \A g \in goals : \E i \in 1..Len(q) : Proves(q[i], g) /\ Reached(q, i)

\* What the tables of the tools are shown to hold.
PlanFields == {"steps", "goals", "cells", "claims"}
SoundPlan(c, p) ==
    /\ DOMAIN p = PlanFields
    /\ FineSteps(c, p.steps)
    /\ p.claims \in BOOLEAN
PromptPlan(c, p) == SoundPlan(c, p) /\ Prompt(p.steps)
Guarded(p) == Guards(p.steps, p.goals) /\ \A i \in 1..Len(p.steps) : p.steps[i].code # "done"
PlainPlan(c, p)  == PromptPlan(c, p) /\ (p.claims => Guarded(p))


\* The tuples that the plans are put together from.
LEMMA Joins ==
    /\ \A a, b : <<a>> \o <<b>> = <<a, b>>
    /\ \A a, b, c : <<a, b>> \o <<c>> = <<a, b, c>>
    /\ \A a, b, c : <<a>> \o <<b, c>> = <<a, b, c>>
    /\ \A a, b, c, d : <<a, b>> \o <<c, d>> = <<a, b, c, d>>
    /\ \A a, b, c, d, e : <<a, b, c>> \o <<d, e>> = <<a, b, c, d, e>>
    /\ \A a, b, c, d, e, f : <<a, b, c, d>> \o <<e, f>> = <<a, b, c, d, e, f>>
    /\ \A a, b, c, d, e, f, g : <<a>> \o <<b, c, d, e, f, g>> = <<a, b, c, d, e, f, g>>
    /\ \A a, b, c, d, e, f, g, h : <<a, b, c, d, e, f, g>> \o <<h>> = <<a, b, c, d, e, f, g, h>>
    /\ \A a, b, c, d, e, f, g, h : <<a, b>> \o <<c, d, e, f, g, h>> = <<a, b, c, d, e, f, g, h>>
    /\ \A a, b, c, d, e, f, g, h, i : <<a, b, c, d, e, f, g>> \o <<h, i>> = <<a, b, c, d, e, f, g, h, i>>
    /\ \A a, b, c, d, e, f, g, h, i, j, k :
         <<a, b, c, d, e, f, g, h>> \o <<i, j, k>> = <<a, b, c, d, e, f, g, h, i, j, k>>
<1>1. ASSUME NEW a, NEW b PROVE <<a>> \o <<b>> = <<a, b>>
  <2> DEFINE S == {a, b}
  <2>1. <<a>> \in Seq(S) /\ <<b>> \in Seq(S) /\ <<a, b>> \in Seq(S)
    OBVIOUS
  <2>2. /\ <<a>> \o <<b>> \in Seq(S) /\ Len(<<a>> \o <<b>>) = 2
        /\ \A n \in 1..2 : (<<a>> \o <<b>>)[n] = <<a, b>>[n]
    BY <2>1
  <2> QED  BY <2>1, <2>2, SeqEqual
<1>2. ASSUME NEW a, NEW b, NEW c PROVE <<a, b>> \o <<c>> = <<a, b, c>>
  <2> DEFINE S == {a, b, c}
  <2>1. <<a, b>> \in Seq(S) /\ <<c>> \in Seq(S) /\ <<a, b, c>> \in Seq(S)
    OBVIOUS
  <2>2. /\ <<a, b>> \o <<c>> \in Seq(S) /\ Len(<<a, b>> \o <<c>>) = 3
        /\ \A n \in 1..3 : (<<a, b>> \o <<c>>)[n] = <<a, b, c>>[n]
    BY <2>1
  <2> QED  BY <2>1, <2>2, SeqEqual
<1>3. ASSUME NEW a, NEW b, NEW c PROVE <<a>> \o <<b, c>> = <<a, b, c>>
  <2> DEFINE S == {a, b, c}
  <2>1. <<a>> \in Seq(S) /\ <<b, c>> \in Seq(S) /\ <<a, b, c>> \in Seq(S)
    OBVIOUS
  <2>2. /\ <<a>> \o <<b, c>> \in Seq(S) /\ Len(<<a>> \o <<b, c>>) = 3
        /\ \A n \in 1..3 : (<<a>> \o <<b, c>>)[n] = <<a, b, c>>[n]
    BY <2>1
  <2> QED  BY <2>1, <2>2, SeqEqual
<1>4. ASSUME NEW a, NEW b, NEW c, NEW d PROVE <<a, b>> \o <<c, d>> = <<a, b, c, d>>
  <2> DEFINE S == {a, b, c, d}
  <2>1. <<a, b>> \in Seq(S) /\ <<c, d>> \in Seq(S) /\ <<a, b, c, d>> \in Seq(S)
    OBVIOUS
  <2>2. /\ <<a, b>> \o <<c, d>> \in Seq(S) /\ Len(<<a, b>> \o <<c, d>>) = 4
        /\ \A n \in 1..4 : (<<a, b>> \o <<c, d>>)[n] = <<a, b, c, d>>[n]
    BY <2>1
  <2> QED  BY <2>1, <2>2, SeqEqual
<1>5. ASSUME NEW a, NEW b, NEW c, NEW d, NEW e PROVE <<a, b, c>> \o <<d, e>> = <<a, b, c, d, e>>
  <2> DEFINE S == {a, b, c, d, e}
  <2>1. <<a, b, c>> \in Seq(S) /\ <<d, e>> \in Seq(S) /\ <<a, b, c, d, e>> \in Seq(S)
    OBVIOUS
  <2>2. /\ <<a, b, c>> \o <<d, e>> \in Seq(S) /\ Len(<<a, b, c>> \o <<d, e>>) = 5
        /\ \A n \in 1..5 : (<<a, b, c>> \o <<d, e>>)[n] = <<a, b, c, d, e>>[n]
    BY <2>1
  <2> QED  BY <2>1, <2>2, SeqEqual
<1>6. ASSUME NEW a, NEW b, NEW c, NEW d, NEW e, NEW f PROVE <<a, b, c, d>> \o <<e, f>> = <<a, b, c, d, e, f>>
  <2> DEFINE S == {a, b, c, d, e, f}
  <2>1. <<a, b, c, d>> \in Seq(S) /\ <<e, f>> \in Seq(S) /\ <<a, b, c, d, e, f>> \in Seq(S)
    OBVIOUS
  <2>2. /\ <<a, b, c, d>> \o <<e, f>> \in Seq(S) /\ Len(<<a, b, c, d>> \o <<e, f>>) = 6
        /\ \A n \in 1..6 : (<<a, b, c, d>> \o <<e, f>>)[n] = <<a, b, c, d, e, f>>[n]
    BY <2>1
  <2> QED  BY <2>1, <2>2, SeqEqual
<1>7. ASSUME NEW a, NEW b, NEW c, NEW d, NEW e, NEW f, NEW g PROVE <<a>> \o <<b, c, d, e, f, g>> = <<a, b, c, d, e, f, g>>
  <2> DEFINE S == {a, b, c, d, e, f, g}
  <2>1. <<a>> \in Seq(S) /\ <<b, c, d, e, f, g>> \in Seq(S) /\ <<a, b, c, d, e, f, g>> \in Seq(S)
    OBVIOUS
  <2>2. /\ <<a>> \o <<b, c, d, e, f, g>> \in Seq(S) /\ Len(<<a>> \o <<b, c, d, e, f, g>>) = 7
        /\ \A n \in 1..7 : (<<a>> \o <<b, c, d, e, f, g>>)[n] = <<a, b, c, d, e, f, g>>[n]
    BY <2>1
  <2> QED  BY <2>1, <2>2, SeqEqual
<1>8. ASSUME NEW a, NEW b, NEW c, NEW d, NEW e, NEW f, NEW g, NEW h PROVE <<a, b, c, d, e, f, g>> \o <<h>> = <<a, b, c, d, e, f, g, h>>
  <2> DEFINE S == {a, b, c, d, e, f, g, h}
  <2>1. <<a, b, c, d, e, f, g>> \in Seq(S) /\ <<h>> \in Seq(S) /\ <<a, b, c, d, e, f, g, h>> \in Seq(S)
    OBVIOUS
  <2>2. /\ <<a, b, c, d, e, f, g>> \o <<h>> \in Seq(S) /\ Len(<<a, b, c, d, e, f, g>> \o <<h>>) = 8
        /\ \A n \in 1..8 : (<<a, b, c, d, e, f, g>> \o <<h>>)[n] = <<a, b, c, d, e, f, g, h>>[n]
    BY <2>1
  <2> QED  BY <2>1, <2>2, SeqEqual
<1>9. ASSUME NEW a, NEW b, NEW c, NEW d, NEW e, NEW f, NEW g, NEW h PROVE <<a, b>> \o <<c, d, e, f, g, h>> = <<a, b, c, d, e, f, g, h>>
  <2> DEFINE S == {a, b, c, d, e, f, g, h}
  <2>1. <<a, b>> \in Seq(S) /\ <<c, d, e, f, g, h>> \in Seq(S) /\ <<a, b, c, d, e, f, g, h>> \in Seq(S)
    OBVIOUS
  <2>2. /\ <<a, b>> \o <<c, d, e, f, g, h>> \in Seq(S) /\ Len(<<a, b>> \o <<c, d, e, f, g, h>>) = 8
        /\ \A n \in 1..8 : (<<a, b>> \o <<c, d, e, f, g, h>>)[n] = <<a, b, c, d, e, f, g, h>>[n]
    BY <2>1
  <2> QED  BY <2>1, <2>2, SeqEqual
<1>10. ASSUME NEW a, NEW b, NEW c, NEW d, NEW e, NEW f, NEW g, NEW h, NEW i
      PROVE  <<a, b, c, d, e, f, g>> \o <<h, i>> = <<a, b, c, d, e, f, g, h, i>>
  <2> DEFINE S == {a, b, c, d, e, f, g, h, i}
  <2>1. <<a, b, c, d, e, f, g>> \in Seq(S) /\ <<h, i>> \in Seq(S) /\ <<a, b, c, d, e, f, g, h, i>> \in Seq(S)
    OBVIOUS
  <2>2. /\ <<a, b, c, d, e, f, g>> \o <<h, i>> \in Seq(S) /\ Len(<<a, b, c, d, e, f, g>> \o <<h, i>>) = 9
        /\ \A n \in 1..9 : (<<a, b, c, d, e, f, g>> \o <<h, i>>)[n] = <<a, b, c, d, e, f, g, h, i>>[n]
    BY <2>1
  <2> QED  BY <2>1, <2>2, SeqEqual
<1>11. ASSUME NEW a, NEW b, NEW c, NEW d, NEW e, NEW f, NEW g, NEW h, NEW i, NEW j, NEW k
      PROVE  <<a, b, c, d, e, f, g, h>> \o <<i, j, k>> = <<a, b, c, d, e, f, g, h, i, j, k>>
  <2> DEFINE S == {a, b, c, d, e, f, g, h, i, j, k}
  <2>1. <<a, b, c, d, e, f, g, h>> \in Seq(S) /\ <<i, j, k>> \in Seq(S) /\ <<a, b, c, d, e, f, g, h, i, j, k>> \in Seq(S)
    OBVIOUS
  <2>2. /\ <<a, b, c, d, e, f, g, h>> \o <<i, j, k>> \in Seq(S) /\ Len(<<a, b, c, d, e, f, g, h>> \o <<i, j, k>>) = 11
        /\ \A n \in 1..11 : (<<a, b, c, d, e, f, g, h>> \o <<i, j, k>>)[n] = <<a, b, c, d, e, f, g, h, i, j, k>>[n]
    BY <2>1
  <2> QED  BY <2>1, <2>2, SeqEqual
<1> QED  BY <1>1, <1>2, <1>3, <1>4, <1>5, <1>6, <1>7, <1>8, <1>9, <1>10, <1>11

----------------------------------------------------------------------------
(* The steps that the constructors make.                                   *)

LEMMA EffectFacts ==
    ASSUME NEW c
    PROVE  /\ \A cell, v : cell \notin Values \cup {"sessions"} =>
                /\ FineEffects(c, Set(cell, v)) /\ FineEffects(c, Clear(cell))
                /\ FineEffects(c, Join(cell, v)) /\ FineEffects(c, Leave(cell, v))
           /\ \A cell, v : cell # "sessions" /\ v # "it.longer" => FineEffects(c, Set(cell, v))
           /\ FineEffects(c, Join("sessions", c)) /\ FineEffects(c, Leave("sessions", c))
           /\ FineEffects(c, Leave("sessions", c) \cup Join("packages", "it"))
           /\ FineEffects(c, {})
BY DEF Set, Clear, Join, Leave, Effect, FineEffects, FineEffect, Values

\* The fields of what each constructor makes.
IsStep(s, kind, variants, test, code) ==
    /\ DOMAIN s = StepFields /\ s.kind = kind /\ s.variants = variants /\ s.test = test /\ s.code = code
    /\ s.next = 1 /\ s.orElse = 0 /\ s.unread = FALSE /\ s.background = FALSE

LEMMA StepMade ==
    /\ \A E : /\ IsStep(Run(E), "run", <<E>>, NoTest, "failed")
              /\ IsStep(Run2(E), "run", <<E, E>>, NoTest, "failed")
              /\ IsStep(Own(E), "own", <<E>>, NoTest, "failed")
              /\ IsStep(CheckWritten(E), "check", <<E>>, NoTest, "verify_failed")
              /\ IsStep(Remember(E), "remember", <<E>>, NoTest, "failed")
    /\ \A E, F : IsStep(RunEither(E, F), "run", <<E, F>>, NoTest, "failed")
    /\ \A t : IsStep(Check(t), "check", <<>>, t, "verify_failed")
    /\ IsStep(Local, "own", <<{}>>, NoTest, "failed")
    /\ IsStep(Parse, "parse", <<{}>>, NoTest, "failed")
    /\ IsStep(Argument, "own", <<{}>>, NoTest, "invalid")
BY DEF IsStep, Run, Run2, RunEither, Own, CheckWritten, Remember, Check, Local, Parse, Argument, Step, StepFields

LEMMA StepChanged ==
    /\ \A s, k : DOMAIN s = StepFields =>
         /\ LET t == Then(s, k) IN
            /\ DOMAIN t = StepFields /\ t.kind = s.kind /\ t.variants = s.variants /\ t.test = s.test /\ t.code = s.code
            /\ t.next = k /\ t.orElse = s.orElse /\ t.unread = s.unread /\ t.background = s.background
         /\ LET t == Otherwise(s, k) IN
            /\ DOMAIN t = StepFields /\ t.kind = s.kind /\ t.variants = s.variants /\ t.test = s.test /\ t.code = s.code
            /\ t.next = s.next /\ t.orElse = k /\ t.unread = s.unread /\ t.background = s.background
         /\ LET t == Answering(s, k) IN
            /\ DOMAIN t = StepFields /\ t.kind = s.kind /\ t.variants = s.variants /\ t.test = s.test /\ t.code = k
            /\ t.next = s.next /\ t.orElse = s.orElse /\ t.unread = s.unread /\ t.background = s.background
         /\ LET t == [s EXCEPT !.background = k] IN
            /\ DOMAIN t = StepFields /\ t.kind = s.kind /\ t.variants = s.variants /\ t.test = s.test /\ t.code = s.code
            /\ t.next = s.next /\ t.orElse = s.orElse /\ t.unread = s.unread /\ t.background = k
         /\ LET t == [s EXCEPT !.unread = k] IN
            /\ DOMAIN t = StepFields /\ t.kind = s.kind /\ t.variants = s.variants /\ t.test = s.test /\ t.code = s.code
            /\ t.next = s.next /\ t.orElse = s.orElse /\ t.unread = k /\ t.background = s.background
BY DEF Then, Otherwise, Answering, StepFields

Codes == Answers \ {"none", "invalid", "done"}

LEMMA MadePlain ==
    ASSUME NEW c
    PROVE  /\ \A E : FineEffects(c, E) =>
                Plain(c, Run(E)) /\ Plain(c, Run2(E)) /\ Plain(c, Own(E)) /\ Plain(c, CheckWritten(E))
           /\ \A E, F : FineEffects(c, E) /\ FineEffects(c, F) => Plain(c, RunEither(E, F))
           /\ \A t : Plain(c, Check(t)) /\ Plain(c, CheckUnread(t))
           /\ Plain(c, Local) /\ Plain(c, Parse)
<1>1. ASSUME NEW s, NEW kind \in {"run", "own", "parse", "check"}, NEW t, NEW code \in Codes, NEW v,
             DOMAIN v = 1..Len(v), Len(v) \in Nat, kind # "check" => Len(v) > 0,
             \A i \in 1..Len(v) : FineEffects(c, v[i]), IsStep(s, kind, v, t, code)
      PROVE  Plain(c, s)
  BY <1>1 DEF Plain, FineStep, Codes, IsStep
<1>2. FineEffects(c, {}) /\ {"failed", "verify_failed"} \subseteq Codes
  BY EffectFacts DEF Codes, Answers
<1>3. ASSUME NEW E, FineEffects(c, E)
      PROVE  Plain(c, Run(E)) /\ Plain(c, Run2(E)) /\ Plain(c, Own(E)) /\ Plain(c, CheckWritten(E))
  <2> DEFINE u == <<E>>
             w == <<E, E>>
  <2>1. /\ DOMAIN u = 1..Len(u) /\ Len(u) \in Nat /\ Len(u) > 0 /\ \A i \in 1..Len(u) : FineEffects(c, u[i])
        /\ DOMAIN w = 1..Len(w) /\ Len(w) \in Nat /\ Len(w) > 0 /\ \A i \in 1..Len(w) : FineEffects(c, w[i])
    BY <1>3
  <2>2. /\ IsStep(Run(E), "run", u, NoTest, "failed") /\ IsStep(Run2(E), "run", w, NoTest, "failed")
        /\ IsStep(Own(E), "own", u, NoTest, "failed")
        /\ IsStep(CheckWritten(E), "check", u, NoTest, "verify_failed")
    BY StepMade
  <2> HIDE DEF u, w
  <2> QED  BY <1>1, <1>2, <2>1, <2>2
<1>4. ASSUME NEW E, NEW F, FineEffects(c, E), FineEffects(c, F) PROVE Plain(c, RunEither(E, F))
  <2> DEFINE w == <<E, F>>
  <2>1. DOMAIN w = 1..Len(w) /\ Len(w) \in Nat /\ Len(w) > 0 /\ \A i \in 1..Len(w) : FineEffects(c, w[i])
    BY <1>4
  <2>2. IsStep(RunEither(E, F), "run", w, NoTest, "failed")
    BY StepMade
  <2> HIDE DEF w
  <2> QED  BY <1>1, <1>2, <2>1, <2>2
<1>5. ASSUME NEW t PROVE Plain(c, Check(t))
  <2> DEFINE w == <<>>
  <2>1. DOMAIN w = 1..Len(w) /\ Len(w) \in Nat /\ \A i \in 1..Len(w) : FineEffects(c, w[i])
    OBVIOUS
  <2>2. IsStep(Check(t), "check", w, t, "verify_failed")
    BY StepMade
  <2> HIDE DEF w
  <2> QED  BY <1>1, <1>2, <2>1, <2>2
<1>6. \A s : Plain(c, s) => Plain(c, [s EXCEPT !.unread = TRUE])
  BY StepChanged DEF Plain, FineStep
<1>7. \A t : Plain(c, CheckUnread(t))
  BY <1>5, <1>6 DEF CheckUnread
<1>8. Plain(c, Local) /\ Plain(c, Parse)
  <2>1. Plain(c, Local)
    BY <1>2, <1>3 DEF Local
  <2>2. IsStep(Parse, "parse", <<{}>>, NoTest, "failed")
    BY StepMade
  <2> DEFINE u == <<{}>>
  <2>3. DOMAIN u = 1..Len(u) /\ Len(u) \in Nat /\ Len(u) > 0 /\ \A i \in 1..Len(u) : FineEffects(c, u[i])
    BY <1>2
  <2>4. IsStep(Parse, "parse", u, NoTest, "failed")
    BY <2>2
  <2> HIDE DEF u
  <2> QED  BY <1>1, <1>2, <2>1, <2>3, <2>4
<1> QED  BY <1>3, <1>4, <1>5, <1>7, <1>8

LEMMA ChangedPlain ==
    ASSUME NEW c, NEW s, Plain(c, s)
    PROVE  /\ \A k \in Nat : Plain(c, Then(s, k)) /\ Plain(c, Otherwise(s, k))
           /\ \A code \in Codes : Plain(c, Answering(s, code))
           /\ Plain(c, Whatever(s)) /\ Plain(c, Collected(s))
           /\ \A flag : Plain(c, [s EXCEPT !.background = flag])
<1>1. \A x : Plain(c, x) => \A k \in Nat : Plain(c, Then(x, k)) /\ Plain(c, Otherwise(x, k))
  BY StepChanged DEF Plain, FineStep
<1>2. \A x : Plain(c, x) => \A code \in Codes : Plain(c, Answering(x, code))
  BY StepChanged DEF Plain, FineStep, Codes
<1>3. Plain(c, Whatever(s))
  BY <1>1 DEF Whatever, Plain, FineStep
<1>4. Plain(c, Collected(s))
  BY <1>2, <1>3 DEF Collected, Codes, Answers
<1>5. \A flag : Plain(c, [s EXCEPT !.background = flag])
  BY StepChanged DEF Plain, FineStep
<1> QED  BY <1>1, <1>2, <1>3, <1>4, <1>5

LEMMA Steadies ==
    ASSUME NEW c
    PROVE  /\ \A s1 : Plain(c, s1) => Steady(c, <<s1>>)
           /\ \A s1, s2 : Plain(c, s1) /\ Plain(c, s2) => Steady(c, <<s1, s2>>)
           /\ \A s1, s2, s3 : Plain(c, s1) /\ Plain(c, s2) /\ Plain(c, s3) => Steady(c, <<s1, s2, s3>>)
           /\ \A s1, s2, s3, s4 : Plain(c, s1) /\ Plain(c, s2) /\ Plain(c, s3) /\ Plain(c, s4)
                => Steady(c, <<s1, s2, s3, s4>>)
           /\ \A s1, s2, s3, s4, s5 : Plain(c, s1) /\ Plain(c, s2) /\ Plain(c, s3) /\ Plain(c, s4) /\ Plain(c, s5)
                => Steady(c, <<s1, s2, s3, s4, s5>>)
           /\ \A s1, s2, s3, s4, s5, s6 :
                Plain(c, s1) /\ Plain(c, s2) /\ Plain(c, s3) /\ Plain(c, s4) /\ Plain(c, s5) /\ Plain(c, s6)
                => Steady(c, <<s1, s2, s3, s4, s5, s6>>)
BY DEF Steady

LEMMA PlanFieldsMade ==
    \A q, goals :
        /\ DOMAIN Plan(q, goals) = PlanFields /\ Plan(q, goals).steps = q /\ Plan(q, goals).goals = goals
        /\ Plan(q, goals).claims = FALSE
        /\ DOMAIN Claiming(q, goals) = PlanFields /\ Claiming(q, goals).steps = q
        /\ Claiming(q, goals).goals = goals /\ Claiming(q, goals).claims = TRUE
<1> TAKE q, goals
<1>1. /\ DOMAIN Plan(q, goals) = PlanFields /\ Plan(q, goals).steps = q /\ Plan(q, goals).goals = goals
      /\ Plan(q, goals).claims = FALSE
  BY DEF Plan, PlanFields
<1>2. /\ DOMAIN Claiming(q, goals) = PlanFields /\ Claiming(q, goals).steps = q
      /\ Claiming(q, goals).goals = goals /\ Claiming(q, goals).claims = TRUE
  BY <1>1 DEF Claiming, PlanFields
<1> QED  BY <1>1, <1>2

LEMMA PlanMade ==
    ASSUME NEW c, NEW q, NEW goals
    PROVE  /\ FineSteps(c, q) => SoundPlan(c, Plan(q, goals)) /\ SoundPlan(c, Claiming(q, goals))
           /\ Steady(c, q) => /\ PlainPlan(c, Plan(q, goals)) /\ PromptPlan(c, Claiming(q, goals))
                              /\ Guards(q, goals) => PlainPlan(c, Claiming(q, goals))
<1>1. DOMAIN Plan(q, goals) = PlanFields /\ Plan(q, goals).steps = q /\ Plan(q, goals).claims = FALSE
  BY PlanFieldsMade
<1>2. /\ DOMAIN Claiming(q, goals) = PlanFields /\ Claiming(q, goals).steps = q
      /\ Claiming(q, goals).goals = goals /\ Claiming(q, goals).claims = TRUE
  BY PlanFieldsMade
<1>3. FineSteps(c, q) => SoundPlan(c, Plan(q, goals)) /\ SoundPlan(c, Claiming(q, goals))
  BY <1>1, <1>2 DEF SoundPlan
<1>4. Steady(c, q) => FineSteps(c, q) /\ Prompt(q) /\ \A i \in 1..Len(q) : q[i].code # "done"
  BY DEF Steady, FineSteps, Plain, Prompt
<1>5. Steady(c, q) => PlainPlan(c, Plan(q, goals)) /\ PromptPlan(c, Claiming(q, goals))
  BY <1>1, <1>2, <1>3, <1>4 DEF PlainPlan, PromptPlan
<1>6. Steady(c, q) /\ Guards(q, goals) => PlainPlan(c, Claiming(q, goals))
  BY <1>2, <1>3, <1>4 DEF PlainPlan, PromptPlan, Guarded
<1> QED  BY <1>3, <1>5, <1>6

(* Plans of a few steps.                                                   *)

\* A step after which the plan goes on or ends.
Straight(c, s) == Plain(c, s) /\ s.next = 1 /\ s.orElse = 0

\* A cell that no invariant looks into.
Free(cell) == cell \notin Values \cup {"sessions"}

LEMMA Commands ==
    ASSUME NEW c
    PROVE  /\ \A E : FineEffects(c, E) => Straight(c, Run(E)) /\ Straight(c, Run2(E)) /\ Straight(c, Own(E))
                                            /\ Straight(c, CheckWritten(E))
           /\ \A cell, v : Free(cell) =>
                /\ FineEffects(c, Set(cell, v)) /\ FineEffects(c, Clear(cell))
                /\ FineEffects(c, Join(cell, v)) /\ FineEffects(c, Leave(cell, v))
           /\ \A cell, v : cell # "sessions" /\ v # "it.longer" => FineEffects(c, Set(cell, v))
           /\ \A t : Straight(c, Check(t)) /\ Plain(c, CheckUnread(t)) /\ Plain(c, Whatever(Check(t)))
           /\ Straight(c, Local) /\ Straight(c, Parse)
<1>1. \A E : FineEffects(c, E) => Straight(c, Run(E)) /\ Straight(c, Run2(E)) /\ Straight(c, Own(E))
                                            /\ Straight(c, CheckWritten(E))
  <2> TAKE E
  <2> HAVE FineEffects(c, E)
  <2>1. Plain(c, Run(E)) /\ Plain(c, Run2(E)) /\ Plain(c, Own(E)) /\ Plain(c, CheckWritten(E))
    BY MadePlain
  <2>2. Run(E).next = 1 /\ Run2(E).next = 1 /\ Own(E).next = 1 /\ CheckWritten(E).next = 1
    BY StepMade DEF IsStep
  <2>3. Run(E).orElse = 0 /\ Run2(E).orElse = 0 /\ Own(E).orElse = 0 /\ CheckWritten(E).orElse = 0
    BY StepMade DEF IsStep
  <2> QED  BY <2>1, <2>2, <2>3 DEF Straight
<1>2. \A cell, v : Free(cell) =>
        /\ FineEffects(c, Set(cell, v)) /\ FineEffects(c, Clear(cell))
        /\ FineEffects(c, Join(cell, v)) /\ FineEffects(c, Leave(cell, v))
  BY EffectFacts DEF Free
<1>3. \A cell, v : cell # "sessions" /\ v # "it.longer" => FineEffects(c, Set(cell, v))
  BY EffectFacts
<1>4. ASSUME NEW t PROVE Straight(c, Check(t)) /\ Plain(c, CheckUnread(t)) /\ Plain(c, Whatever(Check(t)))
  <2>1. Plain(c, Check(t)) /\ Plain(c, CheckUnread(t))
    BY MadePlain
  <2>2. Check(t).next = 1 /\ Check(t).orElse = 0
    BY StepMade DEF IsStep
  <2>3. Plain(c, Whatever(Check(t)))
    BY <2>1, ChangedPlain
  <2> QED  BY <2>1, <2>2, <2>3 DEF Straight
<1>5. Straight(c, Local) /\ Straight(c, Parse)
  BY MadePlain, StepMade DEF Straight, IsStep
<1> QED  BY <1>1, <1>2, <1>3, <1>4, <1>5

LEMMA PlainPlans ==
    ASSUME NEW c, NEW goals
    PROVE  /\ \A s : Plain(c, s) => PlainPlan(c, Plan(<<s>>, goals))
           /\ \A s1, s2 : Plain(c, s1) /\ Plain(c, s2) => PlainPlan(c, Plan(<<s1, s2>>, goals))
           /\ \A s1, s2, s3 : Plain(c, s1) /\ Plain(c, s2) /\ Plain(c, s3) => PlainPlan(c, Plan(<<s1, s2, s3>>, goals))
           /\ \A s1, s2, s3, s4 : Plain(c, s1) /\ Plain(c, s2) /\ Plain(c, s3) /\ Plain(c, s4)
                => PlainPlan(c, Plan(<<s1, s2, s3, s4>>, goals))
           /\ \A s1, s2, s3, s4, s5 : Plain(c, s1) /\ Plain(c, s2) /\ Plain(c, s3) /\ Plain(c, s4) /\ Plain(c, s5)
                => PlainPlan(c, Plan(<<s1, s2, s3, s4, s5>>, goals))
           /\ \A s1, s2, s3, s4, s5, s6 :
                Plain(c, s1) /\ Plain(c, s2) /\ Plain(c, s3) /\ Plain(c, s4) /\ Plain(c, s5) /\ Plain(c, s6)
                => PlainPlan(c, Plan(<<s1, s2, s3, s4, s5, s6>>, goals))
           /\ PlainPlan(c, Query)
<1>1. \A q : Steady(c, q) => PlainPlan(c, Plan(q, goals))
  BY PlanMade
<1>2. PlainPlan(c, Query)
  <2>1. Steady(c, <<Check(NoTest)>>)
    BY Steadies, Commands DEF Straight
  <2> QED  BY <2>1, PlanMade DEF Query
<1> QED  BY <1>1, <1>2, Steadies

LEMMA ProvesFacts ==
    /\ \A g : Proves(Check(g), g)
    /\ \A cell, v : /\ Proves(CheckWritten(Set(cell, v)), Is(cell, v))
                    /\ Proves(CheckWritten(Clear(cell)), Gone(cell))
                    /\ Proves(Check(Omits(cell, v)), Lacks(cell, v))
                    /\ cell \in Values /\ v # "it" => Proves(Check(Prints(cell, v)), Is(cell, v))
                    /\ Proves(Answering(Own(Set(cell, v)), "partial"), Is(cell, v))
                    /\ Proves(Collected(Own(Clear(cell))), Gone(cell))
<1>1. \A t : /\ Check(t).kind = "check" /\ Check(t).unread = FALSE /\ Check(t).orElse = 0 /\ Check(t).test = t
             /\ Check(t).variants = <<>>
  BY StepMade DEF IsStep
<1>2. \A E : /\ CheckWritten(E).kind = "check" /\ CheckWritten(E).unread = FALSE /\ CheckWritten(E).orElse = 0
             /\ CheckWritten(E).variants = <<E>>
  BY StepMade DEF IsStep
<1>3. ASSUME NEW g PROVE Proves(Check(g), g)
  BY <1>1 DEF Proves
<1>4. ASSUME NEW cell, NEW v
      PROVE  /\ Proves(CheckWritten(Set(cell, v)), Is(cell, v))
             /\ Proves(CheckWritten(Clear(cell)), Gone(cell))
  BY <1>2 DEF Proves, Set, Clear, Is, Gone, Test
<1>5. ASSUME NEW cell, NEW v PROVE Proves(Check(Omits(cell, v)), Lacks(cell, v))
  <2>1. Lacks(cell, v).cell = cell
    BY DEF Lacks, Test
  <2> QED  BY <1>1, <2>1 DEF Proves
<1>6. ASSUME NEW cell \in Values, NEW v, v # "it" PROVE Proves(Check(Prints(cell, v)), Is(cell, v))
  <2>1. Is(cell, v).cell = cell
    BY DEF Is, Test
  <2> QED  BY <1>1, <1>6, <2>1 DEF Proves
<1>7. ASSUME NEW E PROVE /\ Answering(Own(E), "partial").kind = "own" /\ Collected(Own(E)).kind = "own"
                         /\ Answering(Own(E), "partial").code = "partial" /\ Collected(Own(E)).code = "partial"
                         /\ Answering(Own(E), "partial").variants = <<E>> /\ Collected(Own(E)).variants = <<E>>
  <2>1. DOMAIN Own(E) = StepFields /\ Own(E).kind = "own" /\ Own(E).variants = <<E>>
    BY StepMade DEF IsStep
  <2>2. /\ DOMAIN Whatever(Own(E)) = StepFields /\ Whatever(Own(E)).kind = "own"
        /\ Whatever(Own(E)).variants = <<E>>
    BY <2>1, StepChanged DEF Whatever
  <2> QED  BY <2>1, <2>2, StepChanged DEF Collected
<1>8. ASSUME NEW cell, NEW v
      PROVE  /\ Proves(Answering(Own(Set(cell, v)), "partial"), Is(cell, v))
             /\ Proves(Collected(Own(Clear(cell))), Gone(cell))
  BY <1>7 DEF Proves, Set, Clear, Is, Gone, Test
<1> QED  BY <1>3, <1>4, <1>5, <1>6, <1>8

\* A command and its readback.
LEMMA Verifying ==
    ASSUME NEW c, NEW s1, NEW s2, NEW g, Straight(c, s1), Plain(c, s2), Proves(s2, g)
    PROVE  PlainPlan(c, Claiming(<<s1, s2>>, {g}))
<1> DEFINE q == <<s1, s2>>
<1>1. Steady(c, q)
  BY Steadies DEF Straight
<1>2. Len(q) = 2 /\ q[1] = s1 /\ q[2] = s2
  OBVIOUS
<1>3. Reached(q, 2)
  BY <1>2 DEF Reached, Straight
<1>4. Guards(q, {g})
  BY <1>2, <1>3 DEF Guards
<1> QED  BY <1>1, <1>4, PlanMade

LEMMA PutSettings ==
    ASSUME NEW c, NEW key, NEW v, Free(key)
    PROVE  PlainPlan(c, PutSetting(key, v)) /\ PlainPlan(c, Claiming(settingsDeleteVerified(key), {Gone(key)}))
<1>1. Straight(c, Run2(Set(key, v))) /\ Straight(c, Run2(Clear(key)))
  BY Commands
<1>2. Plain(c, CheckWritten(Set(key, v))) /\ Plain(c, CheckWritten(Clear(key)))
  BY Commands DEF Straight
<1> QED  BY <1>1, <1>2, ProvesFacts, Verifying DEF PutSetting, settingsPutVerified, settingsDeleteVerified

\* Longer plans that verify.
LEMMA ManyPlains ==
    ASSUME NEW c, NEW s, Plain(c, s)
    PROVE  /\ \A k \in Nat : Plain(c, Then(s, k)) /\ Plain(c, Otherwise(s, k))
           /\ \A k \in Nat, j \in Nat : Plain(c, Then(Otherwise(s, j), k))
           /\ Plain(c, Whatever(s)) /\ Plain(c, Collected(s))
           /\ \A code \in Codes : Plain(c, Answering(s, code))
           /\ {"failed", "verify_failed", "unverified", "partial"} \subseteq Codes
<1>1. \A k \in Nat : Plain(c, Then(s, k)) /\ Plain(c, Otherwise(s, k))
  BY ChangedPlain
<1>2. ASSUME NEW j \in Nat PROVE \A k \in Nat : Plain(c, Then(Otherwise(s, j), k))
  BY <1>1, ChangedPlain
<1>3. {"failed", "verify_failed", "unverified", "partial"} \subseteq Codes
  BY DEF Codes, Answers
<1> QED  BY <1>1, <1>2, <1>3, ChangedPlain

LEMMA InitPlain ==
    ASSUME NEW c, NEW state
    PROVE  PlainPlan(c, InitService(<<Run(Set("init.svc", state))>>, state))
<1> DEFINE s == Run(Set("init.svc", state))
           g == Is("init.svc", state)
<1>1. Straight(c, s) /\ Plain(c, Check(g)) /\ Proves(Check(g), g)
  BY Commands, ProvesFacts DEF Straight, Free, Values
<1>2. <<s>> \o <<Check(g)>> = <<s, Check(g)>>
  BY Joins
<1>3. PlainPlan(c, Claiming(<<s, Check(g)>>, {g}))
  BY <1>1, Verifying
<1> QED  BY <1>2, <1>3 DEF InitService

LEMMA RestartPlain ==
    ASSUME NEW c
    PROVE  PlainPlan(c, InitService(<<Run(Set("init.svc", "stopped")), Run(Set("init.svc", "running"))>>, "running"))
<1> DEFINE s1 == Run(Set("init.svc", "stopped"))
           s2 == Run(Set("init.svc", "running"))
           g  == Is("init.svc", "running")
           s3 == Check(g)
           q  == <<s1, s2, s3>>
<1>1. Straight(c, s1) /\ Straight(c, s2) /\ Straight(c, s3)
  BY Commands DEF Free, Values
<1>2. Proves(s3, g)
  BY ProvesFacts
<1>3. <<s1, s2>> \o <<s3>> = q
  BY Joins
<1> HIDE DEF s1, s2, s3, g
<1>4. Steady(c, q) /\ Len(q) = 3 /\ q[1] = s1 /\ q[2] = s2 /\ q[3] = s3
  BY <1>1, Steadies DEF Straight
<1>5. Reached(q, 3)
  BY <1>1, <1>4 DEF Reached, Straight
<1>6. Guards(q, {g})
  BY <1>2, <1>4, <1>5 DEF Guards
<1>7. PlainPlan(c, Claiming(q, {g}))
  BY <1>4, <1>6, PlanMade
<1> QED  BY <1>3, <1>7 DEF InitService, s1, s2, s3, g

LEMMA RotationPlain ==
    ASSUME NEW c
    PROVE  PlainPlan(c, displayOperation.rotation)
<1> DEFINE s1 == Run2(Set("auto_rotation", "off"))
           s2 == CheckWritten(Set("auto_rotation", "off"))
           s3 == Run2(Set("rotation", "v"))
           s4 == CheckWritten(Set("rotation", "v"))
           g1 == Is("auto_rotation", "off")
           g2 == Is("rotation", "v")
           q  == <<s1, s2, s3, s4>>
<1>1. Straight(c, s1) /\ Straight(c, s2) /\ Straight(c, s3) /\ Straight(c, s4)
  BY Commands DEF Free, Values
<1>2. Proves(s2, g1) /\ Proves(s4, g2)
  BY ProvesFacts
<1>3. displayOperation.rotation = Claiming(<<s1, s2>> \o <<s3, s4>>, {g1, g2})
  BY DEF displayOperation, settingsPutVerified
<1> HIDE DEF s1, s2, s3, s4, g1, g2
<1>4. Steady(c, q) /\ Len(q) = 4 /\ q[1] = s1 /\ q[2] = s2 /\ q[3] = s3 /\ q[4] = s4
  BY <1>1, Steadies DEF Straight
<1>5. Reached(q, 2) /\ Reached(q, 4)
  BY <1>1, <1>4 DEF Reached, Straight
<1>6. Guards(q, {g1, g2})
  BY <1>2, <1>4, <1>5 DEF Guards
<1>7. <<s1, s2>> \o <<s3, s4>> = q
  BY Joins
<1>8. PlainPlan(c, Claiming(q, {g1, g2}))
  BY <1>4, <1>6, PlanMade
<1> QED  BY <1>3, <1>7, <1>8, Zenon

LEMMA AnimationPlain ==
    ASSUME NEW c
    PROVE  PlainPlan(c, Animation)
<1> DEFINE s1 == Run2(Set("window_scale", "v"))
           s2 == CheckWritten(Set("window_scale", "v"))
           s3 == Run2(Set("transition_scale", "v"))
           s4 == CheckWritten(Set("transition_scale", "v"))
           s5 == Run2(Set("animator_scale", "v"))
           s6 == CheckWritten(Set("animator_scale", "v"))
           g1 == Is("window_scale", "v")
           g2 == Is("transition_scale", "v")
           g3 == Is("animator_scale", "v")
           q  == <<s1, s2, s3, s4, s5, s6>>
<1>1. /\ Straight(c, s1) /\ Straight(c, s2) /\ Straight(c, s3)
      /\ Straight(c, s4) /\ Straight(c, s5) /\ Straight(c, s6)
  BY Commands DEF Free, Values
<1>2. Proves(s2, g1) /\ Proves(s4, g2) /\ Proves(s6, g3)
  BY ProvesFacts
<1>3. Animation = Claiming((<<s1, s2>> \o <<s3, s4>>) \o <<s5, s6>>, {g1, g2, g3})
  BY DEF Animation, settingsPutVerified
<1> HIDE DEF s1, s2, s3, s4, s5, s6, g1, g2, g3
<1>4. /\ Steady(c, q) /\ Len(q) = 6 /\ q[1] = s1 /\ q[2] = s2 /\ q[3] = s3
      /\ q[4] = s4 /\ q[5] = s5 /\ q[6] = s6
  BY <1>1, Steadies DEF Straight
<1>5. Reached(q, 2) /\ Reached(q, 4) /\ Reached(q, 6)
  BY <1>1, <1>4 DEF Reached, Straight
<1>6. Guards(q, {g1, g2, g3})
  BY <1>2, <1>4, <1>5 DEF Guards
<1>7. <<s1, s2>> \o <<s3, s4>> = <<s1, s2, s3, s4>> /\ <<s1, s2, s3, s4>> \o <<s5, s6>> = q
  <2>1. <<s1, s2>> \o <<s3, s4>> = <<s1, s2, s3, s4>>
    BY Joins
  <2>2. <<s1, s2, s3, s4>> \o <<s5, s6>> = q
    BY Joins
  <2> QED  BY <2>1, <2>2
<1>8. PlainPlan(c, Claiming(q, {g1, g2, g3}))
  BY <1>4, <1>6, PlanMade
<1> QED  BY <1>3, <1>7, <1>8, Zenon

LEMMA AirplanePlain ==
    ASSUME NEW c, NEW v
    PROVE  PlainPlan(c, Claiming(<<Then(Otherwise(Run(Set("airplane", v)), 1), 4)>>
                                   \o settingsPutVerified("airplane", v)
                                   \o <<Run(Set("airplane_broadcast", v)), Check(Is("airplane", v))>>,
                                 {Is("airplane", v)}))
<1> DEFINE s1 == Then(Otherwise(Run(Set("airplane", v)), 1), 4)
           s2 == Run2(Set("airplane", v))
           s3 == CheckWritten(Set("airplane", v))
           s4 == Run(Set("airplane_broadcast", v))
           g  == Is("airplane", v)
           s5 == Check(g)
           q  == <<s1, s2, s3, s4, s5>>
<1>1. /\ Straight(c, Run(Set("airplane", v))) /\ Straight(c, s2) /\ Straight(c, s3)
      /\ Straight(c, s4) /\ Straight(c, s5)
  BY Commands DEF Free, Values
<1>2. Plain(c, s1)
  BY <1>1, ManyPlains DEF Straight
<1>3. s1.next = 4 /\ s1.orElse = 1
  <2>1. DOMAIN Run(Set("airplane", v)) = StepFields
    BY StepMade DEF IsStep
  <2>2. /\ DOMAIN Otherwise(Run(Set("airplane", v)), 1) = StepFields
        /\ Otherwise(Run(Set("airplane", v)), 1).orElse = 1
    BY <2>1, StepChanged
  <2> QED  BY <2>2, StepChanged
<1>4. Proves(s5, g)
  BY ProvesFacts
<1>5. settingsPutVerified("airplane", v) = <<s2, s3>>
  BY DEF settingsPutVerified
<1> HIDE DEF s1, s2, s3, s4, s5, g
<1>6. /\ Steady(c, q) /\ Len(q) = 5 /\ q[1] = s1 /\ q[2] = s2 /\ q[3] = s3 /\ q[4] = s4 /\ q[5] = s5
  BY <1>1, <1>2, Steadies DEF Straight
<1>7. Reached(q, 5)
  BY <1>1, <1>3, <1>6 DEF Reached, Straight
<1>8. Guards(q, {g})
  BY <1>4, <1>6, <1>7 DEF Guards
<1>9. <<s1>> \o <<s2, s3>> = <<s1, s2, s3>> /\ <<s1, s2, s3>> \o <<s4, s5>> = q
  <2>1. <<s1>> \o <<s2, s3>> = <<s1, s2, s3>>
    BY Joins
  <2>2. <<s1, s2, s3>> \o <<s4, s5>> = q
    BY Joins
  <2> QED  BY <2>1, <2>2
<1>10. PlainPlan(c, Claiming(q, {g}))
  BY <1>6, <1>8, PlanMade
<1> QED  BY <1>5, <1>9, <1>10 DEF s1, s2, s3, s4, s5, g

LEMMA PrivateDNSSound ==
    ASSUME NEW c
    PROVE  SoundPlan(c, connectivityOperation.private_dns_host) /\ Guarded(connectivityOperation.private_dns_host)
<1> DEFINE s1 == Run2(Set("dns_mode", "hostname"))
           s2 == CheckWritten(Set("dns_mode", "hostname"))
           s4 == Run2(Set("dns_host", "host"))
           s5 == CheckWritten(Set("dns_host", "host"))
           g1 == Is("dns_mode", "hostname")
           g2 == Is("dns_host", "host")
           q  == <<s1, s2, Argument, s4, s5>>
<1>1. Straight(c, s1) /\ Straight(c, s2) /\ Straight(c, s4) /\ Straight(c, s5)
  BY Commands DEF Free, Values
<1>2. FineStep(c, Argument) /\ Argument.next = 1 /\ Argument.orElse = 0 /\ Argument.code = "invalid"
      /\ Argument.kind = "own"
  <2>1. IsStep(Argument, "own", <<{}>>, NoTest, "invalid")
    BY StepMade
  <2> DEFINE u == <<{}>>
  <2>0. FineEffects(c, {})
    BY EffectFacts
  <2>2. DOMAIN u = 1..Len(u) /\ Len(u) \in Nat /\ Len(u) > 0 /\ \A i \in 1..Len(u) : FineEffects(c, u[i])
    BY <2>0
  <2>3. IsStep(Argument, "own", u, NoTest, "invalid")
    BY <2>1
  <2> HIDE DEF u
  <2> QED  BY <2>2, <2>3 DEF FineStep, IsStep, Answers
<1>3. Proves(s2, g1) /\ Proves(s5, g2)
  BY ProvesFacts
<1>4. connectivityOperation.private_dns_host = Claiming((<<s1, s2>> \o <<Argument>>) \o <<s4, s5>>, {g1, g2})
  BY DEF connectivityOperation, settingsPutVerified
<1> HIDE DEF s1, s2, s4, s5, g1, g2
<1>5. /\ DOMAIN q = 1..Len(q) /\ Len(q) = 5 /\ q[1] = s1 /\ q[2] = s2 /\ q[3] = Argument
      /\ q[4] = s4 /\ q[5] = s5
  OBVIOUS
<1>6. FineSteps(c, q) /\ \A i \in 1..Len(q) : q[i].code # "done"
  BY <1>1, <1>2, <1>5 DEF FineSteps, Straight, Plain
<1>7. Reached(q, 2) /\ Reached(q, 5)
  BY <1>1, <1>2, <1>5 DEF Reached, Straight
<1>8. Guards(q, {g1, g2})
  BY <1>3, <1>5, <1>7 DEF Guards
<1>9. (<<s1, s2>> \o <<Argument>>) \o <<s4, s5>> = q
  <2>1. <<s1, s2>> \o <<Argument>> = <<s1, s2, Argument>>
    BY Joins
  <2>2. <<s1, s2, Argument>> \o <<s4, s5>> = q
    BY Joins
  <2> QED  BY <2>1, <2>2
<1>10. SoundPlan(c, Claiming(q, {g1, g2})) /\ Guarded(Claiming(q, {g1, g2}))
  <2>1. SoundPlan(c, Claiming(q, {g1, g2}))
    BY <1>6, PlanMade
  <2>2. \A x, G : Claiming(x, G).steps = x /\ Claiming(x, G).goals = G
    BY PlanFieldsMade
  <2> HIDE DEF q
  <2>3. Guarded(Claiming(q, {g1, g2}))
    BY <1>6, <1>8, <2>2 DEF Guarded
  <2> QED  BY <2>1, <2>3
<1> QED  BY <1>4, <1>9, <1>10

LEMMA ClearCachePlain ==
    ASSUME NEW c
    PROVE  PlainPlan(c, clearAppCache)
<1> DEFINE s1 == Check(NoTest)
           s2 == Run(Set("app", "stopped"))
           s3 == Collected(Own(Clear("cache")))
           s4 == Collected(Own(Clear("cache_de")))
           g1 == Gone("cache")
           g2 == Gone("cache_de")
           q  == <<s1, s2, s3, s4>>
<1>1. Straight(c, s1) /\ Straight(c, s2) /\ Straight(c, Own(Clear("cache"))) /\ Straight(c, Own(Clear("cache_de")))
  BY Commands DEF Free, Values
<1>2. Plain(c, s3) /\ Plain(c, s4)
  BY <1>1, ManyPlains DEF Straight
<1>3. s3.next = 1 /\ s3.orElse = 1
  <2>1. DOMAIN Own(Clear("cache")) = StepFields /\ Own(Clear("cache")).next = 1
    BY StepMade DEF IsStep
  <2>2. LET w == Whatever(Own(Clear("cache"))) IN DOMAIN w = StepFields /\ w.next = 1 /\ w.orElse = 1
    BY <2>1, StepChanged DEF Whatever
  <2> QED  BY <2>2, StepChanged DEF Collected
<1>4. Proves(s3, g1) /\ Proves(s4, g2)
  BY ProvesFacts
<1>5. clearAppCache = Claiming(q, {g1, g2})
  BY DEF clearAppCache
<1> HIDE DEF s1, s2, s3, s4, g1, g2
<1>6. Steady(c, q) /\ Len(q) = 4 /\ q[1] = s1 /\ q[2] = s2 /\ q[3] = s3 /\ q[4] = s4
  BY <1>1, <1>2, Steadies DEF Straight
<1>7. Reached(q, 3) /\ Reached(q, 4)
  BY <1>1, <1>3, <1>6 DEF Reached, Straight
<1>8. Guards(q, {g1, g2})
  BY <1>4, <1>6, <1>7 DEF Guards
<1> QED  BY <1>5, <1>6, <1>8, PlanMade

----------------------------------------------------------------------------
(* The session of an install.                                              *)

Shaped(s, kind, variants, next, orElse) ==
    s.kind = kind /\ s.variants = variants /\ s.next = next /\ s.orElse = orElse

\* Where a plan keeps its session: created by the step after the first o,
\* removed by the commit or by the step after it.
SessionSteps(c, q, o) ==
    LET J == Join("sessions", c)
        L == Leave("sessions", c)
        M == Leave("sessions", c) \cup Join("packages", "it")
    IN  /\ \A i \in 1..o : Shaped(q[i], "own", <<{}>>, 1, 0)
        /\ Shaped(q[o + 1], "run", <<J, J>>, 1, 0)
        /\ Shaped(q[o + 2], "parse", <<{}>>, 1, 0)
        /\ Shaped(q[o + 3], "own", <<{}>>, 1, 3)
        /\ Shaped(q[o + 4], "run", <<{}, {}>>, 1, 2)
        /\ Shaped(q[o + 5], "run", <<M, M>>, 2, 1)
        /\ Shaped(q[o + 6], "run", <<L, L>>, 0, 0) /\ q[o + 6].background
        /\ o + 6 <= Len(q)
        /\ \A i \in (o + 7)..Len(q) : q[i].kind # "run" /\ \A k \in DOMAIN q[i].variants :
              \A e \in q[i].variants[k] : e.cell # "sessions"

LEMMA InstallParts ==
    ASSUME NEW c
    PROVE  \E i1, i2, i3, i4, i5, i6 :
             /\ installAPKSession(c) = <<i1, i2, i3, i4, i5, i6>>
             /\ Plain(c, i1) /\ Plain(c, i2) /\ Plain(c, i3) /\ Plain(c, i4) /\ Plain(c, i5) /\ Plain(c, i6)
             /\ Shaped(i1, "run", <<Join("sessions", c), Join("sessions", c)>>, 1, 0)
             /\ Shaped(i2, "parse", <<{}>>, 1, 0)
             /\ Shaped(i3, "own", <<{}>>, 1, 3)
             /\ Shaped(i4, "run", <<{}, {}>>, 1, 2)
             /\ Shaped(i5, "run", <<Leave("sessions", c) \cup Join("packages", "it"),
                                    Leave("sessions", c) \cup Join("packages", "it")>>, 2, 1)
             /\ Shaped(i6, "run", <<Leave("sessions", c), Leave("sessions", c)>>, 0, 0) /\ i6.background
<1> DEFINE J  == Join("sessions", c)
           L  == Leave("sessions", c)
           M  == Leave("sessions", c) \cup Join("packages", "it")
           i1 == Run2(J)
           i2 == Parse
           i3 == Otherwise(Local, 3)
           i4 == Otherwise(Run2({}), 2)
           i5 == Then(Otherwise(Run2(M), 1), 2)
           i6 == Abandon(c)
<1>1. FineEffects(c, J) /\ FineEffects(c, L) /\ FineEffects(c, M) /\ FineEffects(c, {})
  BY EffectFacts
<1>2. installAPKSession(c) = <<i1, i2, i3, i4, i5, i6>>
  BY DEF installAPKSession
<1>3. Abandon(c) = [Answering(Then(Run2(L), 0), "failed") EXCEPT !.background = TRUE]
  BY DEF Abandon
<1> HIDE DEF J, L, M
<1>4. \A E : FineEffects(c, E) => Plain(c, Run2(E)) /\ Plain(c, Otherwise(Run2(E), 2))
                /\ Plain(c, Then(Otherwise(Run2(E), 1), 2)) /\ Plain(c, Answering(Then(Run2(E), 0), "failed"))
  <2> TAKE E
  <2> HAVE FineEffects(c, E)
  <2>1. Plain(c, Run2(E))
    BY MadePlain
  <2>2. Plain(c, Otherwise(Run2(E), 2)) /\ Plain(c, Then(Otherwise(Run2(E), 1), 2)) /\ Plain(c, Then(Run2(E), 0))
    BY <2>1, ManyPlains
  <2>3. Plain(c, Answering(Then(Run2(E), 0), "failed"))
    BY <2>2, ManyPlains
  <2> QED  BY <2>1, <2>2, <2>3
<1>5. Plain(c, i1) /\ Plain(c, i2) /\ Plain(c, i3) /\ Plain(c, i4) /\ Plain(c, i5)
  <2>1. Plain(c, i1) /\ Plain(c, i4) /\ Plain(c, i5)
    BY <1>1, <1>4
  <2>2. Plain(c, i2) /\ Plain(c, Local)
    BY MadePlain
  <2>3. Plain(c, i3)
    BY <2>2, ManyPlains
  <2> QED  BY <2>1, <2>2, <2>3
<1>6. Plain(c, i6)
  <2>1. Plain(c, Answering(Then(Run2(L), 0), "failed"))
    BY <1>1, <1>4
  <2> QED  BY <2>1, <1>3, ChangedPlain
<1>7. /\ Shaped(i1, "run", <<J, J>>, 1, 0) /\ Shaped(i2, "parse", <<{}>>, 1, 0)
      /\ Shaped(Local, "own", <<{}>>, 1, 0) /\ Shaped(Run2({}), "run", <<{}, {}>>, 1, 0)
      /\ Shaped(Run2(M), "run", <<M, M>>, 1, 0) /\ Shaped(Run2(L), "run", <<L, L>>, 1, 0)
      /\ DOMAIN Local = StepFields /\ DOMAIN Run2({}) = StepFields /\ DOMAIN Run2(M) = StepFields
      /\ DOMAIN Run2(L) = StepFields
  BY StepMade DEF IsStep, Shaped
<1>8. Shaped(i3, "own", <<{}>>, 1, 3) /\ Shaped(i4, "run", <<{}, {}>>, 1, 2)
  BY <1>7, StepChanged DEF Shaped
<1>9. Shaped(i5, "run", <<M, M>>, 2, 1)
  <2>1. DOMAIN Otherwise(Run2(M), 1) = StepFields /\ Shaped(Otherwise(Run2(M), 1), "run", <<M, M>>, 1, 1)
    BY <1>7, StepChanged DEF Shaped
  <2> QED  BY <2>1, StepChanged DEF Shaped
<1>10. Shaped(i6, "run", <<L, L>>, 0, 0) /\ i6.background
  <2>1. DOMAIN Then(Run2(L), 0) = StepFields /\ Shaped(Then(Run2(L), 0), "run", <<L, L>>, 0, 0)
    BY <1>7, StepChanged DEF Shaped
  <2>2. /\ DOMAIN Answering(Then(Run2(L), 0), "failed") = StepFields
        /\ Shaped(Answering(Then(Run2(L), 0), "failed"), "run", <<L, L>>, 0, 0)
    BY <2>1, StepChanged DEF Shaped
  <2> QED  BY <2>2, <1>3, StepChanged DEF Shaped
<1> HIDE DEF i1, i2, i3, i4, i5, i6
<1> QED  BY <1>2, <1>5, <1>6, <1>7, <1>8, <1>9, <1>10 DEF J, L, M

\* Every step of an install is plain, and its session is where SessionSteps says.
LEMMA InstallPlain ==
    ASSUME NEW c
    PROVE  LET t == appInstall(c) IN
           /\ PlainPlan(c, t.install) /\ SessionSteps(c, t.install.steps, 1)
           /\ PlainPlan(c, t.install_named) /\ SessionSteps(c, t.install_named.steps, 1)
           /\ PlainPlan(c, t.xapk) /\ SessionSteps(c, t.xapk.steps, 2)
<1> DEFINE J == Join("sessions", c)
           L == Leave("sessions", c)
           M == Leave("sessions", c) \cup Join("packages", "it")
           g == Has("packages", "it")
           h == Is("obb", "copied")
           k == Check(g)
           x == Answering(Own(Set("obb", "copied")), "partial")
           l == Local
<1>1. PICK i1, i2, i3, i4, i5, i6 :
        /\ installAPKSession(c) = <<i1, i2, i3, i4, i5, i6>>
        /\ Plain(c, i1) /\ Plain(c, i2) /\ Plain(c, i3) /\ Plain(c, i4) /\ Plain(c, i5) /\ Plain(c, i6)
        /\ Shaped(i1, "run", <<J, J>>, 1, 0)
        /\ Shaped(i2, "parse", <<{}>>, 1, 0)
        /\ Shaped(i3, "own", <<{}>>, 1, 3)
        /\ Shaped(i4, "run", <<{}, {}>>, 1, 2)
        /\ Shaped(i5, "run", <<M, M>>, 2, 1)
        /\ Shaped(i6, "run", <<L, L>>, 0, 0) /\ i6.background
  BY InstallParts
<1>2. Straight(c, l) /\ Shaped(l, "own", <<{}>>, 1, 0)
  BY Commands, StepMade DEF IsStep, Shaped
<1>3. Straight(c, k) /\ k.variants = <<>> /\ k.kind = "check"
  BY Commands, StepMade DEF IsStep
<1>4. /\ Plain(c, x) /\ x.variants = <<Set("obb", "copied")>> /\ x.next = 1 /\ x.orElse = 0
      /\ x.kind = "own"
  <2>1. FineEffects(c, Set("obb", "copied"))
    BY Commands DEF Free, Values
  <2>2. Plain(c, Own(Set("obb", "copied"))) /\ IsStep(Own(Set("obb", "copied")), "own", <<Set("obb", "copied")>>, NoTest, "failed")
    BY <2>1, MadePlain, StepMade
  <2> DEFINE w == Own(Set("obb", "copied"))
  <2>3. /\ Plain(c, w) /\ DOMAIN w = StepFields /\ w.variants = <<Set("obb", "copied")>> /\ w.next = 1
        /\ w.orElse = 0 /\ w.kind = "own"
    BY <2>2 DEF IsStep
  <2> HIDE DEF w
  <2>4. Plain(c, Answering(w, "partial"))
    BY <2>3, ManyPlains
  <2>5. LET t == Answering(w, "partial") IN
        t.kind = "own" /\ t.variants = <<Set("obb", "copied")>> /\ t.next = 1 /\ t.orElse = 0
    BY <2>3, StepChanged
  <2> QED  BY <2>4, <2>5 DEF w
<1>5. Proves(k, g) /\ Proves(x, h)
  BY ProvesFacts
<1>6. \A e \in Set("obb", "copied") : e.cell # "sessions"
  BY DEF Set, Effect
<1> DEFINE q1 == <<l, i1, i2, i3, i4, i5, i6, l>>
           q2 == <<l, i1, i2, i3, i4, i5, i6, l, k>>
           q3 == <<l, l, i1, i2, i3, i4, i5, i6, l, k, x>>
<1>7. /\ appInstall(c).install = Plan(q1, {g})
      /\ appInstall(c).install_named = Claiming(q2, {g})
      /\ appInstall(c).xapk = Claiming(q3, {g, h})
  <2> DEFINE q0 == <<l, i1, i2, i3, i4, i5, i6>>
  <2>1. <<l>> \o <<i1, i2, i3, i4, i5, i6>> = q0
    BY Joins
  <2>2. q0 \o <<l>> = q1 /\ q0 \o <<l, k>> = q2
    BY Joins
  <2>3. <<l, l>> \o <<i1, i2, i3, i4, i5, i6>> = <<l, l, i1, i2, i3, i4, i5, i6>>
    BY Joins
  <2>4. <<l, l, i1, i2, i3, i4, i5, i6>> \o <<l, k, x>> = q3
    BY Joins
  <2>5. /\ appInstall(c).install = Plan((<<l>> \o installAPKSession(c)) \o <<l>>, {g})
        /\ appInstall(c).install_named = Claiming((<<l>> \o installAPKSession(c)) \o <<l, k>>, {g})
        /\ appInstall(c).xapk = Claiming((<<l, l>> \o installAPKSession(c)) \o <<l, k, x>>, {g, h})
    BY DEF appInstall
  <2> HIDE DEF l, k, x, g, h
  <2> QED  BY <1>1, <2>1, <2>2, <2>3, <2>4, <2>5, Zenon
<1> HIDE DEF J, L, M, g, h, k, x, l
<1>8. /\ Steady(c, q1) /\ Len(q1) = 8 /\ q1[1] = l /\ q1[2] = i1 /\ q1[3] = i2 /\ q1[4] = i3
      /\ q1[5] = i4 /\ q1[6] = i5 /\ q1[7] = i6 /\ q1[8] = l
  BY <1>1, <1>2 DEF Steady, Straight
<1>9. /\ Steady(c, q2) /\ Len(q2) = 9 /\ q2[1] = l /\ q2[2] = i1 /\ q2[3] = i2 /\ q2[4] = i3
      /\ q2[5] = i4 /\ q2[6] = i5 /\ q2[7] = i6 /\ q2[8] = l /\ q2[9] = k
  BY <1>1, <1>2, <1>3 DEF Steady, Straight
<1>10. /\ Steady(c, q3) /\ Len(q3) = 11 /\ q3[1] = l /\ q3[2] = l /\ q3[3] = i1 /\ q3[4] = i2 /\ q3[5] = i3
       /\ q3[6] = i4 /\ q3[7] = i5 /\ q3[8] = i6 /\ q3[9] = l
       /\ q3[10] = k /\ q3[11] = x
  BY <1>1, <1>2, <1>3, <1>4 DEF Steady, Straight
<1> HIDE DEF q1, q2, q3
<1>11. PlainPlan(c, Plan(q1, {g}))
  BY <1>8, PlanMade
<1>12. PlainPlan(c, Claiming(q2, {g}))
  <2>1. Reached(q2, 9)
    BY <1>1, <1>2, <1>9 DEF Reached, Straight, Shaped
  <2>2. Guards(q2, {g})
    BY <1>5, <1>9, <2>1 DEF Guards
  <2> QED  BY <1>9, <2>2, PlanMade
<1>13. PlainPlan(c, Claiming(q3, {g, h}))
  <2>1. Reached(q3, 10) /\ Reached(q3, 11)
    BY <1>1, <1>2, <1>3, <1>10 DEF Reached, Straight, Shaped
  <2>2. Guards(q3, {g, h})
    BY <1>5, <1>10, <2>1 DEF Guards
  <2> QED  BY <1>10, <2>2, PlanMade
<1>14. SessionSteps(c, q1, 1)
  <2>1. \A i \in 8..Len(q1) : q1[i] = l
    BY <1>8
  <2> QED  BY <1>1, <1>2, <1>8, <2>1 DEF SessionSteps, Shaped, J, L, M
<1>15. SessionSteps(c, q2, 1)
  <2>1. \A i \in 8..Len(q2) : q2[i] = l \/ q2[i] = k
    BY <1>9
  <2>2. k.kind # "run" /\ \A v \in DOMAIN k.variants : \A e \in k.variants[v] : e.cell # "sessions"
    BY <1>3
  <2>3. l.kind # "run" /\ \A v \in DOMAIN l.variants : \A e \in l.variants[v] : e.cell # "sessions"
    BY <1>2 DEF Shaped
  <2> QED  BY <1>1, <1>2, <1>9, <2>1, <2>2, <2>3 DEF SessionSteps, J, L, M
<1>16. SessionSteps(c, q3, 2)
  <2>1. \A i \in 9..Len(q3) : q3[i] = l \/ q3[i] = k \/ q3[i] = x
    BY <1>10
  <2>2. k.kind # "run" /\ \A v \in DOMAIN k.variants : \A e \in k.variants[v] : e.cell # "sessions"
    BY <1>3
  <2>3. x.kind # "run" /\ \A v \in DOMAIN x.variants : \A e \in x.variants[v] : e.cell # "sessions"
    BY <1>4, <1>6
  <2>4. \A i \in 1..2 : Shaped(q3[i], "own", <<{}>>, 1, 0)
    BY <1>2, <1>10
  <2>5. l.kind # "run" /\ \A v \in DOMAIN l.variants : \A e \in l.variants[v] : e.cell # "sessions"
    BY <1>2 DEF Shaped
  <2> QED  BY <1>1, <1>10, <2>1, <2>2, <2>3, <2>4, <2>5 DEF SessionSteps, J, L, M
<1>17. /\ Plan(q1, {g}).steps = q1 /\ Claiming(q2, {g}).steps = q2 /\ Claiming(q3, {g, h}).steps = q3
  BY PlanFieldsMade
<1> QED  BY <1>7, <1>11, <1>12, <1>13, <1>14, <1>15, <1>16, <1>17

----------------------------------------------------------------------------
(* The tables of the tools.                                                *)

LEMMA PropertyPlans ==
    ASSUME NEW c
    PROVE  \A a \in DOMAIN propertyOperation : PlainPlan(c, propertyOperation[a])
<1>0. \A x \in {"property"} : Free(x)
  BY DEF Free, Values
<1>1. PlainPlan(c, propertyOperation.list)
  BY PlainPlans DEF propertyOperation
<1>2. PlainPlan(c, propertyOperation.get)
  BY PlainPlans DEF propertyOperation
<1>3. PlainPlan(c, propertyOperation.set)
  BY <1>0, Commands, Verifying, ProvesFacts DEF propertyOperation, Straight
<1>4. PlainPlan(c, propertyOperation.delete)
  BY <1>0, Commands, Verifying, ProvesFacts DEF propertyOperation, Straight
<1> QED  BY <1>1, <1>2, <1>3, <1>4 DEF propertyOperation

LEMMA SettingPlans ==
    ASSUME NEW c
    PROVE  \A a \in DOMAIN settingOperation : PlainPlan(c, settingOperation[a])
<1>0. \A x \in {"setting"} : Free(x)
  BY DEF Free, Values
<1>1. PlainPlan(c, settingOperation.list)
  BY PlainPlans DEF settingOperation
<1>2. PlainPlan(c, settingOperation.get)
  BY PlainPlans DEF settingOperation
<1>3. PlainPlan(c, settingOperation.put)
  BY <1>0, PutSettings DEF settingOperation
<1>4. PlainPlan(c, settingOperation.delete)
  BY <1>0, PutSettings DEF settingOperation
<1> QED  BY <1>1, <1>2, <1>3, <1>4 DEF settingOperation

LEMMA AudioPlans ==
    ASSUME NEW c
    PROVE  \A a \in DOMAIN audioOperation : PlainPlan(c, audioOperation[a])
<1>0. \A x \in {"volume", "mute"} : Free(x)
  BY DEF Free, Values
<1>1. PlainPlan(c, audioOperation.get)
  BY PlainPlans DEF audioOperation
<1>2. PlainPlan(c, audioOperation.set_volume)
  BY <1>0, Commands, PlainPlans DEF audioOperation, Straight
<1>3. PlainPlan(c, audioOperation.mute)
  BY <1>0, Commands, PlainPlans DEF audioOperation, Straight
<1>4. PlainPlan(c, audioOperation.route)
  BY PlainPlans DEF audioOperation
<1> QED  BY <1>1, <1>2, <1>3, <1>4 DEF audioOperation

LEMMA LocaleTimePlans ==
    ASSUME NEW c
    PROVE  \A a \in DOMAIN localeTimeOperation : PlainPlan(c, localeTimeOperation[a])
<1>0. \A x \in {"timezone", "time_format", "clock", "locale"} : Free(x)
  BY DEF Free, Values
<1>1. PlainPlan(c, localeTimeOperation.get)
  BY PlainPlans DEF localeTimeOperation
<1>2. PlainPlan(c, localeTimeOperation.timezone)
  BY <1>0, Commands, Verifying, ProvesFacts DEF localeTimeOperation, Straight
<1>3. PlainPlan(c, localeTimeOperation.time_format)
  BY <1>0, PutSettings DEF localeTimeOperation
<1>4. PlainPlan(c, localeTimeOperation.date_time)
  BY <1>0, Commands, Verifying, ProvesFacts DEF localeTimeOperation, Straight
<1>5. PlainPlan(c, localeTimeOperation.locale)
  BY <1>0, Commands, PlainPlans DEF localeTimeOperation, Straight
<1> QED  BY <1>1, <1>2, <1>3, <1>4, <1>5 DEF localeTimeOperation

LEMMA InputMethodPlans ==
    ASSUME NEW c
    PROVE  \A a \in DOMAIN inputMethodOperation : PlainPlan(c, inputMethodOperation[a])
<1>0. \A x \in {"ime", "default_ime"} : Free(x)
  BY DEF Free, Values
<1>1. PlainPlan(c, inputMethodOperation.list)
  BY PlainPlans DEF inputMethodOperation
<1>2. PlainPlan(c, inputMethodOperation.current)
  BY PlainPlans DEF inputMethodOperation
<1>3. PlainPlan(c, inputMethodOperation.enable)
  BY <1>0, Commands, PlainPlans DEF inputMethodOperation, Straight
<1>4. PlainPlan(c, inputMethodOperation.disable)
  BY <1>0, Commands, PlainPlans DEF inputMethodOperation, Straight
<1>5. PlainPlan(c, inputMethodOperation.set)
  BY <1>0, Commands, PlainPlans DEF inputMethodOperation, Straight
<1> QED  BY <1>1, <1>2, <1>3, <1>4, <1>5 DEF inputMethodOperation

LEMMA ExportPlans ==
    ASSUME NEW c
    PROVE  \A a \in DOMAIN appExport : PlainPlan(c, appExport[a])
<1>0. \A x \in {"base_apk", "split_apk", "bundle"} : Free(x)
  BY DEF Free, Values
<1>1. PlainPlan(c, appExport.apk)
  BY <1>0, Commands, PlainPlans DEF appExport, Straight
<1>2. PlainPlan(c, appExport.splits)
  BY <1>0, Commands, PlainPlans DEF appExport, Straight
<1>3. PlainPlan(c, appExport.bundle)
  BY <1>0, Commands, PlainPlans DEF appExport, Straight
<1> QED  BY <1>1, <1>2, <1>3 DEF appExport

LEMMA PowerPlans ==
    ASSUME NEW c
    PROVE  \A a \in DOMAIN powerOperation : PlainPlan(c, powerOperation[a])
<1>0. \A x \in {"screen", "power"} : Free(x)
  BY DEF Free, Values
<1>1. PlainPlan(c, powerOperation.status)
  BY PlainPlans DEF powerOperation
<1>2. PlainPlan(c, powerOperation.wake)
  BY <1>0, Commands, PlainPlans DEF powerOperation, Straight
<1>3. PlainPlan(c, powerOperation.sleep)
  BY <1>0, Commands, PlainPlans DEF powerOperation, Straight
<1>4. PlainPlan(c, powerOperation.reboot)
  BY <1>0, Commands, PlainPlans DEF powerOperation, Straight
<1> QED  BY <1>1, <1>2, <1>3, <1>4 DEF powerOperation

LEMMA InputPlans ==
    ASSUME NEW c
    PROVE  \A a \in DOMAIN inputOperation : PlainPlan(c, inputOperation[a])
<1>0. \A x \in {"input"} : Free(x)
  BY DEF Free, Values
<1>1. PlainPlan(c, inputOperation.input)
  BY <1>0, Commands, PlainPlans DEF inputOperation, Straight
<1> QED  BY <1>1 DEF inputOperation

LEMMA LogPlans ==
    ASSUME NEW c
    PROVE  \A a \in DOMAIN logOperation : PlainPlan(c, logOperation[a])
<1>0. \A x \in {"logcat"} : Free(x)
  BY DEF Free, Values
<1>1. PlainPlan(c, logOperation.logcat)
  BY PlainPlans DEF logOperation
<1>2. PlainPlan(c, logOperation.clear)
  BY <1>0, Commands, PlainPlans DEF logOperation, Straight
<1> QED  BY <1>1, <1>2 DEF logOperation

LEMMA ProcessPlans ==
    ASSUME NEW c
    PROVE  \A a \in DOMAIN processOperation : PlainPlan(c, processOperation[a])
<1>0. \A x \in {"process", "priority"} : Free(x)
  BY DEF Free, Values
<1>1. PlainPlan(c, processOperation.list)
  BY PlainPlans DEF processOperation
<1>2. PlainPlan(c, processOperation.signal)
  BY <1>0, Commands, PlainPlans DEF processOperation, Straight
<1>3. PlainPlan(c, processOperation.renice)
  BY <1>0, Commands, PlainPlans DEF processOperation, Straight
<1> QED  BY <1>1, <1>2, <1>3 DEF processOperation

LEMMA ServicePlans ==
    ASSUME NEW c
    PROVE  \A a \in DOMAIN serviceOperation : PlainPlan(c, serviceOperation[a])
<1>0. \A x \in {"app_service", "binder", "init.svc"} : Free(x)
  BY DEF Free, Values
<1>1. PlainPlan(c, serviceOperation.app_start)
  BY <1>0, Commands, PlainPlans DEF serviceOperation, Straight
<1>2. PlainPlan(c, serviceOperation.app_stop)
  BY <1>0, Commands, PlainPlans DEF serviceOperation, Straight
<1>3. PlainPlan(c, serviceOperation.binder_call)
  BY <1>0, Commands, PlainPlans DEF serviceOperation, Straight
<1>4. PlainPlan(c, serviceOperation.list)
  BY PlainPlans DEF serviceOperation
<1>5. PlainPlan(c, serviceOperation.status)
  BY PlainPlans DEF serviceOperation
<1>6. PlainPlan(c, serviceOperation.init_start)
  BY <1>0, InitPlain DEF serviceOperation
<1>7. PlainPlan(c, serviceOperation.init_stop)
  BY <1>0, InitPlain DEF serviceOperation
<1>8. PlainPlan(c, serviceOperation.init_restart)
  BY <1>0, RestartPlain DEF serviceOperation
<1> QED  BY <1>1, <1>2, <1>3, <1>4, <1>5, <1>6, <1>7, <1>8 DEF serviceOperation

LEMMA DisplayPlans ==
    ASSUME NEW c
    PROVE  \A a \in DOMAIN displayOperation : PlainPlan(c, displayOperation[a])
<1>0. \A x \in {"brightness", "screen_off", "wm_size", "wm_density"} : Free(x)
  BY DEF Free, Values
<1>1. PlainPlan(c, displayOperation.get)
  BY PlainPlans DEF displayOperation
<1>2. PlainPlan(c, displayOperation.brightness)
  BY <1>0, PutSettings DEF displayOperation
<1>3. PlainPlan(c, displayOperation.timeout)
  BY <1>0, PutSettings DEF displayOperation
<1>4. PlainPlan(c, displayOperation.rotation)
  BY RotationPlain DEF displayOperation
<1>5. PlainPlan(c, displayOperation.dark_mode)
  BY <1>0, Commands, Verifying, ProvesFacts DEF displayOperation, Straight, Values
<1>6. PlainPlan(c, displayOperation.animation)
  BY AnimationPlain DEF displayOperation
<1>7. PlainPlan(c, displayOperation.size)
  BY <1>0, Commands, PlainPlans DEF displayOperation, Straight
<1>8. PlainPlan(c, displayOperation.density)
  BY <1>0, Commands, PlainPlans DEF displayOperation, Straight
<1> QED  BY <1>1, <1>2, <1>3, <1>4, <1>5, <1>6, <1>7, <1>8 DEF displayOperation

LEMMA DeveloperPlans ==
    ASSUME NEW c
    PROVE  \A a \in DOMAIN developerOperation : PlainPlan(c, developerOperation[a])
<1>0. \A x \in {"adb", "stay_awake"} : Free(x)
  BY DEF Free, Values
<1>1. PlainPlan(c, developerOperation.get)
  BY PlainPlans DEF developerOperation
<1>2. PlainPlan(c, developerOperation.adb)
  BY <1>0, PutSettings DEF developerOperation
<1>3. PlainPlan(c, developerOperation.adb_off)
  BY <1>0, PutSettings DEF developerOperation
<1>4. PlainPlan(c, developerOperation.stay_awake)
  BY <1>0, PutSettings DEF developerOperation
<1>5. PlainPlan(c, developerOperation.animation)
  BY AnimationPlain DEF developerOperation
<1>6. PlainPlan(c, developerOperation.mock_location)
  BY <1>0, Commands, Verifying, ProvesFacts DEF developerOperation, Straight, Values
<1>7. PlainPlan(c, developerOperation.set)
  BY <1>0, PutSettings DEF developerOperation
<1> QED  BY <1>1, <1>2, <1>3, <1>4, <1>5, <1>6, <1>7 DEF developerOperation

LEMMA ConnectivityPlans ==
    ASSUME NEW c
    PROVE  \A a \in DOMAIN connectivityOperation \ {"private_dns_host"} : PlainPlan(c, connectivityOperation[a])
<1>0. \A x \in {"wifi", "data", "airplane", "airplane_broadcast", "bluetooth", "nfc", "proxy", "dns_mode"} : Free(x)
  BY DEF Free, Values
<1>1. PlainPlan(c, connectivityOperation.status)
  BY PlainPlans DEF connectivityOperation
<1>2. PlainPlan(c, connectivityOperation.wifi)
  BY <1>0, Commands, PlainPlans DEF connectivityOperation, Straight
<1>3. PlainPlan(c, connectivityOperation.mobile_data)
  BY <1>0, Commands, PlainPlans, ManyPlains DEF connectivityOperation, Straight
<1>4. PlainPlan(c, connectivityOperation.airplane)
  BY <1>0, AirplanePlain DEF connectivityOperation
<1>5. PlainPlan(c, connectivityOperation.airplane_off)
  BY <1>0, AirplanePlain DEF connectivityOperation
<1>6. PlainPlan(c, connectivityOperation.bluetooth)
  BY <1>0, Commands, PlainPlans DEF connectivityOperation, Straight
<1>7. PlainPlan(c, connectivityOperation.nfc)
  BY <1>0, Commands, PlainPlans, ManyPlains DEF connectivityOperation, Straight
<1>8. PlainPlan(c, connectivityOperation.proxy_get)
  BY PlainPlans DEF connectivityOperation
<1>9. PlainPlan(c, connectivityOperation.proxy_set)
  BY <1>0, PutSettings DEF connectivityOperation
<1>10. PlainPlan(c, connectivityOperation.proxy_clear)
  BY <1>0, PutSettings DEF connectivityOperation
<1>11. PlainPlan(c, connectivityOperation.private_dns)
  BY <1>0, PutSettings DEF connectivityOperation
<1> QED  BY <1>1, <1>2, <1>3, <1>4, <1>5, <1>6, <1>7, <1>8, <1>9, <1>10, <1>11 DEF connectivityOperation

LEMMA PolicyPlans ==
    ASSUME NEW c
    PROVE  \A a \in DOMAIN appPolicyOperation \ {"battery_allow"} : PlainPlan(c, appPolicyOperation[a])
<1>0. \A x \in {"bucket", "whitelist"} : Free(x)
  BY DEF Free, Values
<1>1. PlainPlan(c, appPolicyOperation.get)
  BY Commands, PlainPlans DEF appPolicyOperation, Straight
<1>2. PlainPlan(c, appPolicyOperation.standby_get)
  BY PlainPlans DEF appPolicyOperation
<1>3. PlainPlan(c, appPolicyOperation.standby_bucket)
  BY <1>0, Commands, PlainPlans DEF appPolicyOperation, Straight
<1>4. PlainPlan(c, appPolicyOperation.battery_list)
  BY PlainPlans DEF appPolicyOperation
<1>5. PlainPlan(c, appPolicyOperation.battery_disallow)
  BY <1>0, Commands, Verifying, ProvesFacts DEF appPolicyOperation, Straight
<1>6. PlainPlan(c, appPolicyOperation.background)
  BY <1>0, Commands, Verifying, ProvesFacts DEF appPolicyOperation, Straight, Values
<1> QED  BY <1>1, <1>2, <1>3, <1>4, <1>5, <1>6 DEF appPolicyOperation

LEMMA DefaultAppPlans ==
    ASSUME NEW c
    PROVE  \A a \in DOMAIN defaultAppOperation \ {"set", "set_user"} : PlainPlan(c, defaultAppOperation[a])
<1>0. \A x \in {"role"} : Free(x)
  BY DEF Free, Values
<1>1. PlainPlan(c, defaultAppOperation.get)
  BY PlainPlans DEF defaultAppOperation
<1>2. PlainPlan(c, defaultAppOperation.clear)
  BY <1>0, Commands, PlainPlans DEF defaultAppOperation, Straight
<1> QED  BY <1>1, <1>2 DEF defaultAppOperation

LEMMA NotificationPlans ==
    ASSUME NEW c
    PROVE  \A a \in DOMAIN notificationOperation \ {"allow_listener"} : PlainPlan(c, notificationOperation[a])
<1>0. \A x \in {"post_permission", "post_appop", "listeners"} : Free(x)
  BY DEF Free, Values
<1>1. PlainPlan(c, notificationOperation.status)
  BY PlainPlans DEF notificationOperation
<1>2. PlainPlan(c, notificationOperation.allow)
  BY <1>0, Commands, PlainPlans, ManyPlains DEF notificationOperation, Straight
<1>3. PlainPlan(c, notificationOperation.deny)
  BY <1>0, Commands, PlainPlans, ManyPlains DEF notificationOperation, Straight
<1>4. PlainPlan(c, notificationOperation.disallow_listener)
  BY <1>0, Commands, Verifying, ProvesFacts DEF notificationOperation, Straight
<1> QED  BY <1>1, <1>2, <1>3, <1>4 DEF notificationOperation

LEMMA ManagePlans ==
    ASSUME NEW c
    PROVE  \A a \in DOMAIN appManage \ {"uninstall"} : PlainPlan(c, appManage[a])
<1>0. \A x \in {"component", "app", "app_data", "packages_user"} : Free(x)
  BY DEF Free, Values
<1>1. PlainPlan(c, appManage.enable)
  BY <1>0, Commands, PlainPlans DEF appManage, Straight
<1>2. PlainPlan(c, appManage.disable)
  BY <1>0, Commands, PlainPlans DEF appManage, Straight
<1>3. PlainPlan(c, appManage.start)
  BY <1>0, Commands, PlainPlans DEF appManage, Straight
<1>4. PlainPlan(c, appManage.stop)
  BY <1>0, Commands, PlainPlans DEF appManage, Straight
<1>5. PlainPlan(c, appManage.clear_data)
  BY <1>0, Commands, PlainPlans, ManyPlains DEF appManage, Straight
<1>6. PlainPlan(c, appManage.user_install)
  BY <1>0, Commands, PlainPlans DEF appManage, Straight
<1>7. PlainPlan(c, appManage.user_remove)
  BY <1>0, Commands, PlainPlans DEF appManage, Straight
<1>8. PlainPlan(c, appManage.clear_cache)
  BY ClearCachePlain DEF appManage
<1> QED  BY <1>1, <1>2, <1>3, <1>4, <1>5, <1>6, <1>7, <1>8 DEF appManage

LEMMA PermissionPlans ==
    ASSUME NEW c
    PROVE  \A a \in DOMAIN appPermission \ {"revoke"} : PlainPlan(c, appPermission[a])
<1>0. \A x \in {"permission"} : Free(x)
  BY DEF Free, Values
<1>1. PlainPlan(c, appPermission.list)
  BY PlainPlans DEF appPermission
<1>2. PlainPlan(c, appPermission.grant)
  BY <1>0, Commands, Verifying, ProvesFacts DEF appPermission, Straight
<1>3. PlainPlan(c, appPermission.appop_get)
  BY PlainPlans DEF appPermission
<1>4. PlainPlan(c, appPermission.appop_set)
  BY <1>0, Commands, Verifying, ProvesFacts DEF appPermission, Straight, Values
<1> QED  BY <1>1, <1>2, <1>3, <1>4 DEF appPermission

LEMMA ModulePlans ==
    ASSUME NEW c
    PROVE  \A a \in DOMAIN rootModuleOperation : PlainPlan(c, rootModuleOperation[a])
<1>0. \A x \in {"disable", "remove", "module_update", "module_backup", "module", "action"} : Free(x)
  BY DEF Free, Values
<1>1. PlainPlan(c, rootModuleOperation.list)
  BY PlainPlans DEF rootModuleOperation
<1>2. PlainPlan(c, rootModuleOperation.info)
  BY PlainPlans DEF rootModuleOperation
<1>3. PlainPlan(c, rootModuleOperation.log)
  BY PlainPlans DEF rootModuleOperation
<1>4. PlainPlan(c, rootModuleOperation.enable)
  BY <1>0, Commands, PlainPlans DEF rootModuleOperation, Straight
<1>5. PlainPlan(c, rootModuleOperation.disable)
  BY <1>0, Commands, PlainPlans DEF rootModuleOperation, Straight
<1>6. PlainPlan(c, rootModuleOperation.delete)
  BY <1>0, Commands, PlainPlans DEF rootModuleOperation, Straight
<1>7. PlainPlan(c, rootModuleOperation.install)
  BY <1>0, Commands, PlainPlans DEF rootModuleOperation, Straight
<1>8. PlainPlan(c, rootModuleOperation.backup)
  BY <1>0, Commands, PlainPlans DEF rootModuleOperation, Straight
<1>9. PlainPlan(c, rootModuleOperation.restore)
  BY <1>0, Commands, PlainPlans, ManyPlains DEF rootModuleOperation, Straight
<1>10. PlainPlan(c, rootModuleOperation.restore_over)
  BY <1>0, Commands, PlainPlans, ManyPlains DEF rootModuleOperation, Straight
<1>11. PlainPlan(c, rootModuleOperation.action)
  BY <1>0, Commands, PlainPlans DEF rootModuleOperation, Straight
<1> QED  BY <1>1, <1>2, <1>3, <1>4, <1>5, <1>6, <1>7, <1>8, <1>9, <1>10, <1>11 DEF rootModuleOperation

LEMMA SystemlessPlans ==
    ASSUME NEW c
    PROVE  \A a \in DOMAIN systemlessOperation \ {"remove"} : PlainPlan(c, systemlessOperation[a])
<1>0. \A x \in {"mounts", "staged"} : Free(x)
  BY DEF Free, Values
<1>1. PlainPlan(c, systemlessOperation.probe)
  BY PlainPlans DEF systemlessOperation
<1>2. PlainPlan(c, systemlessOperation.list)
  BY PlainPlans DEF systemlessOperation
<1>3. PlainPlan(c, systemlessOperation.verify)
  BY PlainPlans DEF systemlessOperation
<1>4. PlainPlan(c, systemlessOperation.bind_mount)
  BY <1>0, Commands, Verifying, ProvesFacts DEF systemlessOperation, Straight
<1>5. PlainPlan(c, systemlessOperation.overlay_mount)
  BY <1>0, Commands, Verifying, ProvesFacts DEF systemlessOperation, Straight
<1>6. PlainPlan(c, systemlessOperation.unmount)
  BY <1>0, Commands, PlainPlans DEF systemlessOperation, Straight
<1>7. PlainPlan(c, systemlessOperation.stage)
  BY <1>0, Commands, PlainPlans DEF systemlessOperation, Straight
<1> QED  BY <1>1, <1>2, <1>3, <1>4, <1>5, <1>6, <1>7 DEF systemlessOperation

LEMMA ScreenPlans ==
    ASSUME NEW c
    PROVE  \A a \in DOMAIN screenOperation \ {"record"} : PlainPlan(c, screenOperation[a])
<1>0. \A x \in {"png", "screen"} : Free(x)
  BY DEF Free, Values
<1>1. PlainPlan(c, screenOperation.screenshot)
  BY <1>0, Commands, PlainPlans DEF screenOperation, Straight
<1>2. PlainPlan(c, screenOperation.wake)
  BY <1>0, Commands, PlainPlans DEF screenOperation, Straight
<1>3. PlainPlan(c, screenOperation.sleep)
  BY <1>0, Commands, PlainPlans DEF screenOperation, Straight
<1>4. PlainPlan(c, screenOperation.size)
  BY PlainPlans DEF screenOperation
<1> QED  BY <1>1, <1>2, <1>3, <1>4 DEF screenOperation

\* The requests whose readback finds another name, or takes a failed read for
\* an absence, are plans all the same.
LEMMA MisreadPlans ==
    ASSUME NEW c
    PROVE  /\ PromptPlan(c, defaultAppOperation.set) /\ PromptPlan(c, defaultAppOperation.set_user)
           /\ PromptPlan(c, appPolicyOperation.battery_allow)
           /\ PromptPlan(c, notificationOperation.allow_listener)
           /\ PromptPlan(c, appManage.uninstall) /\ PromptPlan(c, appPermission.revoke)
<1>1. \A s1, s2, goals : Plain(c, s1) /\ Plain(c, s2) => PromptPlan(c, Claiming(<<s1, s2>>, goals))
  BY Steadies, PlanMade
<1>2. \A s1, s2, s3, goals : Plain(c, s1) /\ Plain(c, s2) /\ Plain(c, s3)
                               => PromptPlan(c, Claiming(<<s1, s2, s3>>, goals))
  BY Steadies, PlanMade
<1>3. \A x \in {"role", "role_other", "home", "whitelist", "listeners", "packages", "permission"} : Free(x)
  BY DEF Free, Values
<1>4. PromptPlan(c, defaultAppOperation.set) /\ PromptPlan(c, defaultAppOperation.set_user)
  BY <1>1, <1>3, Commands, MadePlain DEF defaultAppOperation, Straight
<1>5. PromptPlan(c, appPolicyOperation.battery_allow)
  BY <1>1, <1>3, Commands DEF appPolicyOperation, Straight
<1>6. PromptPlan(c, notificationOperation.allow_listener)
  BY <1>1, <1>3, Commands DEF notificationOperation, Straight
<1>7. PromptPlan(c, appManage.uninstall)
  BY <1>2, <1>3, Commands, ManyPlains DEF appManage, Straight
<1>8. PromptPlan(c, appPermission.revoke)
  BY <1>1, <1>3, Commands DEF appPermission, Straight
<1> QED  BY <1>4, <1>5, <1>6, <1>7, <1>8

LEMMA ArgumentFine ==
    ASSUME NEW c
    PROVE  FineStep(c, Argument) /\ Shaped(Argument, "own", <<{}>>, 1, 0) /\ Argument.code = "invalid"
<1>1. IsStep(Argument, "own", <<{}>>, NoTest, "invalid")
  BY StepMade
<1>2. FineEffects(c, {})
  BY EffectFacts
<1> DEFINE u == <<{}>>
<1>3. DOMAIN u = 1..Len(u) /\ Len(u) \in Nat /\ Len(u) > 0 /\ \A i \in 1..Len(u) : FineEffects(c, u[i])
  BY <1>2
<1>4. IsStep(Argument, "own", u, NoTest, "invalid")
  BY <1>1
<1>5. Shaped(Argument, "own", u, 1, 0) /\ Argument.code = "invalid"
  BY <1>4 DEF IsStep, Shaped
<1> HIDE DEF u
<1>6. FineStep(c, Argument)
  BY <1>3, <1>4 DEF FineStep, IsStep, Answers
<1> QED  BY <1>5, <1>6 DEF u

LEMMA RecordPlain ==
    ASSUME NEW c
    PROVE  PlainPlan(c, screenOperation.record)
<1> DEFINE s2 == Local
           s3 == Run(Set("mp4", "video"))
           s4 == Check(Exists("mp4"))
           q  == <<Argument, s2, s3, s4>>
<1>1. Plain(c, s2) /\ Plain(c, s3) /\ Plain(c, s4)
  BY Commands DEF Straight, Free, Values
<1>2. screenOperation.record = Plan(q, {Exists("mp4")})
  BY DEF screenOperation
<1> HIDE DEF s2, s3, s4
<1>3. /\ DOMAIN q = 1..Len(q) /\ Len(q) = 4 /\ q[1] = Argument /\ q[2] = s2 /\ q[3] = s3 /\ q[4] = s4
  OBVIOUS
<1>4. FineSteps(c, q)
  BY <1>1, <1>3, ArgumentFine DEF FineSteps, Plain, Shaped
<1>5. Prompt(q)
  BY <1>1, <1>3, ArgumentFine DEF Prompt, Plain, Shaped
<1>6. SoundPlan(c, Plan(q, {Exists("mp4")}))
  BY <1>4, PlanMade
<1> HIDE DEF q
<1>7. \A goals : Plan(q, goals).steps = q /\ Plan(q, goals).claims = FALSE
  BY PlanFieldsMade
<1> QED  BY <1>2, <1>5, <1>6, <1>7 DEF PlainPlan, PromptPlan

LEMMA RemoveSound ==
    ASSUME NEW c
    PROVE  SoundPlan(c, systemlessOperation.remove) /\ systemlessOperation.remove.claims = FALSE
<1> DEFINE k  == Check(Exists("staged"))
           s1 == Otherwise(Check(Has("mounts", "it")), 4)
           s2 == Run(Leave("mounts", "it"))
           s3 == CheckUnread(Lacks("mounts", "it"))
           s4 == Then(Otherwise(Check(Gone("staged")), 1), 4)
           s5 == Answering(k, "failed")
           s7 == Own(Clear("staged"))
           q  == <<s1, s2, s3, s4, s5, Argument, s7>>
           goals == {Lacks("mounts", "it"), Gone("staged")}
<1>1. /\ Plain(c, Check(Has("mounts", "it"))) /\ Plain(c, s2) /\ Plain(c, s3) /\ Plain(c, s7) /\ Plain(c, k)
  BY Commands DEF Straight, Free, Values
<1>2. Plain(c, s1) /\ Plain(c, s5)
  BY <1>1, ManyPlains
<1>3. Plain(c, s4)
  <2>1. Plain(c, Check(Gone("staged")))
    BY Commands DEF Straight
  <2>2. Plain(c, Otherwise(Check(Gone("staged")), 1))
    BY <2>1, ManyPlains
  <2> QED  BY <2>2, ManyPlains
<1>4. systemlessOperation.remove = Plan(q, goals)
  BY DEF systemlessOperation
<1> HIDE DEF k, s1, s2, s3, s4, s5, s7, goals
<1>5. /\ DOMAIN q = 1..Len(q) /\ Len(q) = 7 /\ q[1] = s1 /\ q[2] = s2 /\ q[3] = s3 /\ q[4] = s4
      /\ q[5] = s5 /\ q[6] = Argument /\ q[7] = s7
  OBVIOUS
<1>6. FineSteps(c, q)
  BY <1>1, <1>2, <1>3, <1>5, ArgumentFine DEF FineSteps, Plain, Shaped
<1> QED  BY <1>4, <1>6, PlanMade, PlanFieldsMade

----------------------------------------------------------------------------
(* The accessibility services.                                             *)

\* Two rounds of a command and its readback after the list has been read.
AccessibilitySteps(q, change) ==
    /\ Len(q) = 5
    /\ Shaped(q[1], "remember", <<change>>, 1, 0)
    /\ Shaped(q[2], "run", <<WrittenAsRead, WrittenAsRead>>, 1, 0)
    /\ Shaped(q[3], "check", <<WrittenAsRead>>, 1, 0)
    /\ Shaped(q[4], "run", <<FlagAsRead, FlagAsRead>>, 1, 0)
    /\ Shaped(q[5], "check", <<FlagAsRead>>, 1, 0)
    /\ \A i \in 1..5 : ~q[i].unread /\ q[i].code \in {"failed", "verify_failed"}

LEMMA AccessibilityMade ==
    ASSUME NEW c, NEW change, NEW goal, FineEffects(c, change), change # {}
    PROVE  LET p == Accessibility(change, goal) IN
           /\ PromptPlan(c, p) /\ AccessibilitySteps(p.steps, change)
           /\ p.goals = {goal, Follows("accessibility_flag")}
<1> DEFINE s1 == Remember(change)
           s2 == Run2(WrittenAsRead)
           s3 == CheckWritten(WrittenAsRead)
           s4 == Run2(FlagAsRead)
           s5 == CheckWritten(FlagAsRead)
           q  == <<s1, s2, s3, s4, s5>>
           goals == {goal, Follows("accessibility_flag")}
<1>1. FineEffects(c, WrittenAsRead) /\ FineEffects(c, FlagAsRead)
  BY DEF FineEffects, FineEffect, WrittenAsRead, FlagAsRead, Effect, Values
<1>2. Plain(c, s2) /\ Plain(c, s3) /\ Plain(c, s4) /\ Plain(c, s5)
  BY <1>1, Commands DEF Straight
<1>3. IsStep(s1, "remember", <<change>>, NoTest, "failed")
  BY StepMade
<1>4. FineStep(c, s1)
  <2> DEFINE u == <<change>>
  <2>1. /\ DOMAIN u = 1..Len(u) /\ Len(u) \in Nat /\ Len(u) > 0 /\ u[1] # {}
        /\ \A i \in 1..Len(u) : FineEffects(c, u[i])
    OBVIOUS
  <2>2. IsStep(s1, "remember", u, NoTest, "failed")
    BY <1>3
  <2> HIDE DEF u, s1
  <2> QED  BY <2>1, <2>2 DEF FineStep, IsStep, Answers
<1>5. /\ IsStep(s2, "run", <<WrittenAsRead, WrittenAsRead>>, NoTest, "failed")
      /\ IsStep(s3, "check", <<WrittenAsRead>>, NoTest, "verify_failed")
      /\ IsStep(s4, "run", <<FlagAsRead, FlagAsRead>>, NoTest, "failed")
      /\ IsStep(s5, "check", <<FlagAsRead>>, NoTest, "verify_failed")
  BY StepMade
<1>6. Accessibility(change, goal) = Claiming(q, goals)
  BY DEF Accessibility
<1> HIDE DEF s1, s2, s3, s4, s5, goals
<1>7. /\ DOMAIN q = 1..Len(q) /\ Len(q) = 5 /\ q[1] = s1 /\ q[2] = s2 /\ q[3] = s3 /\ q[4] = s4 /\ q[5] = s5
  OBVIOUS
<1> HIDE DEF q
<1>8. FineSteps(c, q)
  BY <1>2, <1>4, <1>7 DEF FineSteps, Plain
<1>9. Prompt(q)
  BY <1>2, <1>3, <1>7 DEF Prompt, Plain, IsStep
<1>10. AccessibilitySteps(q, change)
  <2>1. /\ Shaped(s1, "remember", <<change>>, 1, 0)
        /\ Shaped(s2, "run", <<WrittenAsRead, WrittenAsRead>>, 1, 0)
        /\ Shaped(s3, "check", <<WrittenAsRead>>, 1, 0)
        /\ Shaped(s4, "run", <<FlagAsRead, FlagAsRead>>, 1, 0)
        /\ Shaped(s5, "check", <<FlagAsRead>>, 1, 0)
    BY <1>3, <1>5 DEF IsStep, Shaped
  <2>2. \A s \in {s1, s2, s3, s4, s5} : ~s.unread /\ s.code \in {"failed", "verify_failed"}
    BY <1>3, <1>5 DEF IsStep
  <2>3. \A i \in 1..5 : q[i] \in {s1, s2, s3, s4, s5}
    BY <1>7
  <2> QED  BY <1>7, <2>1, <2>2, <2>3 DEF AccessibilitySteps
<1>11. /\ SoundPlan(c, Claiming(q, goals))
       /\ Claiming(q, goals).steps = q /\ Claiming(q, goals).goals = goals
  BY <1>8, PlanMade, PlanFieldsMade
<1> QED  BY <1>6, <1>9, <1>10, <1>11 DEF PromptPlan, goals

LEMMA AccessibilityPlans ==
    ASSUME NEW c
    PROVE  LET t == accessibilityOperation(c) IN
           /\ PlainPlan(c, t.get)
           /\ PromptPlan(c, t.enable) /\ AccessibilitySteps(t.enable.steps, Join("accessibility", c))
           /\ t.enable.goals = {Has("accessibility", c), Follows("accessibility_flag")}
           /\ PromptPlan(c, t.disable) /\ AccessibilitySteps(t.disable.steps, Leave("accessibility", c))
           /\ t.disable.goals = {Lacks("accessibility", c), Follows("accessibility_flag")}
<1> DEFINE J == Join("accessibility", c)
           L == Leave("accessibility", c)
<1>1. FineEffects(c, J) /\ FineEffects(c, L)
  BY Commands DEF Free, Values
<1>2. J # {} /\ L # {}
  BY DEF Join, Leave
<1>3. /\ accessibilityOperation(c).enable = Accessibility(J, Has("accessibility", c))
      /\ accessibilityOperation(c).disable = Accessibility(L, Lacks("accessibility", c))
      /\ accessibilityOperation(c).get = Plan(<<Remember(J), Whatever(Check(NoTest))>>, {})
  BY DEF accessibilityOperation
<1>4. PlainPlan(c, accessibilityOperation(c).get)
  <2> DEFINE s1 == Remember(J)
             s2 == Whatever(Check(NoTest))
             q  == <<s1, s2>>
  <2> HIDE DEF J
  <2>1. IsStep(s1, "remember", <<J>>, NoTest, "failed")
    BY StepMade
  <2>2. FineStep(c, s1)
    <3> DEFINE u == <<J>>
    <3>1. /\ DOMAIN u = 1..Len(u) /\ Len(u) \in Nat /\ Len(u) > 0 /\ u[1] # {}
          /\ \A i \in 1..Len(u) : FineEffects(c, u[i])
      BY <1>1, <1>2
    <3>2. IsStep(s1, "remember", u, NoTest, "failed")
      BY <2>1
    <3> HIDE DEF u, s1
    <3> QED  BY <3>1, <3>2 DEF FineStep, IsStep, Answers
  <2>3. Plain(c, s2)
    BY Commands
  <2>4. s1.kind = "remember" /\ s1.code = "failed"
    BY <2>1 DEF IsStep
  <2>5. accessibilityOperation(c).get = Plan(q, {})
    BY <1>3
  <2> HIDE DEF s1, s2
  <2>6. DOMAIN q = 1..Len(q) /\ Len(q) = 2 /\ q[1] = s1 /\ q[2] = s2
    OBVIOUS
  <2> HIDE DEF q
  <2>7. FineSteps(c, q) /\ Prompt(q)
    BY <2>2, <2>3, <2>4, <2>6 DEF FineSteps, Prompt, Plain
  <2>8. SoundPlan(c, Plan(q, {})) /\ Plan(q, {}).steps = q /\ Plan(q, {}).claims = FALSE
    BY <2>7, PlanMade, PlanFieldsMade
  <2> QED  BY <2>5, <2>7, <2>8 DEF PlainPlan, PromptPlan
<1> HIDE DEF J, L
<1>5. /\ PromptPlan(c, Accessibility(J, Has("accessibility", c)))
      /\ AccessibilitySteps(Accessibility(J, Has("accessibility", c)).steps, J)
      /\ Accessibility(J, Has("accessibility", c)).goals = {Has("accessibility", c), Follows("accessibility_flag")}
  BY <1>1, <1>2, AccessibilityMade
<1>6. /\ PromptPlan(c, Accessibility(L, Lacks("accessibility", c)))
      /\ AccessibilitySteps(Accessibility(L, Lacks("accessibility", c)).steps, L)
      /\ Accessibility(L, Lacks("accessibility", c)).goals = {Lacks("accessibility", c), Follows("accessibility_flag")}
  BY <1>1, <1>2, AccessibilityMade
<1> QED  BY <1>3, <1>4, <1>5, <1>6 DEF J, L

LEMMA InstallPlans ==
    ASSUME NEW c
    PROVE  LET t == appInstall(c) IN
           /\ PlainPlan(c, t.session_create) /\ PlainPlan(c, t.session_write)
           /\ PlainPlan(c, t.session_commit) /\ PlainPlan(c, t.session_abandon)
<1> DEFINE J == Join("sessions", c)
           L == Leave("sessions", c)
           M == Leave("sessions", c) \cup Join("packages", "it")
<1>1. FineEffects(c, J) /\ FineEffects(c, L) /\ FineEffects(c, M) /\ FineEffects(c, {})
  BY EffectFacts
<1>2. /\ appInstall(c).session_create = Plan(<<Run2(J), Parse>>, {})
      /\ appInstall(c).session_write = Plan(<<Local, Run2({})>>, {})
      /\ appInstall(c).session_commit = Plan(<<Run2(M)>>, {})
      /\ appInstall(c).session_abandon = Plan(<<Run2(L)>>, {})
  BY DEF appInstall
<1> HIDE DEF J, L, M
<1>3. /\ Plain(c, Run2(J)) /\ Plain(c, Run2(L)) /\ Plain(c, Run2(M)) /\ Plain(c, Run2({}))
      /\ Plain(c, Parse) /\ Plain(c, Local)
  BY <1>1, MadePlain
<1> QED  BY <1>2, <1>3, PlainPlans

\* The requests that install keep their session after the first o steps.
Installs  == {"install", "install_named", "xapk"}
Offset(a) == IF a = "xapk" THEN 2 ELSE 1

\* What the invariants need to know of the plan of a request.
GoodPlan(c, t, a, p) ==
    /\ SoundPlan(c, p)
    /\ <<t, a>> \notin Late => Prompt(p.steps)
    /\ p.claims /\ <<t, a>> \notin Misread /\ ~(t = "accessibility" /\ a \in {"enable", "disable"}) => Guarded(p)
    /\ t = "app_install" /\ a \in Installs => SessionSteps(c, p.steps, Offset(a))
    /\ t = "accessibility" /\ a = "enable" =>
         /\ AccessibilitySteps(p.steps, Join("accessibility", c))
         /\ p.goals = {Has("accessibility", c), Follows("accessibility_flag")}
    /\ t = "accessibility" /\ a = "disable" =>
         /\ AccessibilitySteps(p.steps, Leave("accessibility", c))
         /\ p.goals = {Lacks("accessibility", c), Follows("accessibility_flag")}

LEMMA GoodPlans ==
    ASSUME NEW c, NEW t, NEW a, NEW p, t \notin {"accessibility", "app_install"}
    PROVE  /\ PlainPlan(c, p) => GoodPlan(c, t, a, p)
           /\ PromptPlan(c, p) /\ <<t, a>> \in Misread => GoodPlan(c, t, a, p)
           /\ SoundPlan(c, p) /\ <<t, a>> \in Late /\ (p.claims => Guarded(p)) => GoodPlan(c, t, a, p)
BY DEF GoodPlan, PlainPlan, PromptPlan

LEMMA TableFacts ==
    ASSUME NEW c \in Callers
    PROVE  /\ DOMAIN executeSync[c] = {"service", "property", "setting", "display", "audio", "connectivity",
                                            "locale_time", "input_method", "app_policy", "default_app",
                                            "notification", "accessibility", "developer", "app_install",
                                            "app_manage", "app_permission", "app_export", "root_module",
                                            "systemless", "power", "screen", "input", "log", "process"}
           /\ executeSync[c].service = serviceOperation
           /\ executeSync[c].property = propertyOperation
           /\ executeSync[c].setting = settingOperation
           /\ executeSync[c].display = displayOperation
           /\ executeSync[c].audio = audioOperation
           /\ executeSync[c].connectivity = connectivityOperation
           /\ executeSync[c].locale_time = localeTimeOperation
           /\ executeSync[c].input_method = inputMethodOperation
           /\ executeSync[c].app_policy = appPolicyOperation
           /\ executeSync[c].default_app = defaultAppOperation
           /\ executeSync[c].notification = notificationOperation
           /\ executeSync[c].accessibility = accessibilityOperation(c)
           /\ executeSync[c].developer = developerOperation
           /\ executeSync[c].app_install = appInstall(c)
           /\ executeSync[c].app_manage = appManage
           /\ executeSync[c].app_permission = appPermission
           /\ executeSync[c].app_export = appExport
           /\ executeSync[c].root_module = rootModuleOperation
           /\ executeSync[c].systemless = systemlessOperation
           /\ executeSync[c].power = powerOperation
           /\ executeSync[c].screen = screenOperation
           /\ executeSync[c].input = inputOperation
           /\ executeSync[c].log = logOperation
           /\ executeSync[c].process = processOperation
BY DEF executeSync

\* Every plan is good.
LEMMA TablesGood ==
    ASSUME NEW c \in Callers, NEW t \in DOMAIN executeSync[c], NEW a \in DOMAIN executeSync[c][t]
    PROVE  GoodPlan(c, t, a, executeSync[c][t][a])
<1>1. CASE t = "service"
  BY <1>1, TableFacts, ServicePlans, GoodPlans
<1>2. CASE t = "property"
  BY <1>2, TableFacts, PropertyPlans, GoodPlans
<1>3. CASE t = "setting"
  BY <1>3, TableFacts, SettingPlans, GoodPlans
<1>4. CASE t = "display"
  BY <1>4, TableFacts, DisplayPlans, GoodPlans
<1>5. CASE t = "audio"
  BY <1>5, TableFacts, AudioPlans, GoodPlans
<1>6. CASE t = "connectivity"
  <2>1. executeSync[c][t] = connectivityOperation
    BY <1>6, TableFacts
  <2>2. ASSUME a \notin {"private_dns_host"} PROVE GoodPlan(c, t, a, connectivityOperation[a])
    BY <1>6, <2>1, <2>2, ConnectivityPlans, GoodPlans
  <2>3. GoodPlan(c, t, "private_dns_host", connectivityOperation.private_dns_host)
    BY <1>6, PrivateDNSSound, GoodPlans DEF Late
  <2> QED  BY <2>1, <2>2, <2>3
<1>7. CASE t = "locale_time"
  BY <1>7, TableFacts, LocaleTimePlans, GoodPlans
<1>8. CASE t = "input_method"
  BY <1>8, TableFacts, InputMethodPlans, GoodPlans
<1>9. CASE t = "app_policy"
  <2>1. executeSync[c][t] = appPolicyOperation
    BY <1>9, TableFacts
  <2>2. ASSUME a \notin {"battery_allow"} PROVE GoodPlan(c, t, a, appPolicyOperation[a])
    BY <1>9, <2>1, <2>2, PolicyPlans, GoodPlans
  <2>3. GoodPlan(c, t, "battery_allow", appPolicyOperation.battery_allow)
    BY <1>9, MisreadPlans, GoodPlans DEF Misread
  <2> QED  BY <2>1, <2>2, <2>3
<1>10. CASE t = "default_app"
  <2>1. executeSync[c][t] = defaultAppOperation
    BY <1>10, TableFacts
  <2>2. ASSUME a \notin {"set", "set_user"} PROVE GoodPlan(c, t, a, defaultAppOperation[a])
    BY <1>10, <2>1, <2>2, DefaultAppPlans, GoodPlans
  <2>3. GoodPlan(c, t, "set", defaultAppOperation.set)
    BY <1>10, MisreadPlans, GoodPlans DEF Misread
  <2>4. GoodPlan(c, t, "set_user", defaultAppOperation.set_user)
    BY <1>10, MisreadPlans, GoodPlans DEF Misread
  <2> QED  BY <2>1, <2>2, <2>3, <2>4
<1>11. CASE t = "notification"
  <2>1. executeSync[c][t] = notificationOperation
    BY <1>11, TableFacts
  <2>2. ASSUME a \notin {"allow_listener"} PROVE GoodPlan(c, t, a, notificationOperation[a])
    BY <1>11, <2>1, <2>2, NotificationPlans, GoodPlans
  <2>3. GoodPlan(c, t, "allow_listener", notificationOperation.allow_listener)
    BY <1>11, MisreadPlans, GoodPlans DEF Misread
  <2> QED  BY <2>1, <2>2, <2>3
<1>12. CASE t = "accessibility"
  <2>1. executeSync[c][t] = accessibilityOperation(c)
    BY <1>12, TableFacts
  <2>2. DOMAIN accessibilityOperation(c) = {"get", "enable", "disable"}
    BY DEF accessibilityOperation
  <2>3. /\ GoodPlan(c, t, "get", accessibilityOperation(c).get)
        /\ GoodPlan(c, t, "enable", accessibilityOperation(c).enable)
        /\ GoodPlan(c, t, "disable", accessibilityOperation(c).disable)
    BY <1>12, AccessibilityPlans DEF GoodPlan, PlainPlan, PromptPlan
  <2> QED  BY <2>1, <2>2, <2>3
<1>13. CASE t = "developer"
  BY <1>13, TableFacts, DeveloperPlans, GoodPlans
<1>14. CASE t = "app_install"
  <2>1. executeSync[c][t] = appInstall(c)
    BY <1>14, TableFacts
  <2>2. DOMAIN appInstall(c) = {"install", "install_named", "xapk", "session_create", "session_write",
                                "session_commit", "session_abandon"}
    BY DEF appInstall
  <2>3. /\ GoodPlan(c, t, "install", appInstall(c).install)
        /\ GoodPlan(c, t, "install_named", appInstall(c).install_named)
        /\ GoodPlan(c, t, "xapk", appInstall(c).xapk)
    BY <1>14, InstallPlain DEF GoodPlan, PlainPlan, PromptPlan, Offset
  <2>4. \A x \in {"session_create", "session_write", "session_commit", "session_abandon"} :
          GoodPlan(c, t, x, appInstall(c)[x])
    BY <1>14, InstallPlans DEF GoodPlan, PlainPlan, PromptPlan, Installs
  <2> QED  BY <2>1, <2>2, <2>3, <2>4
<1>15. CASE t = "app_manage"
  <2>1. executeSync[c][t] = appManage
    BY <1>15, TableFacts
  <2>2. ASSUME a \notin {"uninstall"} PROVE GoodPlan(c, t, a, appManage[a])
    BY <1>15, <2>1, <2>2, ManagePlans, GoodPlans
  <2>3. GoodPlan(c, t, "uninstall", appManage.uninstall)
    BY <1>15, MisreadPlans, GoodPlans DEF Misread
  <2> QED  BY <2>1, <2>2, <2>3
<1>16. CASE t = "app_permission"
  <2>1. executeSync[c][t] = appPermission
    BY <1>16, TableFacts
  <2>2. ASSUME a \notin {"revoke"} PROVE GoodPlan(c, t, a, appPermission[a])
    BY <1>16, <2>1, <2>2, PermissionPlans, GoodPlans
  <2>3. GoodPlan(c, t, "revoke", appPermission.revoke)
    BY <1>16, MisreadPlans, GoodPlans DEF Misread
  <2> QED  BY <2>1, <2>2, <2>3
<1>17. CASE t = "app_export"
  BY <1>17, TableFacts, ExportPlans, GoodPlans
<1>18. CASE t = "root_module"
  BY <1>18, TableFacts, ModulePlans, GoodPlans
<1>19. CASE t = "systemless"
  <2>1. executeSync[c][t] = systemlessOperation
    BY <1>19, TableFacts
  <2>2. ASSUME a \notin {"remove"} PROVE GoodPlan(c, t, a, systemlessOperation[a])
    BY <1>19, <2>1, <2>2, SystemlessPlans, GoodPlans
  <2>3. GoodPlan(c, t, "remove", systemlessOperation.remove)
    BY <1>19, RemoveSound, GoodPlans DEF Late
  <2> QED  BY <2>1, <2>2, <2>3
<1>20. CASE t = "power"
  BY <1>20, TableFacts, PowerPlans, GoodPlans
<1>21. CASE t = "screen"
  <2>1. executeSync[c][t] = screenOperation
    BY <1>21, TableFacts
  <2>2. ASSUME a \notin {"record"} PROVE GoodPlan(c, t, a, screenOperation[a])
    BY <1>21, <2>1, <2>2, ScreenPlans, GoodPlans
  <2>3. GoodPlan(c, t, "record", screenOperation.record)
    BY <1>21, RecordPlain, GoodPlans
  <2> QED  BY <2>1, <2>2, <2>3
<1>22. CASE t = "input"
  BY <1>22, TableFacts, InputPlans, GoodPlans
<1>23. CASE t = "log"
  BY <1>23, TableFacts, LogPlans, GoodPlans
<1>24. CASE t = "process"
  BY <1>24, TableFacts, ProcessPlans, GoodPlans
<1> QED  BY TableFacts, <1>1, <1>2, <1>3, <1>4, <1>5, <1>6, <1>7, <1>8, <1>9, <1>10, <1>11, <1>12, <1>13, <1>14, <1>15, <1>16, <1>17, <1>18, <1>19, <1>20, <1>21, <1>22, <1>23, <1>24

LEMMA PlansGood ==
    ASSUME NEW c \in Callers, NEW q \in Requests
    PROVE  \E t, a : /\ q = <<t, a>> /\ t \in DOMAIN executeSync[c] /\ a \in DOMAIN executeSync[c][t]
                     /\ Plans[c][q] = executeSync[c][t][a] /\ GoodPlan(c, t, a, Plans[c][q])
<1>1. PICK d \in Callers, t \in Tools : q \in {<<t, a>> : a \in DOMAIN executeSync[d][t]}
  BY DEF Requests
<1>2. PICK a \in DOMAIN executeSync[d][t] : q = <<t, a>>
  BY <1>1
<1>3. t \in DOMAIN executeSync[c]
  <2>1. \E x : x \in Callers
    OBVIOUS
  <2>2. (CHOOSE x \in Callers : TRUE) \in Callers
    BY <2>1
  <2> QED  BY <2>2, TableFacts DEF Tools
<1>4. a \in DOMAIN executeSync[c][t]
  <2>1. DOMAIN accessibilityOperation(c) = DOMAIN accessibilityOperation(d)
    BY DEF accessibilityOperation
  <2>2. DOMAIN appInstall(c) = DOMAIN appInstall(d)
    BY DEF appInstall
  <2>3. DOMAIN executeSync[c][t] = DOMAIN executeSync[d][t]
    BY <1>3, <2>1, <2>2, TableFacts
  <2> QED  BY <2>3
<1>5. Plans[c][q] = executeSync[c][t][a]
  BY <1>2 DEF Plans
<1> QED  BY <1>2, <1>3, <1>4, <1>5, TablesGood

----------------------------------------------------------------------------
(* The cells and tokens that commands know.                                *)

LEMMA EffectKnown ==
    ASSUME NEW c \in Callers, NEW q \in Requests, NEW i \in 1..Len(Plans[c][q].steps),
           NEW k \in 1..Len(Plans[c][q].steps[i].variants), NEW e \in Plans[c][q].steps[i].variants[k]
    PROVE  e.cell \in Cells /\ e.add \subseteq Tokens
<1> DEFINE steps == Plans[c][q].steps
<1>1. /\ DOMAIN steps = 1..Len(steps) /\ FineStep(c, steps[i])
  BY PlansGood DEF GoodPlan, SoundPlan, FineSteps
<1>2. DOMAIN steps[i].variants = 1..Len(steps[i].variants)
  BY <1>1 DEF FineStep
<1>3. steps[i] \in Range(steps)
  BY <1>1 DEF Range
<1>4. e \in EffectsOf(steps)
  BY <1>2, <1>3 DEF EffectsOf
<1>5. e \in AllEffects
  BY <1>4 DEF AllEffects
<1> QED  BY <1>5 DEF Cells, Tokens

LEMMA RequestKnown ==
    ASSUME NEW c \in Callers, NEW t \in DOMAIN executeSync[c], NEW a \in DOMAIN executeSync[c][t]
    PROVE  <<t, a>> \in Requests /\ Plans[c][<<t, a>>] = executeSync[c][t][a]
<1>1. t \in Tools
  <2>1. (CHOOSE x \in Callers : TRUE) \in Callers
    OBVIOUS
  <2> QED  BY <2>1, TableFacts DEF Tools
<1> DEFINE S(d, u) == {<<u, b>> : b \in DOMAIN executeSync[d][u]}
<1>2. <<t, a>> \in S(c, t)
  OBVIOUS
<1>3. Requests = UNION {S(d, u) : d \in Callers, u \in Tools}
  BY DEF Requests
<1> HIDE DEF S
<1>4. <<t, a>> \in Requests
  BY <1>1, <1>2, <1>3
<1> QED  BY <1>4 DEF Plans

LEMMA FirstEffect ==
    ASSUME NEW c \in Callers, NEW t \in DOMAIN executeSync[c], NEW a \in DOMAIN executeSync[c][t],
           NEW q, executeSync[c][t][a].steps = q, Len(q) > 0, Len(q) \in Nat,
           NEW E, q[1].variants[1] = E, Len(q[1].variants) \in Nat, Len(q[1].variants) > 0, NEW e \in E
    PROVE  e.cell \in Cells /\ e.add \subseteq Tokens
<1>2. <<t, a>> \in Requests
  BY RequestKnown
<1>3. Plans[c][<<t, a>>] = executeSync[c][t][a]
  BY RequestKnown
<1>4. 1 \in 1..Len(q) /\ 1 \in 1..Len(q[1].variants)
  OBVIOUS
<1>5. /\ 1 \in 1..Len(Plans[c][<<t, a>>].steps) /\ 1 \in 1..Len(Plans[c][<<t, a>>].steps[1].variants)
      /\ e \in Plans[c][<<t, a>>].steps[1].variants[1]
  BY <1>3, <1>4
<1> HIDE DEF Plans
<1> QED  BY <1>2, <1>5, EffectKnown

LEMMA Known ==
    ASSUME NEW c \in Callers
    PROVE  /\ {"on", "off", "it", "old", "it.longer"} \subseteq Tokens
           /\ Values \cup {"sessions", "accessibility", "accessibility_flag"} \subseteq Cells
<1>2. \A E : /\ Run(E).variants[1] = E /\ Len(Run(E).variants) = 1
             /\ Run2(E).variants[1] = E /\ Len(Run2(E).variants) = 2
  <2> TAKE E
  <2>1. Run(E).variants = <<E>> /\ Run2(E).variants = <<E, E>>
    BY StepMade DEF IsStep
  <2> QED  BY <2>1
<1>3. \A cell, v : /\ \E e \in Set(cell, v) : e.cell = cell /\ e.add = {v}
                   /\ \E e \in Join(cell, v) : e.cell = cell /\ e.add = {v}
  BY DEF Set, Join, Effect
<1>4. ASSUME NEW t \in DOMAIN executeSync[c], NEW a \in DOMAIN executeSync[c][t], NEW E, NEW F,
             \/ executeSync[c][t][a].steps = <<Run(E), F>>
             \/ executeSync[c][t][a].steps = <<Run2(E), F>>
             \/ executeSync[c][t][a].steps = <<Run(E)>>
      PROVE  \A e \in E : e.cell \in Cells /\ e.add \subseteq Tokens
  <2> DEFINE q == executeSync[c][t][a].steps
  <2>1. CASE q = <<Run(E), F>>
    <3>1. Len(q) = 2 /\ q[1] = Run(E)
      BY <2>1
    <3>2. Len(q[1].variants) = 1 /\ q[1].variants[1] = E
      BY <1>2, <3>1
    <3> QED  BY <3>1, <3>2, FirstEffect
  <2>2. CASE q = <<Run2(E), F>>
    <3>1. Len(q) = 2 /\ q[1] = Run2(E)
      BY <2>2
    <3>2. Len(q[1].variants) = 2 /\ q[1].variants[1] = E
      BY <1>2, <3>1
    <3> QED  BY <3>1, <3>2, FirstEffect
  <2>3. CASE q = <<Run(E)>>
    <3>1. Len(q) = 1 /\ q[1] = Run(E)
      BY <2>3
    <3>2. Len(q[1].variants) = 1 /\ q[1].variants[1] = E
      BY <1>2, <3>1
    <3> QED  BY <3>1, <3>2, FirstEffect
  <2> QED  BY <1>4, <2>1, <2>2, <2>3
<1>5. /\ executeSync[c].developer.adb.steps = <<Run2(Set("adb", "on")), CheckWritten(Set("adb", "on"))>>
      /\ executeSync[c].developer.adb_off.steps = <<Run2(Set("adb", "off")), CheckWritten(Set("adb", "off"))>>
      /\ executeSync[c].developer.mock_location.steps = <<Run2(Set("mock", "allow")), Check(Prints("mock", "allow"))>>
      /\ "developer" \in DOMAIN executeSync[c]
      /\ {"adb", "adb_off", "mock_location"} \subseteq DOMAIN executeSync[c].developer
  BY TableFacts, PlanFieldsMade DEF developerOperation, PutSetting, settingsPutVerified
<1>6. /\ executeSync[c].display.dark_mode.steps = <<Run(Set("night", "yes")), Check(Prints("night", "yes"))>>
      /\ "display" \in DOMAIN executeSync[c] /\ "dark_mode" \in DOMAIN executeSync[c].display
  BY TableFacts, PlanFieldsMade DEF displayOperation
<1>7. /\ executeSync[c].app_policy.background.steps
           = <<Run(Set("background", "ignore")), Check(Prints("background", "ignore"))>>
      /\ "app_policy" \in DOMAIN executeSync[c] /\ "background" \in DOMAIN executeSync[c].app_policy
  BY TableFacts, PlanFieldsMade DEF appPolicyOperation
<1>8. /\ executeSync[c].app_permission.appop_set.steps = <<Run(Set("appop", "v")), Check(Prints("appop", "v"))>>
      /\ "app_permission" \in DOMAIN executeSync[c] /\ "appop_set" \in DOMAIN executeSync[c].app_permission
  BY TableFacts, PlanFieldsMade DEF appPermission
<1>9. /\ executeSync[c].input_method.enable.steps = <<Run(Join("ime", "it"))>>
      /\ "input_method" \in DOMAIN executeSync[c] /\ "enable" \in DOMAIN executeSync[c].input_method
  BY TableFacts, PlanFieldsMade DEF inputMethodOperation
<1>10. /\ executeSync[c].app_install.session_create.steps = <<Run2(Join("sessions", c)), Parse>>
       /\ "app_install" \in DOMAIN executeSync[c] /\ "session_create" \in DOMAIN executeSync[c].app_install
  <2>1. "app_install" \in DOMAIN executeSync[c] /\ executeSync[c].app_install = appInstall(c)
    BY TableFacts
  <2>2. /\ appInstall(c).session_create = Plan(<<Run2(Join("sessions", c)), Parse>>, {})
        /\ "session_create" \in DOMAIN appInstall(c)
    BY DEF appInstall
  <2> QED  BY <2>1, <2>2, PlanFieldsMade
<1>11. /\ "accessibility" \in Cells /\ "accessibility_flag" \in Cells
  <2>0. "accessibility" \in DOMAIN executeSync[c] /\ executeSync[c]["accessibility"] = accessibilityOperation(c)
    BY TableFacts
  <2>1. "enable" \in DOMAIN accessibilityOperation(c)
    BY DEF accessibilityOperation
  <2> DEFINE r == <<"accessibility", "enable">>
             q == Plans[c][r].steps
  <2>3. r \in Requests /\ Plans[c][r] = accessibilityOperation(c)["enable"]
    BY <2>0, <2>1, RequestKnown
  <2>5. AccessibilitySteps(q, Join("accessibility", c))
    BY <2>3, AccessibilityPlans
  <2>6. /\ Len(q) = 5 /\ q[2].variants = <<WrittenAsRead, WrittenAsRead>>
        /\ q[4].variants = <<FlagAsRead, FlagAsRead>>
    BY <2>5 DEF AccessibilitySteps, Shaped
  <2>7. /\ \E e \in WrittenAsRead : e.cell = "accessibility"
        /\ \E e \in FlagAsRead : e.cell = "accessibility_flag"
    BY DEF WrittenAsRead, FlagAsRead, Effect
  <2>8. /\ 2 \in 1..Len(q) /\ 1 \in 1..Len(q[2].variants) /\ q[2].variants[1] = WrittenAsRead
        /\ 4 \in 1..Len(q) /\ 1 \in 1..Len(q[4].variants) /\ q[4].variants[1] = FlagAsRead
    BY <2>6
  <2> HIDE DEF r
  <2> QED  BY <2>3, <2>7, <2>8, EffectKnown, ZenonT(30)
<1>12. {"on", "off"} \subseteq Tokens /\ "mock" \in Cells
  <2>1. \A e \in Set("adb", "on") : e.add \subseteq Tokens
    BY <1>4, <1>5
  <2>2. \A e \in Set("adb", "off") : e.add \subseteq Tokens
    BY <1>4, <1>5
  <2>3. \A e \in Set("mock", "allow") : e.cell \in Cells
    BY <1>4, <1>5
  <2>4. "on" \in Tokens
    BY <1>3, <2>1
  <2>5. "off" \in Tokens
    BY <1>3, <2>2
  <2>6. "mock" \in Cells
    BY <1>3, <2>3
  <2> QED  BY <2>4, <2>5, <2>6
<1>13. "night" \in Cells
  <2>1. \A e \in Set("night", "yes") : e.cell \in Cells
    BY <1>4, <1>6
  <2> QED  BY <1>3, <2>1
<1>14. "background" \in Cells
  <2>1. \A e \in Set("background", "ignore") : e.cell \in Cells
    BY <1>4, <1>7
  <2> QED  BY <1>3, <2>1
<1>15. "appop" \in Cells
  <2>1. \A e \in Set("appop", "v") : e.cell \in Cells
    BY <1>4, <1>8
  <2> QED  BY <1>3, <2>1
<1>16. "it" \in Tokens
  <2>1. \A e \in Join("ime", "it") : e.add \subseteq Tokens
    BY <1>4, <1>9
  <2> QED  BY <1>3, <2>1
<1>17. "sessions" \in Cells
  <2>1. \A e \in Join("sessions", c) : e.cell \in Cells
    BY <1>4, <1>10
  <2> QED  BY <1>3, <2>1
<1>18. {"old", "it.longer"} \subseteq Tokens
  <2>1. \E X : Tokens = X \cup {"old", "it.longer"}
    BY Zenon DEF Tokens
  <2> QED  BY <2>1
<1> QED  BY <1>11, <1>12, <1>13, <1>14, <1>15, <1>16, <1>17, <1>18 DEF Values

----------------------------------------------------------------------------
(* What a step does, whatever the plan.                                    *)

CallFields    == {"request", "plan", "pc", "variant", "list", "partial", "cancelled", "answer"}
HistoryFields == {"met", "before", "alone", "blind", "adrift", "changed"}

\* Caller c waits, or is somewhere in the plan of a request.
Placed(c) ==
    /\ DOMAIN call[c] = CallFields
    /\ call[c].answer \in Answers /\ call[c].list \subseteq Tokens
    /\ \/ call[c] = Idle
       \/ /\ call[c].request \in Requests /\ call[c].plan = Plans[c][call[c].request]
          /\ call[c].pc \in Nat \ {0}
    /\ Running(c) =>
         /\ call[c].pc \in 1..Len(PlanOf(c).steps) /\ call[c].variant \in Nat \ {0}
         /\ StepOf(c).kind = "run" => call[c].variant <= Len(StepOf(c).variants)
         /\ StepOf(c).kind # "run" => call[c].variant = 1

\* The first part of every invariant.
Shape ==
    /\ device \in [Cells -> SUBSET Tokens]
    /\ DOMAIN call = Callers /\ DOMAIN history = Callers
    /\ \A c \in Callers : Placed(c) /\ DOMAIN history[c] = HistoryFields

\* Nothing but caller c's place in its plan changes.
Elsewhere(c) ==
    /\ DOMAIN call' = Callers /\ DOMAIN call'[c] = CallFields
    /\ \A o \in Callers : o # c => call'[o] = call[o]
    /\ call'[c].request = call[c].request /\ call'[c].plan = call[c].plan
    /\ call'[c].cancelled = call[c].cancelled

\* Caller c jumps, to an answer or to another step.
Landed(c, jump) ==
    /\ Elsewhere(c) /\ call'[c].list = call[c].list
    /\ call'[c].pc = call[c].pc + jump /\ call'[c].variant = 1
    /\ jump = 0 => call'[c].answer = StepOf(c).code
    /\ jump # 0 /\ call[c].pc + jump > Len(PlanOf(c).steps) =>
          call'[c].answer = IF call'[c].partial THEN "partial" ELSE "done"
    /\ jump # 0 /\ ~(call[c].pc + jump > Len(PlanOf(c).steps)) => call'[c].answer = "none"

Succeeded(c) == Landed(c, StepOf(c).next) /\ (call'[c].partial <=> call[c].partial)
Failed(c)    ==
    /\ Landed(c, StepOf(c).orElse)
    /\ call'[c].partial <=> (call[c].partial \/ (StepOf(c).orElse # 0 /\ StepOf(c).code = "partial"))

\* The next variant of the command is tried.
Retried(c) ==
    /\ Elsewhere(c) /\ call'[c].list = call[c].list /\ call'[c].pc = call[c].pc
    /\ call'[c].variant = call[c].variant + 1 /\ call'[c].answer = call[c].answer
    /\ call'[c].partial = call[c].partial

\* The running calls see the device as it is after the step.
Recorded(c) ==
    /\ DOMAIN history' = Callers
    /\ \A o \in Callers :
         /\ DOMAIN history'[o] = HistoryFields
         /\ ~Running(o) => history'[o] = history[o]
         /\ Running(o) =>
              /\ history'[o].met = history[o].met \cup {g \in PlanOf(o).goals : Holds(g, device')}
              /\ history[o].adrift => history'[o].adrift
              /\ history'[o].changed => history[o].changed \/ (o = c /\ device' # device)

LEMMA AdvanceFacts ==
    ASSUME Shape, NEW c \in Callers
    PROVE  /\ Advance(c, TRUE) => Succeeded(c)
           /\ Advance(c, FALSE) => Failed(c)
<1> DEFINE s == StepOf(c)
           r == call[c]
<1>1. DOMAIN call = Callers /\ DOMAIN r = CallFields
  BY DEF Shape, Placed
<1>2. ASSUME NEW jump, NEW part, NEW answer,
             call' = [call EXCEPT ![c].pc = r.pc + jump, ![c].variant = 1, ![c].partial = part, ![c].answer = answer]
      PROVE  /\ Elsewhere(c) /\ call'[c].list = r.list /\ call'[c].pc = r.pc + jump /\ call'[c].variant = 1
             /\ call'[c].partial = part /\ call'[c].answer = answer
  BY <1>1, <1>2 DEF Elsewhere, CallFields
<1> DEFINE over(j) == r.pc + j > Len(PlanOf(c).steps)
           ans(j, part) == CASE j = 0 -> s.code
                             [] j # 0 /\ over(j) -> IF part THEN "partial" ELSE "done"
                             [] j # 0 /\ ~over(j) -> "none"
           lost == r.partial \/ (s.orElse # 0 /\ s.code = "partial")
<1>3. ASSUME NEW j, NEW part
      PROVE  /\ j = 0 => ans(j, part) = s.code
             /\ j # 0 /\ over(j) => ans(j, part) = IF part THEN "partial" ELSE "done"
             /\ j # 0 /\ ~over(j) => ans(j, part) = "none"
  OBVIOUS
<1>4. ASSUME NEW j, NEW part,
             call' = [call EXCEPT ![c].pc = r.pc + j, ![c].variant = 1, ![c].partial = part, ![c].answer = ans(j, part)]
      PROVE  Landed(c, j) /\ call'[c].partial = part
  <2>1. /\ Elsewhere(c) /\ call'[c].list = r.list /\ call'[c].pc = r.pc + j /\ call'[c].variant = 1
        /\ call'[c].partial = part /\ call'[c].answer = ans(j, part)
    BY <1>2, <1>4
  <2> QED  BY <1>3, <2>1 DEF Landed
<1>5. ASSUME Advance(c, TRUE)
      PROVE  \E part : /\ part <=> r.partial
                       /\ call' = [call EXCEPT ![c].pc = r.pc + s.next, ![c].variant = 1, ![c].partial = part,
                                               ![c].answer = ans(s.next, part)]
  <2> DEFINE part == r.partial \/ (~TRUE /\ s.next # 0 /\ s.code = "partial")
  <2>1. call' = [call EXCEPT ![c].pc = r.pc + s.next, ![c].variant = 1, ![c].partial = part,
                             ![c].answer = ans(s.next, part)]
    BY <1>5 DEF Advance
  <2>2. part <=> r.partial
    OBVIOUS
  <2> HIDE DEF part, ans
  <2> QED  BY <2>1, <2>2
<1>6. ASSUME Advance(c, FALSE)
      PROVE  \E part : /\ part <=> lost
                       /\ call' = [call EXCEPT ![c].pc = r.pc + s.orElse, ![c].variant = 1, ![c].partial = part,
                                               ![c].answer = ans(s.orElse, part)]
  <2> DEFINE part == r.partial \/ (~FALSE /\ s.orElse # 0 /\ s.code = "partial")
  <2>1. call' = [call EXCEPT ![c].pc = r.pc + s.orElse, ![c].variant = 1, ![c].partial = part,
                             ![c].answer = ans(s.orElse, part)]
    BY <1>6 DEF Advance
  <2>2. part <=> lost
    OBVIOUS
  <2> HIDE DEF part, ans, lost
  <2> QED  BY <2>1, <2>2
<1> HIDE DEF ans
<1>7. ASSUME Advance(c, TRUE) PROVE Succeeded(c)
  <2>1. PICK part : /\ part <=> r.partial
                    /\ call' = [call EXCEPT ![c].pc = r.pc + s.next, ![c].variant = 1, ![c].partial = part,
                                            ![c].answer = ans(s.next, part)]
    BY <1>5, <1>7
  <2>2. Landed(c, s.next) /\ call'[c].partial = part
    BY <1>4, <2>1, Zenon
  <2> QED  BY <2>1, <2>2, Zenon DEF Succeeded
<1>8. ASSUME Advance(c, FALSE) PROVE Failed(c)
  <2>1. PICK part : /\ part <=> lost
                    /\ call' = [call EXCEPT ![c].pc = r.pc + s.orElse, ![c].variant = 1, ![c].partial = part,
                                            ![c].answer = ans(s.orElse, part)]
    BY <1>6, <1>8
  <2>2. Landed(c, s.orElse) /\ call'[c].partial = part
    BY <1>4, <2>1, Zenon
  <2> QED  BY <2>1, <2>2, Zenon DEF Failed
<1> QED  BY <1>7, <1>8

LEMMA BecomeFacts ==
    ASSUME Shape, NEW c \in Callers, NEW d, NEW blind, NEW adrift, Become(c, d, blind, adrift)
    PROVE  device' = d /\ Recorded(c)
<1>1. \A o \in Callers : DOMAIN history[o] = HistoryFields
  BY DEF Shape, Placed
<1> QED  BY <1>1 DEF Become, Recorded, HistoryFields

LEMMA Applied ==
    ASSUME NEW c, NEW E, NEW d
    PROVE  /\ Apply(c, E, d) = [x \in DOMAIN d |-> Apply(c, E, d)[x]]
           /\ DOMAIN Apply(c, E, d) = DOMAIN d
           /\ \A x \in DOMAIN d :
                /\ (\A e \in E : e.cell # x) => Apply(c, E, d)[x] = d[x]
                /\ (\E e \in E : e.cell = x) => \E e \in E : e.cell = x /\ Apply(c, E, d)[x] = Written(c, e, d)
<1>1. /\ Apply(c, E, d) = [x \in DOMAIN d |-> Apply(c, E, d)[x]]
      /\ DOMAIN Apply(c, E, d) = DOMAIN d
  BY DEF Apply
<1>2. ASSUME NEW x \in DOMAIN d, \A e \in E : e.cell # x PROVE Apply(c, E, d)[x] = d[x]
  BY <1>2 DEF Apply
<1>3. ASSUME NEW x \in DOMAIN d, \E e \in E : e.cell = x
      PROVE  \E e \in E : e.cell = x /\ Apply(c, E, d)[x] = Written(c, e, d)
  <2> DEFINE e == CHOOSE y \in E : y.cell = x
  <2>1. e \in E /\ e.cell = x
    BY <1>3
  <2>2. Apply(c, E, d)[x] = Written(c, e, d)
    BY <1>3 DEF Apply
  <2> QED  BY <2>1, <2>2
<1> QED  BY <1>1, <1>2, <1>3

LEMMA WrittenFacts ==
    ASSUME NEW c, NEW e, NEW d
    PROVE  /\ e.keep = "nothing" => Written(c, e, d) = e.add
           /\ e.keep = "cell" => Written(c, e, d) = (d[e.cell] \ e.drop) \cup e.add
           /\ e.keep = "list" => Written(c, e, d) = (call[c].list \ e.drop) \cup e.add
           /\ e.keep = "flag" =>
                Written(c, e, d) = ((IF call[c].list = {} THEN {"off"} ELSE {"on"}) \ e.drop) \cup e.add
<1>1. ASSUME e.keep = "nothing" PROVE Written(c, e, d) = e.add
  <2>1. Written(c, e, d) = ({} \ e.drop) \cup e.add
    BY <1>1 DEF Written
  <2> QED  BY <2>1
<1>2. ASSUME e.keep = "cell" PROVE Written(c, e, d) = (d[e.cell] \ e.drop) \cup e.add
  BY <1>2 DEF Written
<1>3. ASSUME e.keep = "list" PROVE Written(c, e, d) = (call[c].list \ e.drop) \cup e.add
  BY <1>3 DEF Written
<1>4. ASSUME e.keep = "flag"
      PROVE  Written(c, e, d) = ((IF call[c].list = {} THEN {"off"} ELSE {"on"}) \ e.drop) \cup e.add
  BY <1>4 DEF Written
<1> QED  BY <1>1, <1>2, <1>3, <1>4

\* Nothing is written by a command without effects.
LEMMA AppliedNone ==
    ASSUME NEW c, NEW T, NEW d \in [Cells -> T]
    PROVE  Apply(c, {}, d) = d
BY DEF Apply

\* The effects of the step that caller c is at, and whether one is on its session.
EffectsAt(c)  == StepOf(c).variants[call[c].variant]
OnSession(E)  == \E e \in E : e.cell = "sessions"

LEMMA RunVariantFacts ==
    ASSUME Shape, NEW c \in Callers, RunVariant(c)
    PROVE  /\ At(c, "run") /\ Recorded(c)
           /\ \E took \in BOOLEAN :
                /\ device' = IF took THEN Apply(c, EffectsAt(c), device) ELSE device
                /\ \/ /\ Retried(c) /\ call[c].variant # Len(StepOf(c).variants)
                      /\ OnSession(EffectsAt(c)) /\ took => history'[c].adrift
                   \/ Succeeded(c) /\ (OnSession(EffectsAt(c)) /\ ~took => history'[c].adrift)
                   \/ Failed(c) /\ (OnSession(EffectsAt(c)) /\ took => history'[c].adrift)
                /\ StepOf(c).background /\ ~took => history'[c].adrift
<1> DEFINE s == StepOf(c)
           effects == s.variants[call[c].variant]
           last == call[c].variant = Len(s.variants)
           D(took) == IF took THEN Apply(c, effects, device) ELSE device
           A(took, report) == \/ \E e \in effects : e.cell = "sessions" /\ took # (report = "ok")
                              \/ s.background /\ ~took
<1>1. PICK took \in BOOLEAN, report \in {"ok", "failed", "unavailable"} :
        /\ Become(c, D(took), FALSE, A(took, report))
        /\ IF report = "unavailable" /\ ~last
           THEN call' = [call EXCEPT ![c].variant = @ + 1]
           ELSE Advance(c, report = "ok")
  BY DEF RunVariant
<1>2. At(c, "run") /\ Running(c)
  BY DEF RunVariant, At
<1>3. /\ DOMAIN call = Callers /\ DOMAIN call[c] = CallFields /\ DOMAIN history[c] = HistoryFields
  BY DEF Shape, Placed
<1>4. device' = D(took) /\ Recorded(c)
  BY <1>1, BecomeFacts
<1>5. A(took, report) => history'[c].adrift
  BY <1>1, <1>2, <1>3 DEF Become, HistoryFields
<1>6. CASE report = "unavailable" /\ ~last
  <2>1. call' = [call EXCEPT ![c].variant = @ + 1]
    BY <1>1, <1>6
  <2>2. Retried(c)
    BY <1>3, <2>1 DEF Retried, Elsewhere, CallFields
  <2>3. OnSession(effects) /\ took => history'[c].adrift
    BY <1>5, <1>6 DEF OnSession
  <2>4. s.background /\ ~took => history'[c].adrift
    BY <1>5
  <2> QED  BY <1>2, <1>4, <1>6, <2>2, <2>3, <2>4 DEF EffectsAt
<1>7. CASE report = "ok"
  <2>1. Advance(c, TRUE)
    BY <1>1, <1>7 DEF Advance
  <2>2. Succeeded(c)
    BY <2>1, AdvanceFacts
  <2>3. OnSession(effects) /\ ~took => history'[c].adrift
    BY <1>5, <1>7 DEF OnSession
  <2>4. s.background /\ ~took => history'[c].adrift
    BY <1>5
  <2> QED  BY <1>2, <1>4, <2>2, <2>3, <2>4 DEF EffectsAt
<1>8. CASE report # "ok" /\ ~(report = "unavailable" /\ ~last)
  <2>1. Advance(c, FALSE)
    BY <1>1, <1>8 DEF Advance
  <2>2. Failed(c)
    BY <2>1, AdvanceFacts
  <2>3. OnSession(effects) /\ took => history'[c].adrift
    BY <1>5, <1>8 DEF OnSession
  <2>4. s.background /\ ~took => history'[c].adrift
    BY <1>5
  <2> QED  BY <1>2, <1>4, <2>2, <2>3, <2>4 DEF EffectsAt
<1> QED  BY <1>6, <1>7, <1>8

LEMMA ReadbackFacts ==
    ASSUME Shape, NEW c \in Callers, Readback(c)
    PROVE  /\ At(c, "check") /\ Recorded(c) /\ device' = device
           /\ \/ /\ Succeeded(c)
                 /\ ~StepOf(c).unread => /\ Holds(StepOf(c).test, device)
                                         /\ StepOf(c).variants # <<>> =>
                                              Apply(c, StepOf(c).variants[1], device) = device
              \/ Failed(c)
<1> DEFINE s == StepOf(c)
           seen == /\ Holds(s.test, device)
                   /\ s.variants # <<>> => Apply(c, s.variants[1], device) = device
<1>1. PICK readable \in BOOLEAN : Advance(c, IF readable THEN seen ELSE s.unread)
  BY DEF Readback
<1>2. At(c, "check") /\ Become(c, device, FALSE, FALSE)
  BY DEF Readback
<1>3. device' = device /\ Recorded(c)
  BY <1>2, BecomeFacts
<1> HIDE DEF seen
<1>4. CASE readable /\ seen
  <2>1. Advance(c, TRUE)
    BY <1>1, <1>4 DEF Advance
  <2> QED  BY <1>2, <1>3, <1>4, <2>1, AdvanceFacts DEF seen
<1>5. CASE ~readable /\ s.unread
  <2>1. Advance(c, TRUE)
    BY <1>1, <1>5 DEF Advance
  <2> QED  BY <1>2, <1>3, <1>5, <2>1, AdvanceFacts
<1>6. CASE (readable /\ ~seen) \/ (~readable /\ ~s.unread)
  <2>1. Advance(c, FALSE)
    BY <1>1, <1>6 DEF Advance
  <2> QED  BY <1>2, <1>3, <2>1, AdvanceFacts
<1> QED  BY <1>4, <1>5, <1>6

LEMMA ReadListFacts ==
    ASSUME Shape, NEW c \in Callers, ReadList(c), StepOf(c).variants[1] # {}
    PROVE  /\ At(c, "remember") /\ Recorded(c) /\ device' = device
           /\ Elsewhere(c) /\ call'[c].pc = call[c].pc + 1 /\ call'[c].variant = call[c].variant
           /\ call'[c].answer = call[c].answer /\ (call'[c].partial <=> call[c].partial)
           /\ \E e \in StepOf(c).variants[1] : \E L \in {device[e.cell], {}} :
                call'[c].list = (L \ e.drop) \cup e.add
<1> DEFINE s == StepOf(c)
           e == CHOOSE x \in s.variants[1] : TRUE
<1>1. PICK readable \in BOOLEAN :
        /\ call' = [call EXCEPT ![c].pc = @ + 1,
                      ![c].list = ((IF readable THEN device[e.cell] ELSE {}) \ e.drop) \cup e.add]
        /\ Become(c, device, ~readable, FALSE)
  BY DEF ReadList
<1>2. At(c, "remember")
  BY DEF ReadList
<1>3. device' = device /\ Recorded(c)
  BY <1>1, BecomeFacts
<1>4. DOMAIN call = Callers /\ DOMAIN call[c] = CallFields
  BY DEF Shape, Placed
<1>5. e \in s.variants[1]
  OBVIOUS
<1> HIDE DEF e
<1>6. /\ Elsewhere(c) /\ call'[c].pc = call[c].pc + 1 /\ call'[c].variant = call[c].variant
      /\ call'[c].answer = call[c].answer /\ call'[c].partial = call[c].partial
      /\ call'[c].list = ((IF readable THEN device[e.cell] ELSE {}) \ e.drop) \cup e.add
  BY <1>1, <1>4 DEF Elsewhere, CallFields
<1>7. \E L \in {device[e.cell], {}} : call'[c].list = (L \ e.drop) \cup e.add
  BY <1>6
<1> QED  BY <1>2, <1>3, <1>5, <1>6, <1>7

LEMMA OwnStepFacts ==
    ASSUME Shape, NEW c \in Callers, OwnStep(c)
    PROVE  /\ At(c, "own") \/ At(c, "parse")
           /\ Recorded(c)
           /\ \/ Succeeded(c) /\ device' = Apply(c, StepOf(c).variants[1], device)
              \/ /\ Failed(c) /\ device' \in {device, Apply(c, StepOf(c).variants[1], device)}
                 /\ StepOf(c).kind = "parse" => history'[c].adrift
<1> DEFINE s == StepOf(c)
<1>1. PICK ok \in BOOLEAN, took \in BOOLEAN :
        /\ ok => took
        /\ Become(c, IF took THEN Apply(c, s.variants[1], device) ELSE device, FALSE, s.kind = "parse" /\ ~ok)
        /\ Advance(c, ok)
  BY DEF OwnStep
<1>2. At(c, "own") \/ At(c, "parse")
  BY DEF OwnStep
<1>3. Running(c)
  BY <1>2 DEF At
<1>4. device' = (IF took THEN Apply(c, s.variants[1], device) ELSE device) /\ Recorded(c)
  BY <1>1, BecomeFacts
<1>5. DOMAIN history[c] = HistoryFields
  BY DEF Shape, Placed
<1>6. s.kind = "parse" /\ ~ok => history'[c].adrift
  BY <1>1, <1>3, <1>5 DEF Become, HistoryFields
<1>7. CASE ok
  <2>1. Advance(c, TRUE)
    BY <1>1, <1>7 DEF Advance
  <2> QED  BY <1>1, <1>2, <1>4, <1>7, <2>1, AdvanceFacts
<1>8. CASE ~ok
  <2>1. Advance(c, FALSE)
    BY <1>1, <1>8 DEF Advance
  <2> QED  BY <1>2, <1>4, <1>6, <1>8, <2>1, AdvanceFacts
<1> QED  BY <1>7, <1>8

----------------------------------------------------------------------------
(* The types.                                                              *)

LEMMA PlanNow ==
    ASSUME Shape, NEW c \in Callers, call[c] # Idle
    PROVE  /\ call[c].request \in Requests /\ PlanOf(c) = Plans[c][call[c].request]
           /\ FineSteps(c, PlanOf(c).steps) /\ call[c].pc \in Nat \ {0}
           /\ \E t, a : call[c].request = <<t, a>> /\ GoodPlan(c, t, a, PlanOf(c))
<1>1. /\ call[c].request \in Requests /\ PlanOf(c) = Plans[c][call[c].request] /\ call[c].pc \in Nat \ {0}
  BY DEF Shape, Placed, PlanOf
<1>2. PICK t, a : call[c].request = <<t, a>> /\ GoodPlan(c, t, a, PlanOf(c))
  BY <1>1, PlansGood
<1> QED  BY <1>1, <1>2 DEF GoodPlan, SoundPlan

LEMMA StepNow ==
    ASSUME Shape, NEW c \in Callers, Running(c)
    PROVE  /\ call[c] # Idle /\ FineStep(c, StepOf(c)) /\ call[c].pc \in 1..Len(PlanOf(c).steps)
           /\ Len(PlanOf(c).steps) \in Nat
           /\ StepOf(c).kind = "remember" => call[c].pc < Len(PlanOf(c).steps)
<1>1. call[c] # Idle
  BY DEF Running, Idle
<1>2. call[c].pc \in 1..Len(PlanOf(c).steps)
  BY DEF Shape, Placed
<1> QED  BY <1>1, <1>2, PlanNow DEF FineSteps, StepOf

\* What the variants of a step write is known.
LEMMA VariantKnown ==
    ASSUME Shape, NEW c \in Callers, Running(c), NEW k \in 1..Len(StepOf(c).variants)
    PROVE  /\ FineEffects(c, StepOf(c).variants[k])
           /\ \A e \in StepOf(c).variants[k] : e.cell \in Cells /\ e.add \subseteq Tokens
<1>1. FineEffects(c, StepOf(c).variants[k])
  BY StepNow DEF FineStep
<1> DEFINE q == call[c].request
           i == call[c].pc
<1>2. /\ q \in Requests /\ i \in 1..Len(Plans[c][q].steps) /\ StepOf(c) = Plans[c][q].steps[i]
  BY StepNow, PlanNow DEF StepOf
<1>3. k \in 1..Len(Plans[c][q].steps[i].variants)
  BY <1>2
<1>4. \A e \in Plans[c][q].steps[i].variants[k] : e.cell \in Cells /\ e.add \subseteq Tokens
  BY <1>2, <1>3, EffectKnown
<1> QED  BY <1>1, <1>2, <1>4

LEMMA WrittenTyped ==
    ASSUME Shape, NEW c \in Callers, Running(c), NEW k \in 1..Len(StepOf(c).variants)
    PROVE  Apply(c, StepOf(c).variants[k], device) \in [Cells -> SUBSET Tokens]
<1> DEFINE E == StepOf(c).variants[k]
           d == Apply(c, E, device)
<1>1. /\ FineEffects(c, E) /\ \A e \in E : e.cell \in Cells /\ e.add \subseteq Tokens
  BY VariantKnown
<1>2. /\ device \in [Cells -> SUBSET Tokens] /\ DOMAIN device = Cells /\ call[c].list \subseteq Tokens
  BY DEF Shape, Placed
<1> HIDE DEF E
<1>3. d = [x \in Cells |-> d[x]]
  BY <1>2, Applied
<1>4. ASSUME NEW x \in Cells PROVE d[x] \subseteq Tokens
  <2>1. CASE \A e \in E : e.cell # x
    BY <1>2, <2>1, Applied
  <2>2. CASE \E e \in E : e.cell = x
    <3>1. PICK e \in E : e.cell = x /\ d[x] = Written(c, e, device)
      BY <1>2, <2>2, Applied
    <3>2. e.keep \in {"nothing", "cell", "list", "flag"} /\ e.add \subseteq Tokens
      BY <1>1 DEF FineEffects, FineEffect
    <3>3. device[e.cell] \subseteq Tokens /\ {"on"} \subseteq Tokens /\ {"off"} \subseteq Tokens
      BY <1>2, <3>1, Known
    <3>4. \/ Written(c, e, device) = e.add
          \/ Written(c, e, device) = (device[e.cell] \ e.drop) \cup e.add
          \/ Written(c, e, device) = (call[c].list \ e.drop) \cup e.add
          \/ Written(c, e, device) = ({"off"} \ e.drop) \cup e.add
          \/ Written(c, e, device) = ({"on"} \ e.drop) \cup e.add
      BY <3>2, WrittenFacts
    <3> QED  BY <1>2, <3>1, <3>2, <3>3, <3>4
  <2> QED  BY <2>1, <2>2
<1> HIDE DEF d
<1> QED  BY <1>3, <1>4 DEF E, d

\* The callers a step leaves alone stay where they are.
LEMMA OthersPlaced ==
    ASSUME Shape, NEW c \in Callers, Elsewhere(c), NEW o \in Callers, o # c
    PROVE  Placed(o)'
<1>1. Placed(o) /\ call'[o] = call[o]
  BY DEF Shape, Elsewhere
<1> QED  BY <1>1 DEF Placed, Running, StepOf, PlanOf

LEMMA LandedPlaced ==
    ASSUME Shape, NEW c \in Callers, Running(c), NEW j \in Nat, Landed(c, j)
    PROVE  \A o \in Callers : Placed(o)'
<1>1. /\ call[c] # Idle /\ FineStep(c, StepOf(c)) /\ call[c].pc \in 1..Len(PlanOf(c).steps)
      /\ Len(PlanOf(c).steps) \in Nat /\ FineSteps(c, PlanOf(c).steps)
      /\ call[c].request \in Requests /\ call[c].plan = Plans[c][call[c].request]
  BY StepNow, PlanNow DEF PlanOf
<1>2. Elsewhere(c) /\ call[c].list \subseteq Tokens
  BY DEF Landed, Shape, Placed
<1>3. Placed(c)'
  <2>1. DOMAIN call'[c] = CallFields /\ call'[c].list \subseteq Tokens
    BY <1>2 DEF Elsewhere, Landed
  <2>2. call'[c].answer \in Answers
    BY <1>1 DEF Landed, FineStep, Answers
  <2>3. call'[c].request \in Requests /\ call'[c].plan = Plans[c][call'[c].request]
    BY <1>1, <1>2 DEF Elsewhere
  <2>4. call'[c].pc \in Nat \ {0} /\ call'[c].variant = 1
    BY <1>1 DEF Landed
  <2>5. ASSUME Running(c)'
        PROVE  /\ call'[c].pc \in 1..Len(PlanOf(c)'.steps)
               /\ StepOf(c)'.kind = "run" => 1 <= Len(StepOf(c)'.variants)
    <3>1. PlanOf(c)' = PlanOf(c)
      BY <1>2 DEF PlanOf, Elsewhere
    <3>2. call'[c].answer = "none"
      BY <2>5 DEF Running
    <3>3. j # 0 /\ ~(call[c].pc + j > Len(PlanOf(c).steps))
      BY <1>1, <3>2 DEF Landed, FineStep
    <3>4. call'[c].pc \in 1..Len(PlanOf(c).steps)
      BY <1>1, <3>3 DEF Landed
    <3>5. FineStep(c, PlanOf(c).steps[call'[c].pc])
      BY <1>1, <3>4 DEF FineSteps
    <3>6. StepOf(c)' = PlanOf(c).steps[call'[c].pc]
      BY <3>1 DEF StepOf
    <3> QED  BY <3>1, <3>4, <3>5, <3>6 DEF FineStep
  <2>6. Running(c)' => /\ call'[c].pc \in 1..Len(PlanOf(c)'.steps)
                       /\ call'[c].variant \in Nat \ {0}
                       /\ StepOf(c)'.kind = "run" => call'[c].variant <= Len(StepOf(c)'.variants)
                       /\ StepOf(c)'.kind # "run" => call'[c].variant = 1
    BY <2>4, <2>5
  <2> QED  BY <2>1, <2>2, <2>3, <2>4, <2>6, Zenon DEF Placed
<1> QED  BY <1>2, <1>3, OthersPlaced

LEMMA StepPlaced ==
    ASSUME Shape, NEW c \in Callers, Running(c), Succeeded(c) \/ Failed(c)
    PROVE  \A o \in Callers : Placed(o)'
<1>1. StepOf(c).next \in Nat /\ StepOf(c).orElse \in Nat
  BY StepNow DEF FineStep
<1> QED  BY <1>1, LandedPlaced DEF Succeeded, Failed

LEMMA InitDevice ==
    ASSUME Init
    PROVE  /\ device \in [Cells -> SUBSET Tokens]
           /\ "sessions" \in Cells => device["sessions"] = {}
           /\ \A x \in Values \cap Cells : device[x] = {"old"}
<1>1. PICK members \in {{}, {"it"}, {"it.longer"}} :
        device = [x \in Cells |-> CASE x \in ListCells -> members
                                    [] x \in FileCells -> {}
                                    [] x = "accessibility_flag" -> {IF members = {} THEN "off" ELSE "on"}
                                    [] x \notin ListCells \cup FileCells \cup {"accessibility_flag"} -> {"old"}]
  BY DEF Init, Devices
<1> DEFINE other(x) == x \notin ListCells \cup FileCells \cup {"accessibility_flag"}
<1>2. \A x \in Cells :
        /\ x \in ListCells => device[x] = members
        /\ x \in FileCells => device[x] = {}
        /\ x = "accessibility_flag" => device[x] = {IF members = {} THEN "off" ELSE "on"}
        /\ other(x) => device[x] = {"old"}
  <2> TAKE x \in Cells
  <2>1. ASSUME x \in ListCells PROVE device[x] = members
    <3>1. x \notin FileCells /\ x # "accessibility_flag"
      BY <2>1 DEF ListCells, FileCells
    <3> QED  BY <1>1, <2>1, <3>1
  <2>2. ASSUME x \in FileCells PROVE device[x] = {}
    <3>1. x \notin ListCells /\ x # "accessibility_flag"
      BY <2>2 DEF ListCells, FileCells
    <3> QED  BY <1>1, <2>2, <3>1
  <2>3. ASSUME x = "accessibility_flag" PROVE device[x] = {IF members = {} THEN "off" ELSE "on"}
    <3>1. x \notin ListCells /\ x \notin FileCells
      BY <2>3 DEF ListCells, FileCells
    <3> QED  BY <1>1, <2>3, <3>1
  <2>4. ASSUME other(x) PROVE device[x] = {"old"}
    <3>1. x \notin ListCells /\ x \notin FileCells /\ x # "accessibility_flag"
      BY <2>4
    <3> QED  BY <1>1, <2>4, <3>1
  <2> QED  BY <2>1, <2>2, <2>3, <2>4
<1>3. device \in [Cells -> SUBSET Tokens]
  <2>1. ASSUME NEW x \in Cells PROVE device[x] \subseteq Tokens
    <3>1. CASE Callers = {}
      <4>1. AllEffects = {}
        BY <3>1 DEF AllEffects
      <4>2. x = "none" /\ {"old"} \subseteq Tokens
        BY <4>1 DEF Cells, Tokens
      <4> QED  BY <1>2, <4>2 DEF ListCells, FileCells
    <3>2. CASE Callers # {}
      <4>1. {"on", "off", "it", "old", "it.longer"} \subseteq Tokens
        BY <3>2, Known
      <4> QED  BY <1>2, <4>1
    <3> QED  BY <3>1, <3>2
  <2>2. device = [x \in Cells |-> device[x]]
    BY <1>1
  <2> QED  BY <2>1, <2>2
<1>4. "sessions" \in Cells => device["sessions"] = {}
  BY <1>2 DEF FileCells
<1>5. \A x \in Values \cap Cells : device[x] = {"old"}
  BY <1>2 DEF Values, ListCells, FileCells
<1> QED  BY <1>3, <1>4, <1>5

LEMMA ShapeInit ==
    ASSUME Init
    PROVE  Shape
<1>1. device \in [Cells -> SUBSET Tokens]
  BY InitDevice
<1>2. /\ DOMAIN call = Callers /\ DOMAIN history = Callers
      /\ \A c \in Callers : call[c] = Idle /\ history[c] = NoHistory
  BY DEF Init
<1>3. /\ DOMAIN Idle = CallFields /\ Idle.answer = "none" /\ Idle.list = {} /\ Idle.pc = 0
      /\ DOMAIN NoHistory = HistoryFields
  BY DEF Idle, NoHistory, CallFields, HistoryFields
<1>4. \A c \in Callers : Placed(c) /\ DOMAIN history[c] = HistoryFields
  BY <1>2, <1>3 DEF Placed, Running, Answers
<1> QED  BY <1>1, <1>2, <1>4 DEF Shape

LEMMA PlacedIsEnough ==
    ASSUME Shape, NEW c \in Callers, Elsewhere(c), Recorded(c), \A o \in Callers : Placed(o)',
           device' \in [Cells -> SUBSET Tokens]
    PROVE  Shape'
BY DEF Shape, Elsewhere, Recorded

\* What a call starts with.
LEMMA CallFacts ==
    ASSUME Shape, NEW c \in Callers, NEW q \in Requests, Call(c, q)
    PROVE  /\ call[c] = Idle /\ device' = device
           /\ DOMAIN call' = Callers /\ DOMAIN history' = Callers
           /\ \A o \in Callers : o # c => call'[o] = call[o]
           /\ DOMAIN call'[c] = CallFields
           /\ call'[c].request = q /\ call'[c].plan = Plans[c][q] /\ call'[c].pc = 1 /\ call'[c].variant = 1
           /\ call'[c].list = {} /\ call'[c].partial = FALSE /\ call'[c].cancelled = FALSE
           /\ call'[c].answer \in {"none", "invalid", "refused"}
           /\ \A o \in Callers :
                /\ DOMAIN history'[o] = HistoryFields
                /\ o # c => /\ history'[o].met = history[o].met /\ history'[o].adrift = history[o].adrift
                            /\ history'[o].changed = history[o].changed
           /\ history'[c].met = {g \in Plans[c][q].goals : Holds(g, device)}
           /\ history'[c].adrift = FALSE /\ history'[c].changed = FALSE
<1> DEFINE plan == Plans[c][q]
           N(o) == IF o = c
                   THEN [NoHistory EXCEPT !.met = {g \in plan.goals : Holds(g, device)},
                                          !.before = [x \in plan.cells |-> device[x]],
                                          !.alone = \A x \in Callers : ~Running(x)]
                   ELSE [history[o] EXCEPT !.alone = @ /\ ~Running(o)]
<1>1. PICK answer \in {"none", "invalid", "refused"} :
        call' = [call EXCEPT ![c] = [Idle EXCEPT !.request = q, !.plan = plan, !.pc = 1, !.answer = answer]]
  BY DEF Call
<1>2. call[c] = Idle /\ device' = device /\ history' = [o \in Callers |-> N(o)]
  BY DEF Call
<1>3. /\ DOMAIN call = Callers /\ \A o \in Callers : DOMAIN history[o] = HistoryFields
  BY DEF Shape
<1>4. /\ DOMAIN call' = Callers /\ \A o \in Callers : o # c => call'[o] = call[o]
      /\ call'[c] = [Idle EXCEPT !.request = q, !.plan = plan, !.pc = 1, !.answer = answer]
  BY <1>1, <1>3
<1>5. /\ DOMAIN call'[c] = CallFields
      /\ call'[c].request = q /\ call'[c].plan = plan /\ call'[c].pc = 1 /\ call'[c].variant = 1
      /\ call'[c].list = {} /\ call'[c].partial = FALSE /\ call'[c].cancelled = FALSE
      /\ call'[c].answer = answer
  BY <1>4 DEF Idle, CallFields
<1>6. ASSUME NEW o \in Callers, o # c
      PROVE  /\ DOMAIN history'[o] = HistoryFields
             /\ history'[o].met = history[o].met /\ history'[o].adrift = history[o].adrift
             /\ history'[o].changed = history[o].changed
  <2>1. history'[o] = [history[o] EXCEPT !.alone = @ /\ ~Running(o)]
    BY <1>2, <1>6
  <2> QED  BY <1>3, <2>1 DEF HistoryFields
<1>7. /\ DOMAIN history'[c] = HistoryFields /\ history'[c].met = {g \in plan.goals : Holds(g, device)}
      /\ history'[c].adrift = FALSE /\ history'[c].changed = FALSE
  <2>1. history'[c] = [NoHistory EXCEPT !.met = {g \in plan.goals : Holds(g, device)},
                                          !.before = [x \in plan.cells |-> device[x]],
                                          !.alone = \A x \in Callers : ~Running(x)]
    BY <1>2
  <2> QED  BY <2>1 DEF NoHistory, HistoryFields
<1> QED  BY <1>1, <1>2, <1>4, <1>5, <1>6, <1>7

LEMMA CancelFacts ==
    ASSUME Shape, NEW c \in Callers, Cancel(c)
    PROVE  /\ Running(c) /\ device' = device /\ history' = history /\ DOMAIN call' = Callers
           /\ \A o \in Callers : o # c => call'[o] = call[o]
           /\ DOMAIN call'[c] = CallFields
           /\ call'[c].request = call[c].request /\ call'[c].plan = call[c].plan
           /\ call'[c].pc = call[c].pc /\ call'[c].variant = call[c].variant
           /\ call'[c].list = call[c].list /\ call'[c].partial = call[c].partial
           /\ call'[c].answer = call[c].answer
<1>1. DOMAIN call = Callers /\ DOMAIN call[c] = CallFields
  BY DEF Shape, Placed
<1>2. /\ call' = [call EXCEPT ![c].cancelled = TRUE] /\ Running(c) /\ device' = device /\ history' = history
  BY DEF Cancel
<1> QED  BY <1>1, <1>2 DEF CallFields

LEMMA ShapeCall ==
    ASSUME Shape, NEW c \in Callers, NEW q \in Requests, Call(c, q)
    PROVE  Shape'
<1>1. \A o \in Callers : o # c => Placed(o)'
  <2> TAKE o \in Callers
  <2> HAVE o # c
  <2>1. call'[o] = call[o] /\ Placed(o)
    BY CallFacts DEF Shape
  <2> QED  BY <2>1 DEF Placed, Running, StepOf, PlanOf
<1>2. Placed(c)'
  <2>1. /\ DOMAIN call'[c] = CallFields /\ call'[c].answer \in Answers /\ call'[c].list \subseteq Tokens
        /\ call'[c].request \in Requests /\ call'[c].plan = Plans[c][call'[c].request]
        /\ call'[c].pc = 1 /\ call'[c].variant = 1
    BY CallFacts DEF Answers
  <2>2. FineSteps(c, Plans[c][q].steps)
    BY PlansGood DEF GoodPlan, SoundPlan
  <2>3. 1 \in 1..Len(Plans[c][q].steps) /\ FineStep(c, Plans[c][q].steps[1])
    BY <2>2 DEF FineSteps
  <2>4. PlanOf(c)' = Plans[c][q] /\ StepOf(c)' = Plans[c][q].steps[1]
    BY CallFacts DEF PlanOf, StepOf
  <2>5. /\ call'[c].pc \in 1..Len(PlanOf(c)'.steps) /\ call'[c].variant \in Nat \ {0}
        /\ StepOf(c)'.kind = "run" => call'[c].variant <= Len(StepOf(c)'.variants)
    BY <2>1, <2>3, <2>4 DEF FineStep
  <2> QED  BY <2>1, <2>5 DEF Placed
<1>3. DOMAIN call' = Callers /\ DOMAIN history' = Callers /\ device' = device
  BY CallFacts
<1>4. \A o \in Callers : DOMAIN history'[o] = HistoryFields
  BY CallFacts
<1> QED  BY <1>1, <1>2, <1>3, <1>4 DEF Shape

LEMMA ShapeCancel ==
    ASSUME Shape, NEW c \in Callers, Cancel(c)
    PROVE  Shape'
<1>1. \A o \in Callers : Placed(o)'
  <2> TAKE o \in Callers
  <2>1. /\ DOMAIN call'[o] = CallFields /\ call'[o].request = call[o].request /\ call'[o].plan = call[o].plan
        /\ call'[o].pc = call[o].pc /\ call'[o].variant = call[o].variant
        /\ call'[o].list = call[o].list /\ call'[o].answer = call[o].answer
        /\ o = c \/ call'[o] = call[o]
    BY CancelFacts DEF Shape, Placed
  <2>2. Placed(o)
    BY DEF Shape
  <2>3. o = c => call[o].pc # 0
    BY CancelFacts DEF Running
  <2>4. call'[o] = Idle \/ (call'[o].request \in Requests /\ call'[o].plan = Plans[o][call'[o].request]
                             /\ call'[o].pc \in Nat \ {0})
    BY <2>1, <2>2, <2>3 DEF Placed, Idle
  <2>5. PlanOf(o)' = PlanOf(o) /\ StepOf(o)' = StepOf(o) /\ (Running(o)' <=> Running(o))
    BY <2>1 DEF PlanOf, StepOf, Running
  <2> QED  BY <2>1, <2>2, <2>4, <2>5 DEF Placed
<1> QED  BY <1>1, CancelFacts DEF Shape

LEMMA ShapeStep ==
    ASSUME Shape, NEW c \in Callers, CallerStep(c)
    PROVE  Shape'
<1>1. CASE RunVariant(c)
  <2>1. At(c, "run") /\ Recorded(c)
    BY <1>1, RunVariantFacts
  <2>2. Running(c) /\ StepOf(c).kind = "run"
    BY <2>1 DEF At
  <2>3. PICK took \in BOOLEAN :
          /\ device' = IF took THEN Apply(c, EffectsAt(c), device) ELSE device
          /\ \/ Retried(c) /\ call[c].variant # Len(StepOf(c).variants)
             \/ Succeeded(c) \/ Failed(c)
    BY <1>1, RunVariantFacts
  <2>4. call[c].variant \in 1..Len(StepOf(c).variants) /\ Len(StepOf(c).variants) \in Nat
    BY <2>2, StepNow DEF Shape, Placed, FineStep
  <2>5. device' \in [Cells -> SUBSET Tokens]
    BY <2>2, <2>3, <2>4, WrittenTyped DEF Shape, EffectsAt
  <2>6. Elsewhere(c)
    BY <2>3 DEF Retried, Succeeded, Failed, Landed
  <2>7. \A o \in Callers : Placed(o)'
    <3>1. CASE Succeeded(c) \/ Failed(c)
      BY <2>2, <3>1, StepPlaced
    <3>2. CASE Retried(c) /\ call[c].variant # Len(StepOf(c).variants)
      <4>1. /\ PlanOf(c)' = PlanOf(c) /\ StepOf(c)' = StepOf(c) /\ (Running(c)' <=> Running(c))
            /\ call'[c].variant = call[c].variant + 1
        BY <3>2 DEF Retried, Elsewhere, PlanOf, StepOf, Running
      <4>2. call'[c].variant \in Nat \ {0} /\ call'[c].variant <= Len(StepOf(c)'.variants)
        BY <2>4, <3>2, <4>1
      <4>3. Placed(c) /\ call[c] # Idle
        BY <2>2, StepNow DEF Shape
      <4>4. /\ DOMAIN call'[c] = CallFields /\ call'[c].request = call[c].request
            /\ call'[c].plan = call[c].plan /\ call'[c].pc = call[c].pc
            /\ call'[c].list = call[c].list /\ call'[c].answer = call[c].answer
        BY <3>2 DEF Retried, Elsewhere
      <4>5. Placed(c)'
        BY <2>2, <4>1, <4>2, <4>3, <4>4 DEF Placed
      <4> QED  BY <2>6, <4>5, OthersPlaced
    <3> QED  BY <2>3, <3>1, <3>2
  <2> QED  BY <2>1, <2>5, <2>6, <2>7, PlacedIsEnough
<1>2. CASE Readback(c)
  <2>1. Running(c) /\ Recorded(c) /\ device' = device /\ (Succeeded(c) \/ Failed(c))
    BY <1>2, ReadbackFacts DEF At
  <2>2. \A o \in Callers : Placed(o)'
    BY <2>1, StepPlaced
  <2>3. Elsewhere(c) /\ device' \in [Cells -> SUBSET Tokens]
    BY <2>1 DEF Succeeded, Failed, Landed, Shape
  <2> QED  BY <2>1, <2>2, <2>3, PlacedIsEnough
<1>3. CASE ReadList(c)
  <2>1. Running(c) /\ StepOf(c).kind = "remember"
    BY <1>3 DEF ReadList, At
  <2>2. /\ StepOf(c).variants[1] # {} /\ call[c].pc < Len(PlanOf(c).steps)
        /\ 1 \in 1..Len(StepOf(c).variants) /\ call[c].pc \in 1..Len(PlanOf(c).steps)
        /\ Len(PlanOf(c).steps) \in Nat /\ call[c] # Idle
    BY <2>1, StepNow DEF FineStep
  <2>3. /\ Recorded(c) /\ device' = device
        /\ Elsewhere(c) /\ call'[c].pc = call[c].pc + 1 /\ call'[c].variant = call[c].variant
        /\ call'[c].answer = call[c].answer
    BY <1>3, <2>2, ReadListFacts
  <2>4. PICK e \in StepOf(c).variants[1] : \E L \in {device[e.cell], {}} :
          call'[c].list = (L \ e.drop) \cup e.add
    BY <1>3, <2>2, ReadListFacts
  <2>5. e.cell \in Cells /\ e.add \subseteq Tokens
    BY <2>1, <2>2, VariantKnown
  <2>6. call'[c].list \subseteq Tokens
    BY <2>4, <2>5 DEF Shape
  <2>7. /\ PlanOf(c)' = PlanOf(c) /\ call'[c].pc \in 1..Len(PlanOf(c).steps)
        /\ StepOf(c)' = PlanOf(c).steps[call'[c].pc]
    BY <2>2, <2>3 DEF PlanOf, StepOf, Elsewhere
  <2>8. FineStep(c, StepOf(c)')
    BY <2>2, <2>7, PlanNow DEF FineSteps
  <2>9. Placed(c) /\ call[c].variant = 1
    BY <2>1 DEF Shape, Placed
  <2>10. Placed(c)'
    <3>1. /\ DOMAIN call'[c] = CallFields /\ call'[c].request = call[c].request /\ call'[c].plan = call[c].plan
      BY <2>3 DEF Elsewhere
    <3>2. call'[c].pc \in Nat \ {0} /\ call'[c].variant = 1
      BY <2>2, <2>3, <2>9
    <3>3. /\ call'[c].request \in Requests /\ call'[c].plan = Plans[c][call'[c].request]
      BY <2>2, <2>9, <3>1 DEF Placed
    <3>4. StepOf(c)'.kind = "run" => call'[c].variant <= Len(StepOf(c)'.variants)
      BY <2>8, <3>2 DEF FineStep
    <3> QED  BY <2>3, <2>6, <2>7, <2>9, <3>1, <3>2, <3>3, <3>4 DEF Placed
  <2> QED  BY <2>3, <2>10, OthersPlaced, PlacedIsEnough DEF Shape
<1>4. CASE OwnStep(c)
  <2>1. /\ Running(c) /\ StepOf(c).kind # "check" /\ Recorded(c) /\ (Succeeded(c) \/ Failed(c))
        /\ device' \in {device, Apply(c, StepOf(c).variants[1], device)}
    BY <1>4, OwnStepFacts DEF At
  <2>2. 1 \in 1..Len(StepOf(c).variants)
    BY <2>1, StepNow DEF FineStep
  <2>3. device' \in [Cells -> SUBSET Tokens]
    BY <2>1, <2>2, WrittenTyped DEF Shape
  <2>4. Elsewhere(c) /\ \A o \in Callers : Placed(o)'
    BY <2>1, StepPlaced DEF Succeeded, Failed, Landed
  <2> QED  BY <2>1, <2>3, <2>4, PlacedIsEnough
<1> QED  BY <1>1, <1>2, <1>3, <1>4 DEF CallerStep

LEMMA ShapeNext ==
    ASSUME Shape, [Next]_vars
    PROVE  Shape'
<1>1. CASE Next
  BY <1>1, ShapeCall, ShapeCancel, ShapeStep DEF Next
<1>2. CASE UNCHANGED vars
  BY <1>2 DEF vars, Shape, Placed, Running, StepOf, PlanOf
<1> QED  BY <1>1, <1>2

\* The calls stay within their plans and the device within the tokens that
\* commands write (the handlers of executeSync).
THEOREM TypeCorrect == Spec => []TypeOK
<1>1. Shape => TypeOK
  <2> SUFFICES ASSUME Shape PROVE TypeOK
    OBVIOUS
  <2>1. \A x \in Cells : device[x] \subseteq Tokens
    BY DEF Shape
  <2>2. ASSUME NEW c \in Callers
        PROVE  call[c].request \in Requests \cup {Idle.request} /\ call[c].answer \in Answers
    BY DEF Shape, Placed
  <2>3. ASSUME NEW c \in Callers, Running(c)
        PROVE  /\ call[c].pc \in DOMAIN PlanOf(c).steps
               /\ StepOf(c).kind = "run" => call[c].variant \in DOMAIN StepOf(c).variants
    <3>1. DOMAIN PlanOf(c).steps = 1..Len(PlanOf(c).steps) /\ FineStep(c, StepOf(c))
      BY <2>3, StepNow, PlanNow DEF FineSteps
    <3> QED  BY <2>3, <3>1 DEF Shape, Placed, FineStep
  <2> QED  BY <2>1, <2>2, <2>3 DEF TypeOK
<1> QED  BY <1>1, ShapeInit, ShapeNext, PTL DEF Spec

----------------------------------------------------------------------------
(* Refused arguments.                                                      *)

\* A call at the check of its arguments has changed nothing yet, nor has one
\* that the check has refused.
Untouched(c) ==
    call[c].request \notin Late =>
        /\ call[c].answer = "invalid" => ~history[c].changed
        /\ Running(c) /\ call[c].pc = 1 /\ StepOf(c).code = "invalid" => ~history[c].changed

RefusalInv == Shape /\ \A c \in Callers : Untouched(c)

LEMMA OthersUntouched ==
    ASSUME RefusalInv, NEW c \in Callers, Recorded(c), Elsewhere(c), NEW o \in Callers, o # c
    PROVE  Untouched(o)'
<1>1. call'[o] = call[o] /\ (history'[o].changed => history[o].changed)
  BY DEF Elsewhere, Recorded
<1>2. Untouched(o)
  BY DEF RefusalInv
<1> QED  BY <1>1, <1>2 DEF Untouched, Running, StepOf, PlanOf

\* The check of the arguments is the first step, and one without effects.
LEMMA Refuses ==
    ASSUME Shape, NEW c \in Callers, Running(c), call[c].request \notin Late, StepOf(c).code = "invalid"
    PROVE  call[c].pc = 1 /\ StepOf(c).kind = "own" /\ StepOf(c).variants = <<{}>>
<1>1. Prompt(PlanOf(c).steps) /\ call[c].pc \in 1..Len(PlanOf(c).steps)
  BY StepNow, PlanNow DEF GoodPlan
<1> QED  BY <1>1 DEF Prompt, StepOf

LEMMA LandedUntouched ==
    ASSUME RefusalInv, NEW c \in Callers, Running(c), Recorded(c), Succeeded(c) \/ Failed(c),
           StepOf(c).code = "invalid" /\ call[c].request \notin Late => device' = device
    PROVE  Untouched(c)'
<1>1. PICK j \in Nat : Landed(c, j)
  BY StepNow DEF RefusalInv, FineStep, Succeeded, Failed
<1> SUFFICES ASSUME call[c].request \notin Late
             PROVE  /\ call'[c].answer = "invalid" => ~history'[c].changed
                    /\ Running(c)' /\ call'[c].pc = 1 => ~history'[c].changed
  BY <1>1 DEF Untouched, Landed, Elsewhere
<1>2. ASSUME call'[c].answer = "invalid" PROVE ~history'[c].changed
  <2>1. StepOf(c).code = "invalid"
    BY <1>1, <1>2 DEF Landed
  <2>2. call[c].pc = 1 /\ device' = device
    BY <2>1, Refuses DEF RefusalInv
  <2>3. ~history[c].changed
    BY <2>1, <2>2 DEF RefusalInv, Untouched
  <2> QED  BY <2>2, <2>3 DEF Recorded
<1>3. ASSUME Running(c)', call'[c].pc = 1 PROVE FALSE
  <2>1. call[c].pc \in Nat \ {0} /\ FineStep(c, StepOf(c)) /\ call'[c].pc = call[c].pc + j
    BY <1>1, StepNow DEF RefusalInv, Landed
  <2>2. j = 0
    BY <1>3, <2>1
  <2>3. call'[c].answer = StepOf(c).code
    BY <1>1, <2>2 DEF Landed
  <2> QED  BY <1>3, <2>1, <2>3 DEF Running, FineStep
<1> QED  BY <1>2, <1>3

LEMMA RefusalStep ==
    ASSUME RefusalInv, NEW c \in Callers, CallerStep(c)
    PROVE  \A o \in Callers : Untouched(o)'
<1>0. Shape
  BY DEF RefusalInv
<1>1. CASE RunVariant(c)
  <2>1. /\ At(c, "run") /\ Recorded(c) /\ (Retried(c) \/ Succeeded(c) \/ Failed(c))
    BY <1>0, <1>1, RunVariantFacts
  <2>2. Running(c) /\ StepOf(c).kind = "run" /\ Elsewhere(c)
    BY <2>1 DEF At, Retried, Succeeded, Failed, Landed
  <2>3. ~(StepOf(c).code = "invalid" /\ call[c].request \notin Late)
    BY <1>0, <2>2, Refuses
  <2>4. Untouched(c)'
    <3>1. CASE Retried(c)
      <4>1. /\ call'[c].request = call[c].request /\ call'[c].answer = "none" /\ StepOf(c)' = StepOf(c)
        BY <2>2, <3>1 DEF Retried, Elsewhere, StepOf, PlanOf, Running
      <4> QED  BY <2>3, <4>1 DEF Untouched
    <3> QED  BY <2>1, <2>2, <2>3, <3>1, LandedUntouched
  <2> QED  BY <2>1, <2>2, <2>4, OthersUntouched
<1>2. CASE Readback(c)
  <2>1. Running(c) /\ Recorded(c) /\ device' = device /\ (Succeeded(c) \/ Failed(c))
    BY <1>0, <1>2, ReadbackFacts DEF At
  <2>2. Elsewhere(c) /\ Untouched(c)'
    BY <2>1, LandedUntouched DEF Succeeded, Failed, Landed
  <2> QED  BY <2>1, <2>2, OthersUntouched
<1>3. CASE ReadList(c)
  <2>1. Running(c) /\ StepOf(c).kind = "remember"
    BY <1>3 DEF ReadList, At
  <2>2. StepOf(c).variants[1] # {}
    BY <1>0, <2>1, StepNow DEF FineStep
  <2>3. /\ Recorded(c) /\ Elsewhere(c) /\ call'[c].pc = call[c].pc + 1 /\ call'[c].answer = call[c].answer
    BY <1>0, <1>3, <2>2, ReadListFacts
  <2>4. call[c].pc \in Nat \ {0} /\ call[c].answer = "none"
    BY <1>0, <2>1, StepNow DEF Running
  <2>5. call'[c].pc # 1
    BY <2>3, <2>4
  <2>6. Untouched(c)'
    BY <2>3, <2>4, <2>5 DEF Untouched
  <2> QED  BY <2>3, <2>6, OthersUntouched
<1>4. CASE OwnStep(c)
  <2>1. /\ Running(c) /\ Recorded(c) /\ (Succeeded(c) \/ Failed(c))
        /\ device' \in {device, Apply(c, StepOf(c).variants[1], device)}
    BY <1>0, <1>4, OwnStepFacts DEF At
  <2>2. ASSUME StepOf(c).code = "invalid", call[c].request \notin Late PROVE device' = device
    <3>1. StepOf(c).variants = <<{}>>
      BY <1>0, <2>1, <2>2, Refuses
    <3>2. StepOf(c).variants[1] = {}
      BY <3>1
    <3> QED  BY <1>0, <2>1, <3>2, AppliedNone DEF Shape
  <2>3. Elsewhere(c) /\ Untouched(c)'
    BY <2>1, <2>2, LandedUntouched DEF Succeeded, Failed, Landed
  <2> QED  BY <2>1, <2>3, OthersUntouched
<1> QED  BY <1>1, <1>2, <1>3, <1>4 DEF CallerStep

LEMMA RefusalNext ==
    ASSUME RefusalInv, [Next]_vars
    PROVE  RefusalInv'
<1>0. Shape /\ Shape'
  BY ShapeNext DEF RefusalInv
<1>1. CASE UNCHANGED vars
  BY <1>1 DEF vars, RefusalInv, Shape, Placed, Untouched, Running, StepOf, PlanOf
<1>2. ASSUME NEW c \in Callers, NEW q \in Requests, Call(c, q) PROVE \A o \in Callers : Untouched(o)'
  <2>1. ~history'[c].changed
    BY <1>0, <1>2, CallFacts
  <2>2. ASSUME NEW o \in Callers, o # c PROVE Untouched(o)'
    <3>1. call'[o] = call[o] /\ history'[o].changed = history[o].changed /\ Untouched(o)
      BY <1>0, <1>2, <2>2, CallFacts DEF RefusalInv
    <3> QED  BY <3>1 DEF Untouched, Running, StepOf, PlanOf
  <2> QED  BY <2>1, <2>2 DEF Untouched
<1>3. ASSUME NEW c \in Callers, Cancel(c) PROVE \A o \in Callers : Untouched(o)'
  <2> TAKE o \in Callers
  <2>1. /\ call'[o].request = call[o].request /\ call'[o].plan = call[o].plan
        /\ call'[o].pc = call[o].pc /\ call'[o].answer = call[o].answer /\ history' = history /\ Untouched(o)
    BY <1>0, <1>3, CancelFacts DEF RefusalInv
  <2> QED  BY <2>1 DEF Untouched, Running, StepOf, PlanOf
<1>4. CASE Next
  BY <1>0, <1>2, <1>3, <1>4, RefusalStep DEF Next, RefusalInv
<1> QED  BY <1>1, <1>4

\* A request refused for its arguments has changed nothing on the device: the
\* handlers check what they can before their first command.
THEOREM RefusedChangedNothingCorrect == Spec => []RefusedChangedNothing
<1>1. Init => RefusalInv
  BY ShapeInit DEF RefusalInv, Untouched, Init, Idle, Running
<1>2. RefusalInv /\ [Next]_vars => RefusalInv'
  BY RefusalNext
<1>3. RefusalInv => RefusedChangedNothing
  BY DEF RefusalInv, Untouched, RefusedChangedNothing
<1> QED  BY <1>1, <1>2, <1>3, PTL DEF Spec

----------------------------------------------------------------------------
(* Sessions of the package manager.                                        *)

\* A caller's session is open only between the steps that create it and that
\* abandon it, unless a command on it went astray.
Settled(c) ==
    /\ call[c] = Idle => c \notin device["sessions"]
    /\ (call[c].request[1] = "app_install" /\ call[c].request[2] \in Installs
          /\ c \in device["sessions"] /\ ~history[c].adrift)
       => /\ Running(c)
          /\ call[c].pc \in (Offset(call[c].request[2]) + 2)..(Offset(call[c].request[2]) + 6)

SessionInv == Shape /\ \A c \in Callers : Settled(c)

\* Commands touch no session but the caller's.
LEMMA SessionKept ==
    ASSUME Shape, NEW c \in Callers, Running(c), NEW k \in 1..Len(StepOf(c).variants)
    PROVE  LET E == StepOf(c).variants[k]
               d == Apply(c, E, device)
           IN  /\ \A o \in Callers : o # c => (o \in d["sessions"] <=> o \in device["sessions"])
               /\ (\A e \in E : e.cell # "sessions") => d["sessions"] = device["sessions"]
<1> DEFINE E == StepOf(c).variants[k]
           d == Apply(c, E, device)
<1>1. FineEffects(c, E)
  BY VariantKnown
<1>2. "sessions" \in DOMAIN device
  BY Known DEF Shape
<1> HIDE DEF E
<1>3. (\A e \in E : e.cell # "sessions") => d["sessions"] = device["sessions"]
  BY <1>2, Applied
<1>4. ASSUME \E e \in E : e.cell = "sessions", NEW o \in Callers, o # c
      PROVE  o \in d["sessions"] <=> o \in device["sessions"]
  <2>1. PICK e \in E : e.cell = "sessions" /\ d["sessions"] = Written(c, e, device)
    BY <1>2, <1>4, Applied
  <2>2. e.keep = "cell" /\ e.add \subseteq {c} /\ e.drop \subseteq {c}
    BY <1>1, <2>1 DEF FineEffects, FineEffect
  <2>3. d["sessions"] = (device["sessions"] \ e.drop) \cup e.add
    BY <2>1, <2>2, WrittenFacts
  <2> QED  BY <1>4, <2>2, <2>3
<1> QED  BY <1>3, <1>4 DEF E

\* What removes a session, alone or with an effect on the packages.
LEMMA SessionLeft ==
    ASSUME Shape, NEW c \in Callers, NEW E,
           \/ E = Leave("sessions", c)
           \/ E = Leave("sessions", c) \cup Join("packages", "it")
    PROVE  c \notin Apply(c, E, device)["sessions"]
<1>1. "sessions" \in DOMAIN device
  BY Known DEF Shape
<1>2. /\ \A e \in E : e.cell = "sessions" => e.keep = "cell" /\ e.add = {} /\ e.drop = {c}
      /\ \E e \in E : e.cell = "sessions"
  <2>2. \A e \in Join("packages", "it") : e.cell # "sessions"
    BY DEF Join, Effect
  <2>3. \A e \in Leave("sessions", c) : e.cell = "sessions" /\ e.keep = "cell" /\ e.add = {} /\ e.drop = {c}
    BY DEF Leave, Effect
  <2>4. \E e \in Leave("sessions", c) : TRUE
    BY DEF Leave
  <2> QED  BY <2>2, <2>3, <2>4
<1>3. PICK e \in E : e.cell = "sessions" /\ Apply(c, E, device)["sessions"] = Written(c, e, device)
  BY <1>1, <1>2, Applied
<1>4. Written(c, e, device) = (device["sessions"] \ {c}) \cup {}
  BY <1>2, <1>3, WrittenFacts
<1> QED  BY <1>3, <1>4

\* A jump within the plan.
LEMMA Onwards ==
    ASSUME Shape, NEW c \in Callers, Running(c), NEW j \in Nat, j # 0, Landed(c, j),
           call[c].pc + j <= Len(PlanOf(c).steps)
    PROVE  Running(c)' /\ call'[c].pc = call[c].pc + j
<1>1. call[c].pc \in Nat \ {0} /\ Len(PlanOf(c).steps) \in Nat
  BY StepNow
<1>2. ~(call[c].pc + j > Len(PlanOf(c).steps))
  BY <1>1
<1>3. call'[c].answer = "none" /\ call'[c].pc = call[c].pc + j
  BY <1>2 DEF Landed
<1> QED  BY <1>1, <1>3 DEF Running

LEMMA OwnSession ==
    ASSUME Shape, NEW c \in Callers, Settled(c), CallerStep(c), NEW a \in Installs,
           call[c].request = <<"app_install", a>>, c \in device'["sessions"], ~history'[c].adrift
    PROVE  Running(c)' /\ call'[c].pc \in (Offset(a) + 2)..(Offset(a) + 6)
<1> DEFINE o == Offset(a)
           i == call[c].pc
           q == PlanOf(c).steps
           s == StepOf(c)
           J == Join("sessions", c)
           L == Leave("sessions", c)
           M == Leave("sessions", c) \cup Join("packages", "it")
<1>1. Running(c)
  BY DEF CallerStep, RunVariant, Readback, ReadList, OwnStep, At
<1>2. /\ i \in 1..Len(q) /\ Len(q) \in Nat /\ s = q[i] /\ FineStep(c, s) /\ call[c] # Idle
  BY <1>1, StepNow DEF StepOf
<1>3. SessionSteps(c, q, o)
  <2>1. PICK t, b : call[c].request = <<t, b>> /\ GoodPlan(c, t, b, PlanOf(c))
    BY <1>2, PlanNow
  <2>2. t = "app_install" /\ b = a
    BY <2>1
  <2> QED  BY <2>1, <2>2 DEF GoodPlan
<1>4. o \in {1, 2} /\ o + 6 <= Len(q)
  BY <1>3 DEF Offset, SessionSteps
<1>5. /\ \A n \in 1..o : Shaped(q[n], "own", <<{}>>, 1, 0)
      /\ Shaped(q[o + 1], "run", <<J, J>>, 1, 0)
      /\ Shaped(q[o + 2], "parse", <<{}>>, 1, 0)
      /\ Shaped(q[o + 3], "own", <<{}>>, 1, 3)
      /\ Shaped(q[o + 4], "run", <<{}, {}>>, 1, 2)
      /\ Shaped(q[o + 5], "run", <<M, M>>, 2, 1)
      /\ Shaped(q[o + 6], "run", <<L, L>>, 0, 0) /\ q[o + 6].background
      /\ \A n \in (o + 7)..Len(q) : q[n].kind # "run" /\ \A k \in DOMAIN q[n].variants :
            \A e \in q[n].variants[k] : e.cell # "sessions"
  BY <1>3 DEF SessionSteps
<1>6. history[c].adrift => history'[c].adrift
  <2>1. s.kind = "remember" => s.variants[1] # {}
    BY <1>2 DEF FineStep
  <2>2. Recorded(c)
    BY <2>1, RunVariantFacts, ReadbackFacts, ReadListFacts, OwnStepFacts DEF CallerStep, ReadList, At
  <2> QED  BY <1>1, <2>2 DEF Recorded
<1>7. c \in device["sessions"] => i \in (o + 2)..(o + 6)
  <2>1. call[c].request[1] = "app_install" /\ call[c].request[2] = a
    OBVIOUS
  <2>2. ~history[c].adrift
    BY <1>6
  <2> QED  BY <2>1, <2>2 DEF Settled
<1> HIDE DEF o, J, L, M
<1>8. ASSUME i \notin (o + 2)..(o + 6), device'["sessions"] = device["sessions"] PROVE FALSE
  BY <1>7, <1>8
\* Before the session and after it.
<1>9. CASE i \in 1..o \/ i \in (o + 7)..Len(q)
  <2>1. s.kind # "run" /\ \A k \in DOMAIN s.variants : \A e \in s.variants[k] : e.cell # "sessions"
    <3>1. CASE i \in 1..o
      <4>1. s.kind = "own" /\ s.variants = <<{}>>
        BY <1>2, <1>5, <3>1 DEF Shaped
      <4>2. \A k \in DOMAIN <<{}>> : <<{}>>[k] = {}
        OBVIOUS
      <4> QED  BY <4>1, <4>2
    <3> QED  BY <1>2, <1>5, <1>9, <3>1
  <2>2. device'["sessions"] = device["sessions"]
    <3>1. CASE Readback(c)
      BY <3>1, ReadbackFacts
    <3>2. CASE ReadList(c)
      BY <3>2, <1>2, ReadListFacts DEF FineStep, ReadList, At
    <3>3. CASE OwnStep(c)
      <4>1. s.kind # "check" /\ device' \in {device, Apply(c, s.variants[1], device)}
        BY <3>3, OwnStepFacts DEF At
      <4>2. 1 \in 1..Len(s.variants) /\ 1 \in DOMAIN s.variants
        BY <1>2, <4>1 DEF FineStep
      <4>3. Apply(c, s.variants[1], device)["sessions"] = device["sessions"]
        BY <1>1, <2>1, <4>2, SessionKept
      <4> QED  BY <4>1, <4>3
    <3> QED  BY <2>1, <3>1, <3>2, <3>3 DEF CallerStep, RunVariant, At
  <2>3. i \notin (o + 2)..(o + 6)
    BY <1>4, <1>9
  <2> QED  BY <1>8, <2>2, <2>3
<1>10. CASE i = o + 2
  <2>1. s.kind = "parse" /\ s.next = 1
    BY <1>2, <1>5, <1>10 DEF Shaped
  <2>2. OwnStep(c)
    BY <2>1 DEF CallerStep, RunVariant, Readback, ReadList, At
  <2>3. Succeeded(c)
    BY <2>1, <2>2, OwnStepFacts
  <2>4. Landed(c, 1)
    BY <2>1, <2>3 DEF Succeeded
  <2>5. i + 1 <= Len(q)
    BY <1>4, <1>10
  <2>6. Running(c)' /\ call'[c].pc = i + 1
    BY <1>1, <2>4, <2>5, Onwards
  <2> QED  BY <1>4, <1>10, <2>6 DEF o
<1>11. CASE i = o + 3
  <2>1. s.kind = "own" /\ s.next = 1 /\ s.orElse = 3
    BY <1>2, <1>5, <1>11 DEF Shaped
  <2>2. OwnStep(c)
    BY <2>1 DEF CallerStep, RunVariant, Readback, ReadList, At
  <2>3. PICK j \in {1, 3} : Landed(c, j)
    BY <2>1, <2>2, OwnStepFacts DEF Succeeded, Failed
  <2>4. i + j <= Len(q)
    BY <1>4, <1>11
  <2>5. Running(c)' /\ call'[c].pc = i + j
    BY <1>1, <2>3, <2>4, Onwards
  <2> QED  BY <1>4, <1>11, <2>5 DEF o
\* The commands.
<1>12. CASE i \in {o + 1, o + 4, o + 5, o + 6}
  <2>1. s.kind = "run" /\ RunVariant(c)
    <3>1. s.kind = "run"
      BY <1>2, <1>4, <1>5, <1>12 DEF Shaped
    <3> QED  BY <3>1 DEF CallerStep, Readback, ReadList, OwnStep, At
  <2> DEFINE E == EffectsAt(c)
             d == Apply(c, E, device)
  <2>2. PICK took \in BOOLEAN :
          /\ device' = IF took THEN d ELSE device
          /\ \/ Retried(c) /\ (OnSession(E) /\ took => history'[c].adrift)
             \/ Succeeded(c) /\ (OnSession(E) /\ ~took => history'[c].adrift)
             \/ Failed(c) /\ (OnSession(E) /\ took => history'[c].adrift)
          /\ s.background /\ ~took => history'[c].adrift
    BY <2>1, RunVariantFacts
  <2>3. call[c].variant \in 1..Len(s.variants) /\ E = s.variants[call[c].variant]
    BY <1>1, <1>2, <2>1 DEF Shape, Placed, EffectsAt, FineStep
  <2>4. Retried(c) => Running(c)' /\ call'[c].pc = i
    BY <1>1 DEF Retried, Running
  <2> HIDE DEF E
  <2>5. CASE i = o + 1
    <3>1. s.variants = <<J, J>> /\ s.next = 1 /\ s.orElse = 0
      BY <1>2, <1>5, <2>5 DEF Shaped
    <3>2. E = J
      BY <2>3, <3>1
    <3>3. OnSession(E)
      BY <3>2 DEF OnSession, J, Join, Effect
    <3>4. i \notin (o + 2)..(o + 6)
      BY <1>4, <2>5
    <3>5. took /\ Succeeded(c)
      BY <1>8, <2>2, <3>3, <3>4
    <3>6. Landed(c, 1) /\ i + 1 <= Len(q)
      BY <1>4, <2>5, <3>1, <3>5 DEF Succeeded
    <3>7. Running(c)' /\ call'[c].pc = i + 1
      BY <1>1, <3>6, Onwards
    <3> QED  BY <1>4, <2>5, <3>7 DEF o
  <2>6. CASE i = o + 4
    <3>1. s.next = 1 /\ s.orElse = 2
      BY <1>2, <1>5, <2>6 DEF Shaped
    <3>2. CASE Succeeded(c) \/ Failed(c)
      <4>1. PICK j \in {1, 2} : Landed(c, j)
        BY <3>1, <3>2 DEF Succeeded, Failed
      <4>2. i + j <= Len(q)
        BY <1>4, <2>6
      <4>3. Running(c)' /\ call'[c].pc = i + j
        BY <1>1, <4>1, <4>2, Onwards
      <4> QED  BY <1>4, <2>6, <4>3 DEF o
    <3>3. CASE Retried(c)
      BY <1>4, <2>4, <2>6, <3>3 DEF o
    <3> QED  BY <2>2, <3>2, <3>3
  <2>7. CASE i = o + 5
    <3>1. s.variants = <<M, M>> /\ s.orElse = 1
      BY <1>2, <1>5, <2>7 DEF Shaped
    <3>2. E = M
      BY <2>3, <3>1
    <3>3. OnSession(E)
      <4>1. \E e \in Leave("sessions", c) : e.cell = "sessions"
        BY DEF Leave, Effect
      <4> QED  BY <3>2, <4>1 DEF OnSession, M
    <3>4. c \notin d["sessions"]
      BY <3>2, SessionLeft DEF M
    <3>7. ~took /\ (Failed(c) \/ Retried(c))
      BY <2>2, <3>3, <3>4
    <3>5. CASE Failed(c)
      <4>1. Landed(c, 1) /\ i + 1 <= Len(q)
        BY <1>4, <2>7, <3>1, <3>5 DEF Failed
      <4>2. Running(c)' /\ call'[c].pc = i + 1
        BY <1>1, <4>1, Onwards
      <4> QED  BY <1>4, <2>7, <4>2 DEF o
    <3>6. CASE Retried(c)
      BY <1>4, <2>4, <2>7, <3>6 DEF o
    <3> QED  BY <3>5, <3>6, <3>7
  <2>8. CASE i = o + 6
    <3>1. s.variants = <<L, L>> /\ s.background
      BY <1>2, <1>5, <2>8 DEF Shaped
    <3>2. E = L
      BY <2>3, <3>1
    <3>3. c \notin d["sessions"]
      BY <3>2, SessionLeft DEF L
    <3> QED  BY <2>2, <3>1, <3>3
  <2> QED  BY <1>12, <2>5, <2>6, <2>7, <2>8
<1>13. \/ i \in 1..o \/ i \in (o + 7)..Len(q) \/ i = o + 2 \/ i = o + 3
       \/ i \in {o + 1, o + 4, o + 5, o + 6}
  BY <1>2, <1>4, SMTT(30)
<1> QED  BY <1>9, <1>10, <1>11, <1>12, <1>13

LEMMA SessionStep ==
    ASSUME SessionInv, NEW c \in Callers, CallerStep(c), NEW o \in Callers
    PROVE  Settled(o)'
<1>0. Shape /\ Settled(c) /\ Settled(o)
  BY DEF SessionInv
<1>1. Running(c)
  BY DEF CallerStep, RunVariant, Readback, ReadList, OwnStep, At
<1>2. /\ call[c] # Idle /\ FineStep(c, StepOf(c)) /\ call[c].pc \in Nat \ {0}
  BY <1>0, <1>1, StepNow
<1>3. StepOf(c).kind = "remember" => StepOf(c).variants[1] # {}
  BY <1>2 DEF FineStep
<1>4. Recorded(c) /\ Elsewhere(c)
  BY <1>0, <1>3, RunVariantFacts, ReadbackFacts, ReadListFacts, OwnStepFacts
  DEF CallerStep, ReadList, At, Retried, Succeeded, Failed, Landed
<1>5. CASE o # c
  <2>1. call'[o] = call[o] /\ (history[o].adrift => history'[o].adrift)
    BY <1>4, <1>5 DEF Elsewhere, Recorded
  <2>2. o \in device'["sessions"] <=> o \in device["sessions"]
    <3>1. CASE RunVariant(c)
      <4>1. device' \in {device, Apply(c, EffectsAt(c), device)} /\ StepOf(c).kind = "run"
        BY <1>0, <3>1, RunVariantFacts DEF At
      <4>2. call[c].variant \in 1..Len(StepOf(c).variants)
        BY <1>0, <1>1, <1>2, <4>1 DEF Shape, Placed, FineStep
      <4> QED  BY <1>0, <1>1, <1>5, <4>1, <4>2, SessionKept DEF EffectsAt
    <3>2. CASE Readback(c) \/ ReadList(c)
      BY <1>0, <1>3, <3>2, ReadbackFacts, ReadListFacts DEF ReadList, At
    <3>3. CASE OwnStep(c)
      <4>1. StepOf(c).kind # "check" /\ device' \in {device, Apply(c, StepOf(c).variants[1], device)}
        BY <1>0, <3>3, OwnStepFacts DEF At
      <4>2. 1 \in 1..Len(StepOf(c).variants)
        BY <1>2, <4>1 DEF FineStep
      <4> QED  BY <1>0, <1>1, <1>5, <4>1, <4>2, SessionKept
    <3> QED  BY <3>1, <3>2, <3>3 DEF CallerStep
  <2>3. Running(o)' <=> Running(o)
    BY <2>1 DEF Running
  <2> QED  BY <1>0, <2>1, <2>2, <2>3 DEF Settled
<1>6. CASE o = c
  <2>1. call'[c].request = call[c].request
    BY <1>4 DEF Elsewhere
  <2>2. call'[c] # Idle
    <3>1. PICK t, b : call[c].request = <<t, b>> /\ call[c].request \in Requests
      BY <1>0, <1>2, PlanNow
    <3>2. call[c].request # Idle.request
      <4>1. PICK u, b1 : call[c].request = <<u, b1>> /\ u \in DOMAIN executeSync[c]
        BY <3>1, PlansGood
      <4>2. u # "none"
        BY <4>1, TableFacts
      <4>3. call[c].request[1] # "none" /\ Idle.request[1] = "none"
        BY <4>1, <4>2 DEF Idle
      <4> QED  BY <4>3
    <3> QED  BY <2>1, <3>2
  <2>3. ASSUME call'[c].request[1] = "app_install", call'[c].request[2] \in Installs,
               c \in device'["sessions"], ~history'[c].adrift
        PROVE  /\ Running(c)'
               /\ call'[c].pc \in (Offset(call'[c].request[2]) + 2)..(Offset(call'[c].request[2]) + 6)
    <3>1. PICK t, b : call[c].request = <<t, b>>
      BY <1>0, <1>2, PlanNow
    <3>2. t = "app_install" /\ b \in Installs /\ call[c].request[2] = b
      BY <2>1, <2>3, <3>1
    <3>3. Running(c)' /\ call'[c].pc \in (Offset(b) + 2)..(Offset(b) + 6)
      BY <1>0, <2>3, <3>1, <3>2, OwnSession
    <3> QED  BY <2>1, <3>2, <3>3
  <2> QED  BY <1>6, <2>2, <2>3 DEF Settled
<1> QED  BY <1>5, <1>6

LEMMA SessionNext ==
    ASSUME SessionInv, [Next]_vars
    PROVE  SessionInv'
<1>0. Shape /\ Shape'
  BY ShapeNext DEF SessionInv
<1>1. CASE UNCHANGED vars
  BY <1>0, <1>1 DEF vars, SessionInv, Settled, Running
<1>2. ASSUME NEW c \in Callers, NEW q \in Requests, Call(c, q), NEW o \in Callers PROVE Settled(o)'
  <2>1. device' = device /\ Settled(o)
    BY <1>0, <1>2, CallFacts DEF SessionInv
  <2>2. CASE o # c
    <3>1. call'[o] = call[o] /\ history'[o].adrift = history[o].adrift
      BY <1>0, <1>2, <2>2, CallFacts
    <3> QED  BY <2>1, <3>1 DEF Settled, Running
  <2>3. CASE o = c
    <3>1. c \notin device'["sessions"]
      BY <1>0, <1>2, <2>1, <2>3, CallFacts DEF Settled
    <3> QED  BY <2>3, <3>1 DEF Settled
  <2> QED  BY <2>2, <2>3
<1>3. ASSUME NEW c \in Callers, Cancel(c), NEW o \in Callers PROVE Settled(o)'
  <2>1. /\ call'[o].request = call[o].request /\ call'[o].pc = call[o].pc /\ call'[o].answer = call[o].answer
        /\ history' = history /\ device' = device /\ Settled(o)
    BY <1>0, <1>3, CancelFacts DEF SessionInv
  <2>2. call'[o] = Idle => call[o] = Idle
    <3>1. CASE o = c
      <4>1. call'[c].pc # 0
        BY <1>0, <1>3, CancelFacts DEF Running
      <4> QED  BY <3>1, <4>1 DEF Idle
    <3> QED  BY <1>0, <1>3, <3>1, CancelFacts
  <2> QED  BY <2>1, <2>2 DEF Settled, Running
<1>4. CASE Next
  BY <1>0, <1>2, <1>3, <1>4, SessionStep DEF Next, SessionInv
<1> QED  BY <1>1, <1>4

\* An answered install leaves no session of the package manager open, unless a
\* command on the session went astray (the deferred abandonPackageSession).
THEOREM SessionSettledCorrect == Spec => []SessionSettled
<1>1. Init => SessionInv
  <2> SUFFICES ASSUME Init PROVE SessionInv
    OBVIOUS
  <2>1. Shape
    BY ShapeInit
  <2>2. ASSUME NEW c \in Callers PROVE Settled(c)
    <3>1. device["sessions"] = {}
      BY Known, InitDevice
    <3> QED  BY <3>1 DEF Settled
  <2> QED  BY <2>1, <2>2 DEF SessionInv
<1>2. SessionInv /\ [Next]_vars => SessionInv'
  BY SessionNext
<1>3. SessionInv => SessionSettled
  BY DEF SessionInv, Settled, SessionSettled, Running, Installs
<1> QED  BY <1>1, <1>2, <1>3, PTL DEF Spec

----------------------------------------------------------------------------
(* Verified answers.                                                       *)

\* What every step of a caller does to the rest.
LEMMA StepFacts ==
    ASSUME Shape, NEW c \in Callers, CallerStep(c)
    PROVE  /\ Running(c) /\ call[c] # Idle /\ FineStep(c, StepOf(c)) /\ call[c].pc \in Nat \ {0}
           /\ Recorded(c) /\ Elsewhere(c)
           /\ \/ device' = device
              \/ \E k \in 1..Len(StepOf(c).variants) : device' = Apply(c, StepOf(c).variants[k], device)
<1>1. Running(c)
  BY DEF CallerStep, RunVariant, Readback, ReadList, OwnStep, At
<1>2. /\ call[c] # Idle /\ FineStep(c, StepOf(c)) /\ call[c].pc \in Nat \ {0}
  BY <1>1, StepNow
<1>3. StepOf(c).kind = "remember" => StepOf(c).variants[1] # {}
  BY <1>2 DEF FineStep
<1>4. Recorded(c) /\ Elsewhere(c)
  BY <1>3, RunVariantFacts, ReadbackFacts, ReadListFacts, OwnStepFacts
  DEF CallerStep, ReadList, At, Retried, Succeeded, Failed, Landed
<1>5. CASE RunVariant(c)
  <2>1. device' \in {device, Apply(c, EffectsAt(c), device)} /\ StepOf(c).kind = "run"
    BY <1>5, RunVariantFacts DEF At
  <2>2. call[c].variant \in 1..Len(StepOf(c).variants)
    BY <1>1, <1>2, <2>1 DEF Shape, Placed, FineStep
  <2> QED  BY <1>1, <1>2, <1>4, <2>1, <2>2 DEF EffectsAt
<1>6. CASE Readback(c) \/ ReadList(c)
  BY <1>1, <1>2, <1>3, <1>4, <1>6, ReadbackFacts, ReadListFacts DEF ReadList, At
<1>7. CASE OwnStep(c)
  <2>1. StepOf(c).kind # "check" /\ device' \in {device, Apply(c, StepOf(c).variants[1], device)}
    BY <1>7, OwnStepFacts DEF At
  <2>2. 1 \in 1..Len(StepOf(c).variants)
    BY <1>2, <2>1 DEF FineStep
  <2> QED  BY <1>1, <1>2, <1>4, <2>1, <2>2
<1> QED  BY <1>5, <1>6, <1>7 DEF CallerStep

\* These cells hold one value, and none that contains another.
Valued == \A x \in Values : \E v : v # "it.longer" /\ device[x] = {v}

LEMMA ValuedStep ==
    ASSUME Shape, Valued, NEW c \in Callers, CallerStep(c)
    PROVE  Valued'
<1>1. ASSUME NEW k \in 1..Len(StepOf(c).variants), device' = Apply(c, StepOf(c).variants[k], device),
             NEW x \in Values
      PROVE  \E v : v # "it.longer" /\ device'[x] = {v}
  <2> DEFINE E == StepOf(c).variants[k]
  <2>1. FineEffects(c, E)
    BY VariantKnown, StepFacts
  <2>2. x \in DOMAIN device
    BY Known DEF Shape
  <2>3. CASE \A e \in E : e.cell # x
    <3>1. device'[x] = device[x]
      BY <1>1, <2>2, <2>3, Applied
    <3> QED  BY <3>1 DEF Valued
  <2>4. CASE \E e \in E : e.cell = x
    <3>1. PICK e \in E : e.cell = x /\ device'[x] = Written(c, e, device)
      BY <1>1, <2>2, <2>4, Applied
    <3>2. e.keep = "nothing" /\ \E v : v # "it.longer" /\ e.add = {v}
      BY <2>1, <3>1 DEF FineEffects, FineEffect
    <3>3. Written(c, e, device) = e.add
      BY <3>2, WrittenFacts
    <3> QED  BY <3>1, <3>2, <3>3
  <2> QED  BY <2>3, <2>4
<1> QED  BY <1>1, StepFacts DEF Valued

\* A readback that proves a goal reads it.
LEMMA CheckHolds ==
    ASSUME Shape, Valued, NEW c \in Callers, Running(c), NEW g, Proves(StepOf(c), g),
           StepOf(c).kind = "check", Holds(StepOf(c).test, device),
           StepOf(c).variants # <<>> => Apply(c, StepOf(c).variants[1], device) = device
    PROVE  Holds(g, device)
<1> DEFINE s == StepOf(c)
<1>1. CASE s.test = g
  BY <1>1
<1>2. CASE \E v : g = Lacks(g.cell, v) /\ s.test = Omits(g.cell, v)
  <2>1. PICK v : g = Lacks(g.cell, v) /\ s.test = Omits(g.cell, v)
    BY <1>2
  <2>2. /\ Omits(g.cell, v).how = "lacks" /\ Omits(g.cell, v).cell = g.cell /\ Omits(g.cell, v).v = {v}
        /\ Omits(g.cell, v).exact = FALSE
        /\ Lacks(g.cell, v).how = "lacks" /\ Lacks(g.cell, v).cell = g.cell /\ Lacks(g.cell, v).v = {v}
        /\ Lacks(g.cell, v).exact = TRUE
    BY DEF Omits, Lacks, Test
  <2>3. {v} \cap Printed(device[g.cell]) = {}
    BY <2>1, <2>2 DEF Holds
  <2>4. {v} \cap device[g.cell] = {}
    BY <2>3 DEF Printed
  <2> QED  BY <2>1, <2>2, <2>4 DEF Holds
<1>3. CASE \E v : v # "it" /\ g.cell \in Values /\ g = Is(g.cell, v) /\ s.test = Prints(g.cell, v)
  <2>1. PICK v : v # "it" /\ g.cell \in Values /\ g = Is(g.cell, v) /\ s.test = Prints(g.cell, v)
    BY <1>3
  <2>2. /\ Prints(g.cell, v).how = "has" /\ Prints(g.cell, v).cell = g.cell /\ Prints(g.cell, v).v = {v}
        /\ Prints(g.cell, v).exact = FALSE
        /\ Is(g.cell, v).how = "is" /\ Is(g.cell, v).cell = g.cell /\ Is(g.cell, v).v = {v}
        /\ Is(g.cell, v).exact = TRUE
    BY DEF Prints, Is, Test
  <2>3. {v} \subseteq Printed(device[g.cell])
    BY <2>1, <2>2 DEF Holds
  <2>4. v \in device[g.cell]
    BY <2>1, <2>3 DEF Printed
  <2>5. device[g.cell] = {v}
    BY <2>1, <2>4 DEF Valued
  <2> QED  BY <2>1, <2>2, <2>5 DEF Holds
<1>4. CASE s.variants = <<{Effect(g.cell, "nothing", g.v, {})}>> /\ g.how = "is" /\ g.exact
  <2> DEFINE e == Effect(g.cell, "nothing", g.v, {})
  <2>1. e.cell = g.cell /\ e.keep = "nothing" /\ e.add = g.v
    BY DEF Effect
  <2> HIDE DEF e
  <2>2. s.variants # <<>> /\ 1 \in 1..Len(s.variants) /\ s.variants[1] = {e}
    BY <1>4 DEF e
  <2>3. g.cell \in DOMAIN device
    BY <2>1, <2>2, VariantKnown DEF Shape
  <2>4. device[g.cell] = Written(c, e, device)
    BY <2>1, <2>2, <2>3, Applied
  <2>5. device[g.cell] = g.v
    BY <2>1, <2>4, WrittenFacts
  <2> QED  BY <1>4, <2>5 DEF Holds
<1> QED  BY <1>1, <1>2, <1>3, <1>4 DEF Proves

\* A step of the caller's own that proves a goal brings it about.
LEMMA OwnHolds ==
    ASSUME Shape, NEW c \in Callers, Running(c), NEW g, Proves(StepOf(c), g), StepOf(c).kind = "own"
    PROVE  Holds(g, Apply(c, StepOf(c).variants[1], device)) /\ StepOf(c).code = "partial"
<1> DEFINE s == StepOf(c)
           e == Effect(g.cell, "nothing", g.v, {})
           d == Apply(c, s.variants[1], device)
<1>1. s.code = "partial" /\ s.variants = <<{e}>> /\ g.how = "is" /\ g.exact
  BY DEF Proves
<1>2. e.cell = g.cell /\ e.keep = "nothing" /\ e.add = g.v
  BY DEF Effect
<1> HIDE DEF e
<1>3. 1 \in 1..Len(s.variants) /\ s.variants[1] = {e}
  BY <1>1
<1>4. g.cell \in DOMAIN device
  BY <1>2, <1>3, VariantKnown DEF Shape
<1>5. d[g.cell] = Written(c, e, device)
  BY <1>2, <1>3, <1>4, Applied
<1>6. d[g.cell] = g.v
  BY <1>2, <1>5, WrittenFacts
<1> HIDE DEF d
<1>7. Holds(g, d)
  BY <1>1, <1>6 DEF Holds
<1> QED  BY <1>1, <1>7 DEF d

\* A call that has passed the step that proves a goal has seen it.
Passed(q, i, g) == Proves(q[i], g) /\ Reached(q, i)

Assured(c) ==
    Guarded(PlanOf(c)) =>
        /\ call[c].answer = "done" => ~call[c].partial /\ call[c].pc > Len(PlanOf(c).steps)
        /\ call[c].answer \in {"none", "done"} /\ ~call[c].partial =>
             \A g \in PlanOf(c).goals : \A i \in 1..Len(PlanOf(c).steps) :
                Passed(PlanOf(c).steps, i, g) /\ call[c].pc > i => g \in history[c].met

LEMMA AssuredLanded ==
    ASSUME Shape, NEW c \in Callers, Assured(c), Running(c), Recorded(c), Succeeded(c) \/ Failed(c),
           \A g \in PlanOf(c).goals : Proves(StepOf(c), g) =>
              \/ Holds(g, device')
              \/ Failed(c) /\ (StepOf(c).orElse = 0 \/ StepOf(c).code = "partial")
    PROVE  Assured(c)'
<1> DEFINE q == PlanOf(c).steps
           k == call[c].pc
           s == StepOf(c)
<1>1. /\ k \in 1..Len(q) /\ Len(q) \in Nat /\ s = q[k] /\ s.next \in Nat /\ s.orElse \in Nat
      /\ s.code \in Answers \ {"none"} /\ call[c].answer = "none"
  BY StepNow DEF StepOf, FineStep, Running
<1>2. PICK j \in {s.next, s.orElse} : Landed(c, j) /\ (call[c].partial => call'[c].partial)
  BY DEF Succeeded, Failed
<1>3. PlanOf(c)' = PlanOf(c)
  BY <1>2 DEF Landed, Elsewhere, PlanOf
<1> SUFFICES ASSUME Guarded(PlanOf(c))
             PROVE  /\ call'[c].answer = "done" => ~call'[c].partial /\ call'[c].pc > Len(q)
                    /\ call'[c].answer \in {"none", "done"} /\ ~call'[c].partial =>
                         \A g \in PlanOf(c).goals : \A i \in 1..Len(q) :
                            Passed(q, i, g) /\ call'[c].pc > i => g \in history'[c].met
  BY <1>3 DEF Assured
<1>4. s.code # "done"
  BY <1>1 DEF Guarded
<1>5. call'[c].answer \in {"none", "done"} => j # 0
  BY <1>1, <1>2, <1>4 DEF Landed
<1>6. ASSUME call'[c].answer = "done" PROVE ~call'[c].partial /\ call'[c].pc > Len(q)
  <2>1. j # 0
    BY <1>5, <1>6
  <2>2. k + j > Len(q) /\ call'[c].pc = k + j
    BY <1>2, <1>6, <2>1 DEF Landed
  <2>3. call'[c].answer = IF call'[c].partial THEN "partial" ELSE "done"
    BY <1>2, <2>1, <2>2 DEF Landed
  <2> QED  BY <1>6, <2>2, <2>3
<1>7. ASSUME call'[c].answer \in {"none", "done"}, ~call'[c].partial, NEW g \in PlanOf(c).goals,
             NEW i \in 1..Len(q), Passed(q, i, g), call'[c].pc > i
      PROVE  g \in history'[c].met
  <2>1. j # 0 /\ call'[c].pc = k + j /\ ~call[c].partial
    BY <1>2, <1>5, <1>7 DEF Landed
  <2>2. CASE k > i
    <3>1. g \in history[c].met
      BY <1>1, <1>7, <2>1, <2>2 DEF Assured
    <3> QED  BY <3>1 DEF Recorded
  <2>3. CASE k = i
    <3>1. Proves(s, g)
      BY <1>1, <1>7, <2>3 DEF Passed
    <3>2. CASE Holds(g, device')
      BY <3>2 DEF Recorded
    <3>3. CASE Failed(c) /\ (s.orElse = 0 \/ s.code = "partial")
      <4>1. s.orElse # 0
        BY <1>1, <1>4, <1>7, <3>3 DEF Failed, Landed
      <4>2. call'[c].partial
        BY <3>3, <4>1 DEF Failed
      <4> QED  BY <1>7, <4>2
    <3> QED  BY <3>1, <3>2, <3>3
  <2>4. CASE k < i
    <3>1. k \in 1..(i - 1)
      BY <1>1, <2>4
    <3>2. k + s.next <= i /\ k + s.orElse <= i
      BY <1>1, <1>7, <3>1 DEF Passed, Reached
    <3> QED  BY <1>1, <1>2, <1>7, <2>1, <3>2
  <2> QED  BY <1>1, <2>2, <2>3, <2>4
<1> QED  BY <1>6, <1>7

\* The two requests whose goals no single readback proves: the list of services
\* and the flag that follows it.
Accessible == {<<"accessibility", "enable">>, <<"accessibility", "disable">>}
FlagGoal   == Follows("accessibility_flag")

\* The list the call works with is as it should be.
Wanted(c) == call[c].request = <<"accessibility", "enable">> <=> c \in call[c].list

\* The list is as the call wrote it, as far as the flag depends on it, and the
\* flag is not as it should be yet.
Against(c) ==
    /\ device["accessibility"] = {} <=> call[c].list = {}
    /\ device["accessibility_flag"] = {"on"} <=> call[c].list = {}

\* Where the call is says what it has seen.  Between the readbacks of the list
\* and of the flag either the two have agreed already, or every step, of
\* whatever caller, that could make them disagree otherwise makes them agree.
Followed(c) ==
    (call[c].request \in Accessible /\ call[c].answer \in {"none", "done"}) =>
        /\ call[c].pc > 1 => Wanted(c)
        /\ call[c].pc > 3 => PlanOf(c).goals \ {FlagGoal} \subseteq history[c].met
        /\ call[c].pc \in {4, 5} => FlagGoal \in history[c].met \/ Against(c)
        /\ call[c].pc > 5 => FlagGoal \in history[c].met
        /\ call[c].answer = "done" => call[c].pc > 5

LEMMA FlagHolds ==
    ASSUME NEW d
    PROVE  Holds(FlagGoal, d) <=> (d["accessibility_flag"] = {"on"} <=> d["accessibility"] # {})
<1>1. FlagGoal.how = "follows" /\ FlagGoal.cell = "accessibility_flag" /\ FlagGoal.exact = TRUE
  BY DEF FlagGoal, Follows, Test
<1> QED  BY <1>1 DEF Holds

\* What the plan of such a request is.
LEMMA AccessibleNow ==
    ASSUME Shape, NEW c \in Callers, call[c].request \in Accessible
    PROVE  LET q == PlanOf(c).steps IN
           /\ call[c].pc \in Nat \ {0}
           /\ Len(q) = 5
           /\ \/ /\ call[c].request = <<"accessibility", "enable">>
                 /\ Shaped(q[1], "remember", <<Join("accessibility", c)>>, 1, 0)
                 /\ PlanOf(c).goals = {Has("accessibility", c), FlagGoal}
              \/ /\ call[c].request # <<"accessibility", "enable">>
                 /\ Shaped(q[1], "remember", <<Leave("accessibility", c)>>, 1, 0)
                 /\ PlanOf(c).goals = {Lacks("accessibility", c), FlagGoal}
           /\ Shaped(q[2], "run", <<WrittenAsRead, WrittenAsRead>>, 1, 0)
           /\ Shaped(q[3], "check", <<WrittenAsRead>>, 1, 0)
           /\ Shaped(q[4], "run", <<FlagAsRead, FlagAsRead>>, 1, 0)
           /\ Shaped(q[5], "check", <<FlagAsRead>>, 1, 0)
           /\ \A i \in 1..5 : ~q[i].unread /\ q[i].code \in {"failed", "verify_failed"}
<1> DEFINE q == PlanOf(c).steps
<1>1. call[c] # Idle
  <2>1. call[c].request[1] = "accessibility" /\ Idle.request[1] = "none"
    BY DEF Accessible, Idle
  <2> QED  BY <2>1
<1>2. PICK t, a : call[c].request = <<t, a>> /\ GoodPlan(c, t, a, PlanOf(c))
  BY <1>1, PlanNow
<1>3. t = "accessibility" /\ a \in {"enable", "disable"}
  BY <1>2 DEF Accessible
<1>4. call[c].pc \in Nat \ {0}
  BY <1>1, PlanNow
<1>5. CASE a = "enable"
  <2>1. AccessibilitySteps(q, Join("accessibility", c)) /\ PlanOf(c).goals = {Has("accessibility", c), FlagGoal}
    BY <1>2, <1>3, <1>5 DEF GoodPlan, FlagGoal
  <2> QED  BY <1>2, <1>3, <1>4, <1>5, <2>1 DEF AccessibilitySteps
<1>6. CASE a = "disable"
  <2>1. AccessibilitySteps(q, Leave("accessibility", c)) /\ PlanOf(c).goals = {Lacks("accessibility", c), FlagGoal}
    BY <1>2, <1>3, <1>6 DEF GoodPlan, FlagGoal
  <2>2. call[c].request # <<"accessibility", "enable">>
    BY <1>2, <1>6
  <2> QED  BY <1>4, <2>1, <2>2 DEF AccessibilitySteps
<1> QED  BY <1>3, <1>5, <1>6

\* No step writes the list and the flag.
LEMMA OneOfTwo ==
    ASSUME Shape, NEW c \in Callers, CallerStep(c)
    PROVE  \/ device'["accessibility"] = device["accessibility"]
           \/ device'["accessibility_flag"] = device["accessibility_flag"]
<1>1. ASSUME NEW k \in 1..Len(StepOf(c).variants), device' = Apply(c, StepOf(c).variants[k], device)
      PROVE  \/ device'["accessibility"] = device["accessibility"]
             \/ device'["accessibility_flag"] = device["accessibility_flag"]
  <2> DEFINE E == StepOf(c).variants[k]
  <2>1. FineEffects(c, E)
    BY VariantKnown, StepFacts
  <2>2. {"accessibility", "accessibility_flag"} \subseteq DOMAIN device
    BY Known DEF Shape
  <2>3. device' = Apply(c, E, device)
    BY <1>1
  <2> HIDE DEF E
  <2>4. (\A e \in E : e.cell # "accessibility") \/ (\A e \in E : e.cell # "accessibility_flag")
    BY <2>1 DEF FineEffects
  <2> QED  BY <2>2, <2>3, <2>4, Applied
<1> QED  BY <1>1, StepFacts

\* What a call has seen of the flag, or not yet, survives any caller's step.
LEMMA AgainstKept ==
    ASSUME Shape, NEW c \in Callers, CallerStep(c), NEW o \in Callers, Running(o),
           FlagGoal \in PlanOf(o).goals, FlagGoal \in history[o].met \/ Against(o),
           call'[o].list = call[o].list
    PROVE  FlagGoal \in history'[o].met \/ Against(o)'
<1>1. history'[o].met = history[o].met \cup {g \in PlanOf(o).goals : Holds(g, device')}
  BY StepFacts DEF Recorded
<1>2. CASE FlagGoal \in history[o].met \/ Holds(FlagGoal, device')
  BY <1>1, <1>2
<1>3. CASE Against(o) /\ ~Holds(FlagGoal, device')
  <2>1. ~(device'["accessibility_flag"] = {"on"} <=> device'["accessibility"] # {})
    BY <1>3, FlagHolds
  <2> QED  BY <1>3, <2>1, OneOfTwo DEF Against
<1> QED  BY <1>2, <1>3

\* A readback of what was written finds it.
LEMMA ReadAsWritten ==
    ASSUME Shape, NEW c, NEW e, Apply(c, {e}, device) = device, e.cell \in DOMAIN device
    PROVE  device[e.cell] = Written(c, e, device)
<1>1. \E f \in {e} : f.cell = e.cell
  OBVIOUS
<1>2. \E f \in {e} : f.cell = e.cell /\ Apply(c, {e}, device)[e.cell] = Written(c, f, device)
  BY <1>1, Applied
<1> QED  BY <1>2

LEMMA ListReadback ==
    ASSUME Shape, NEW c \in Callers
    PROVE  /\ Apply(c, WrittenAsRead, device) = device => device["accessibility"] = call[c].list
           /\ Apply(c, FlagAsRead, device) = device =>
                device["accessibility_flag"] = IF call[c].list = {} THEN {"off"} ELSE {"on"}
<1> DEFINE e == Effect("accessibility", "list", {}, {})
           f == Effect("accessibility_flag", "flag", {}, {})
           flag == IF call[c].list = {} THEN {"off"} ELSE {"on"}
<1>1. /\ e.cell = "accessibility" /\ e.keep = "list" /\ e.add = {} /\ e.drop = {}
      /\ f.cell = "accessibility_flag" /\ f.keep = "flag" /\ f.add = {} /\ f.drop = {}
  BY DEF Effect
<1>2. WrittenAsRead = {e} /\ FlagAsRead = {f}
  BY DEF WrittenAsRead, FlagAsRead
<1>3. e.cell \in DOMAIN device /\ f.cell \in DOMAIN device
  BY <1>1, Known DEF Shape
<1> HIDE DEF e, f
<1>4. ASSUME NEW x, x.keep = "list", x.add = {}, x.drop = {} PROVE Written(c, x, device) = call[c].list
  <2>1. Written(c, x, device) = (call[c].list \ x.drop) \cup x.add
    BY <1>4, WrittenFacts
  <2> QED  BY <1>4, <2>1
<1>5. ASSUME NEW x, x.keep = "flag", x.add = {}, x.drop = {} PROVE Written(c, x, device) = flag
  <2>1. Written(c, x, device) = (flag \ x.drop) \cup x.add
    BY <1>5, WrittenFacts
  <2> HIDE DEF flag
  <2> QED  BY <1>5, <2>1
<1> HIDE DEF flag
<1>6. ASSUME Apply(c, WrittenAsRead, device) = device PROVE device["accessibility"] = call[c].list
  BY <1>1, <1>2, <1>3, <1>4, <1>6, ReadAsWritten
<1>7. ASSUME Apply(c, FlagAsRead, device) = device PROVE device["accessibility_flag"] = flag
  BY <1>1, <1>2, <1>3, <1>5, <1>7, ReadAsWritten
<1> QED  BY <1>6, <1>7 DEF flag

\* A call that lands ends with an error or is a step further.
LEMMA FollowedLanded ==
    ASSUME Shape, NEW c \in Callers, Running(c), call[c].request \in Accessible,
           StepOf(c).next = 1, StepOf(c).orElse = 0, StepOf(c).code \in {"failed", "verify_failed"},
           Succeeded(c) \/ Failed(c)
    PROVE  /\ call'[c].request = call[c].request /\ call'[c].list = call[c].list
           /\ PlanOf(c)' = PlanOf(c)
           /\ call'[c].answer \in {"none", "done"} => ~Failed(c) /\ call'[c].pc = call[c].pc + 1
           /\ call'[c].answer = "done" => call'[c].pc > 5
<1>1. PICK j \in {0, 1} : Landed(c, j)
  BY DEF Succeeded, Failed
<1>2. /\ call'[c].request = call[c].request /\ call'[c].list = call[c].list /\ PlanOf(c)' = PlanOf(c)
      /\ call'[c].pc = call[c].pc + j
  BY <1>1 DEF Landed, Elsewhere, PlanOf
<1>3. call'[c].answer \in {"none", "done"} => j = 1
  BY <1>1 DEF Landed
<1>5. Failed(c) => call'[c].answer = StepOf(c).code
  BY DEF Failed, Landed
<1>4. ASSUME call'[c].answer = "done" PROVE call'[c].pc > 5
  <2>1. call[c].pc + 1 > Len(PlanOf(c).steps)
    BY <1>1, <1>3, <1>4 DEF Landed
  <2>2. Len(PlanOf(c).steps) = 5
    BY AccessibleNow
  <2> QED  BY <1>2, <1>3, <1>4, <2>1, <2>2
<1> QED  BY <1>2, <1>3, <1>4, <1>5

LEMMA FollowedStep ==
    ASSUME Shape, NEW c \in Callers, Followed(c), CallerStep(c), call[c].request \in Accessible
    PROVE  Followed(c)'
<1> DEFINE q == PlanOf(c).steps
           i == call[c].pc
           s == StepOf(c)
<1>1. Running(c) /\ Recorded(c) /\ Elsewhere(c)
  BY StepFacts
<1>2. /\ call[c].answer = "none" /\ i \in 1..5 /\ s = q[i]
      /\ ~s.unread /\ s.code \in {"failed", "verify_failed"}
  BY <1>1, AccessibleNow, StepNow DEF Running, StepOf
<1>3. /\ history'[c].met = history[c].met \cup {g \in PlanOf(c).goals : Holds(g, device')}
      /\ FlagGoal \in PlanOf(c).goals
  BY <1>1, AccessibleNow DEF Recorded
<1>4. /\ call'[c].request = call[c].request /\ PlanOf(c)' = PlanOf(c)
  BY <1>1 DEF Elsewhere, PlanOf
<1>5. CASE i = 1
  <2>1. s.kind = "remember" /\ \E change \in {Join("accessibility", c), Leave("accessibility", c)} :
            /\ s.variants = <<change>>
            /\ change = Join("accessibility", c) <=> call[c].request = <<"accessibility", "enable">>
    <3>1. Join("accessibility", c) # Leave("accessibility", c)
      <4>1. \A e \in Join("accessibility", c) : e.add = {c}
        BY DEF Join, Effect
      <4>2. \E e \in Leave("accessibility", c) : e.add = {}
        BY DEF Leave, Effect
      <4> QED  BY <4>1, <4>2
    <3> QED  BY <1>2, <1>5, <3>1, AccessibleNow DEF Shaped
  <2>2. PICK change \in {Join("accessibility", c), Leave("accessibility", c)} :
            /\ s.variants[1] = change
            /\ change = Join("accessibility", c) <=> call[c].request = <<"accessibility", "enable">>
    BY <2>1
  <2>3. \A e \in change : IF change = Join("accessibility", c) THEN e.add = {c} ELSE e.add = {} /\ e.drop = {c}
    BY <2>2 DEF Join, Leave, Effect
  <2>4. ReadList(c) /\ s.variants[1] # {}
    <3>1. ReadList(c)
      BY <2>1 DEF CallerStep, RunVariant, Readback, OwnStep, At
    <3>2. change # {}
      BY DEF Join, Leave
    <3> QED  BY <2>2, <3>1, <3>2
  <2>5. PICK e \in change : \E L : call'[c].list = (L \ e.drop) \cup e.add
    BY <2>2, <2>4, ReadListFacts
  <2>6. c \in call'[c].list <=> change = Join("accessibility", c)
    BY <2>3, <2>5
  <2>7. call'[c].pc = 2 /\ call'[c].answer = "none"
    BY <1>2, <1>5, <2>4, ReadListFacts
  <2>8. Wanted(c)'
    BY <1>4, <2>2, <2>6 DEF Wanted
  <2> QED  BY <2>7, <2>8 DEF Followed
<1>6. CASE i \in {2, 4}
  <2>1. s.kind = "run" /\ s.next = 1 /\ s.orElse = 0
    BY <1>2, <1>6, AccessibleNow DEF Shaped
  <2>2. RunVariant(c)
    BY <2>1 DEF CallerStep, Readback, ReadList, OwnStep, At
  <2>3. /\ call'[c].list = call[c].list
        /\ call'[c].answer \in {"none", "done"} => call'[c].pc \in {i, i + 1}
        /\ call'[c].answer = "done" => call'[c].pc > 5
    <3>1. CASE Retried(c)
      BY <1>2, <3>1 DEF Retried
    <3>2. CASE Succeeded(c) \/ Failed(c)
      BY <1>1, <1>2, <2>1, <3>2, FollowedLanded
    <3> QED  BY <2>2, <3>1, <3>2, RunVariantFacts
  <2>4. Wanted(c)'
    BY <1>2, <1>4, <1>6, <2>3 DEF Followed, Wanted
  <2>5. CASE i = 2
    BY <2>3, <2>4, <2>5 DEF Followed
  <2>6. CASE i = 4
    <3>1. PlanOf(c).goals \ {FlagGoal} \subseteq history'[c].met
      BY <1>2, <1>3, <2>6 DEF Followed
    <3>2. FlagGoal \in history[c].met \/ Against(c)
      BY <1>2, <2>6 DEF Followed
    <3>3. FlagGoal \in history'[c].met \/ Against(c)'
      BY <1>1, <1>3, <2>3, <3>2, AgainstKept
    <3> QED  BY <1>4, <2>3, <2>4, <2>6, <3>1, <3>3 DEF Followed
  <2> QED  BY <1>6, <2>5, <2>6
<1>7. CASE i \in {3, 5}
  <2>1. s.kind = "check" /\ s.next = 1 /\ s.orElse = 0
    BY <1>2, <1>7, AccessibleNow DEF Shaped
  <2>2. Readback(c)
    BY <2>1 DEF CallerStep, RunVariant, ReadList, OwnStep, At
  <2>3. device' = device /\ (Succeeded(c) \/ Failed(c))
    BY <2>2, ReadbackFacts
  <2>4. /\ call'[c].list = call[c].list
        /\ call'[c].answer \in {"none", "done"} => ~Failed(c) /\ call'[c].pc = i + 1
        /\ call'[c].answer = "done" => call'[c].pc > 5
    BY <1>1, <1>2, <2>1, <2>3, FollowedLanded
  <2> SUFFICES ASSUME call'[c].answer \in {"none", "done"}
               PROVE  Followed(c)'
    BY DEF Followed
  <2>5. Wanted(c)'
    BY <1>2, <1>4, <1>7, <2>4 DEF Followed, Wanted
  <2>6. CASE i = 3
    <3>1. s.variants = <<WrittenAsRead>>
      BY <1>2, <2>6, AccessibleNow DEF Shaped
    <3>2. device["accessibility"] = call[c].list
      <4>1. s.variants # <<>> /\ s.variants[1] = WrittenAsRead
        BY <3>1
      <4>2. Apply(c, WrittenAsRead, device) = device
        BY <1>2, <2>2, <2>4, <4>1, ReadbackFacts
      <4> QED  BY <4>2, ListReadback
    <3>3. \A g \in PlanOf(c).goals \ {FlagGoal} : Holds(g, device')
      <4>1. Wanted(c)
        BY <1>2, <2>6 DEF Followed
      <4>2. /\ Has("accessibility", c).how = "has" /\ Has("accessibility", c).cell = "accessibility"
            /\ Has("accessibility", c).v = {c} /\ Has("accessibility", c).exact = TRUE
            /\ Lacks("accessibility", c).how = "lacks" /\ Lacks("accessibility", c).cell = "accessibility"
            /\ Lacks("accessibility", c).v = {c} /\ Lacks("accessibility", c).exact = TRUE
        BY DEF Has, Lacks, Test
      <4>3. call[c].request = <<"accessibility", "enable">> => Holds(Has("accessibility", c), device)
        BY <3>2, <4>1, <4>2 DEF Holds, Wanted
      <4>4. call[c].request # <<"accessibility", "enable">> => Holds(Lacks("accessibility", c), device)
        BY <3>2, <4>1, <4>2 DEF Holds, Wanted
      <4> QED  BY <2>3, <4>3, <4>4, AccessibleNow
    <3>4. PlanOf(c).goals \ {FlagGoal} \subseteq history'[c].met
      BY <1>3, <3>3
    <3>5. FlagGoal \in history'[c].met \/ Against(c)'
      <4>1. CASE Holds(FlagGoal, device')
        BY <1>3, <4>1
      <4>2. CASE ~Holds(FlagGoal, device')
        <5>1. ~(device["accessibility_flag"] = {"on"} <=> device["accessibility"] # {})
          BY <2>3, <4>2, FlagHolds
        <5> QED  BY <2>3, <2>4, <3>2, <5>1 DEF Against
      <4> QED  BY <4>1, <4>2
    <3> QED  BY <1>4, <2>4, <2>5, <2>6, <3>4, <3>5 DEF Followed
  <2>7. CASE i = 5
    <3>1. s.variants = <<FlagAsRead>>
      BY <1>2, <2>7, AccessibleNow DEF Shaped
    <3>2. device["accessibility_flag"] = IF call[c].list = {} THEN {"off"} ELSE {"on"}
      <4>1. s.variants # <<>> /\ s.variants[1] = FlagAsRead
        BY <3>1
      <4>2. Apply(c, FlagAsRead, device) = device
        BY <1>2, <2>2, <2>4, <4>1, ReadbackFacts
      <4> QED  BY <4>2, ListReadback
    <3>3. FlagGoal \in history[c].met
      BY <1>2, <2>7, <3>2 DEF Followed, Against
    <3>4. PlanOf(c).goals \ {FlagGoal} \subseteq history'[c].met
      BY <1>2, <1>3, <2>7 DEF Followed
    <3> QED  BY <1>3, <1>4, <2>4, <2>5, <2>7, <3>3, <3>4 DEF Followed
  <2> QED  BY <1>7, <2>6, <2>7
<1> QED  BY <1>2, <1>5, <1>6, <1>7

VerifiedInv ==
    /\ Shape
    /\ Callers # {} => Valued
    /\ \A c \in Callers : Assured(c) /\ Followed(c)

\* A step of the caller whose call it is.
LEMMA AssuredStep ==
    ASSUME Shape, Valued, NEW c \in Callers, Assured(c), CallerStep(c)
    PROVE  Assured(c)'
<1> DEFINE s == StepOf(c)
<1>1. Running(c) /\ Recorded(c) /\ Elsewhere(c)
  BY StepFacts
<1>2. PlanOf(c)' = PlanOf(c)
  BY <1>1 DEF Elsewhere, PlanOf
<1>3. ASSUME Succeeded(c) \/ Failed(c),
             \A g \in PlanOf(c).goals : Proves(s, g) =>
                \/ Holds(g, device')
                \/ Failed(c) /\ (s.orElse = 0 \/ s.code = "partial")
      PROVE  Assured(c)'
  BY <1>1, <1>3, AssuredLanded
<1>4. CASE RunVariant(c)
  <2>1. \A g : ~Proves(s, g)
    BY <1>4 DEF RunVariant, At, Proves
  <2>2. CASE Retried(c)
    <3>1. /\ call'[c].pc = call[c].pc /\ call'[c].answer = call[c].answer /\ call'[c].partial = call[c].partial
          /\ history[c].met \subseteq history'[c].met
      BY <1>1, <2>2 DEF Retried, Recorded
    <3> QED  BY <1>2, <3>1 DEF Assured
  <2> QED  BY <1>3, <1>4, <2>1, <2>2, RunVariantFacts
<1>5. CASE Readback(c)
  <2>1. s.kind = "check" /\ device' = device
    BY <1>5, ReadbackFacts DEF At
  <2>2. \/ /\ Succeeded(c)
           /\ ~s.unread => /\ Holds(s.test, device)
                           /\ s.variants # <<>> => Apply(c, s.variants[1], device) = device
        \/ Failed(c)
    BY <1>5, ReadbackFacts
  <2>3. ASSUME NEW g \in PlanOf(c).goals, Proves(s, g)
        PROVE  Holds(g, device') \/ (Failed(c) /\ s.orElse = 0)
    <3>1. ~s.unread /\ s.orElse = 0
      BY <2>1, <2>3 DEF Proves
    <3>2. CASE Failed(c)
      BY <3>1, <3>2
    <3>3. CASE ~Failed(c)
      <4>1. Holds(g, device)
        BY <1>1, <2>1, <2>2, <2>3, <3>1, <3>3, CheckHolds
      <4> QED  BY <2>1, <4>1
    <3> QED  BY <3>2, <3>3
  <2> QED  BY <1>3, <2>2, <2>3
<1>6. CASE ReadList(c)
  <2>1. s.kind = "remember" /\ s.variants[1] # {}
    BY <1>6, StepFacts DEF ReadList, At, FineStep
  <2>2. /\ call'[c].pc = call[c].pc + 1 /\ call'[c].answer = call[c].answer
        /\ call'[c].partial <=> call[c].partial
    BY <1>6, <2>1, ReadListFacts
  <2>3. /\ call[c].answer = "none" /\ call[c].pc \in 1..Len(PlanOf(c).steps)
        /\ s = PlanOf(c).steps[call[c].pc] /\ history[c].met \subseteq history'[c].met
    BY <1>1, StepNow DEF Running, StepOf, Recorded
  <2>4. \A g, i : i = call[c].pc => ~Passed(PlanOf(c).steps, i, g)
    BY <2>1, <2>3 DEF Passed, Proves
  <2>5. ASSUME Guarded(PlanOf(c)), ~call'[c].partial, NEW g \in PlanOf(c).goals,
               NEW i \in 1..Len(PlanOf(c).steps), Passed(PlanOf(c).steps, i, g), call'[c].pc > i
        PROVE  g \in history'[c].met
    <3>1. i # call[c].pc
      BY <2>4, <2>5
    <3>2. call[c].pc > i /\ ~call[c].partial
      BY <2>2, <2>3, <2>5, <3>1
    <3> QED  BY <2>3, <2>5, <3>2 DEF Assured
  <2> QED  BY <1>2, <2>2, <2>3, <2>5 DEF Assured
<1>7. CASE OwnStep(c)
  <2>1. /\ s.kind # "check"
        /\ \/ Succeeded(c) /\ device' = Apply(c, s.variants[1], device)
           \/ Failed(c)
    BY <1>7, OwnStepFacts DEF At
  <2>2. ASSUME NEW g \in PlanOf(c).goals, Proves(s, g)
        PROVE  Holds(g, device') \/ (Failed(c) /\ s.code = "partial")
    <3>1. s.kind = "own" /\ s.code = "partial"
      BY <2>1, <2>2 DEF Proves
    <3>2. Holds(g, Apply(c, s.variants[1], device))
      BY <1>1, <2>2, <3>1, OwnHolds
    <3> QED  BY <2>1, <3>1, <3>2
  <2> QED  BY <1>3, <2>1, <2>2
<1> QED  BY <1>4, <1>5, <1>6, <1>7 DEF CallerStep

\* A step that leaves a call alone, though it may see more of its goals.
LEMMA VerifiedElsewhere ==
    ASSUME NEW o \in Callers, Assured(o), Followed(o),
           call'[o].request = call[o].request, call'[o].plan = call[o].plan, call'[o].pc = call[o].pc,
           call'[o].list = call[o].list, call'[o].answer = call[o].answer,
           call'[o].partial = call[o].partial, history[o].met \subseteq history'[o].met,
           call[o].request \in Accessible /\ call[o].answer = "none" /\ Against(o) =>
              FlagGoal \in history'[o].met \/ Against(o)'
    PROVE  Assured(o)' /\ Followed(o)'
<1>1. PlanOf(o)' = PlanOf(o) /\ (Wanted(o)' <=> Wanted(o))
  BY DEF PlanOf, Wanted
<1>2. Assured(o)'
  BY <1>1 DEF Assured
<1>3. Followed(o)'
  BY <1>1 DEF Followed
<1> QED  BY <1>2, <1>3

LEMMA VerifiedNext ==
    ASSUME VerifiedInv, [Next]_vars
    PROVE  VerifiedInv'
<1>0. /\ Shape /\ Shape' /\ (Callers # {} => Valued)
      /\ \A o \in Callers : Assured(o) /\ Followed(o)
  BY ShapeNext DEF VerifiedInv
<1>1. CASE UNCHANGED vars
  <2>1. ASSUME NEW o \in Callers PROVE Assured(o)' /\ Followed(o)'
    BY <1>0, <1>1, VerifiedElsewhere DEF vars, Against
  <2>2. Callers # {} => Valued'
    BY <1>0, <1>1 DEF vars, Valued
  <2> QED  BY <1>0, <2>1, <2>2 DEF VerifiedInv
<1>2. ASSUME NEW c \in Callers, NEW q \in Requests, Call(c, q) PROVE VerifiedInv'
  <2>1. device' = device
    BY <1>0, <1>2, CallFacts
  <2>2. ASSUME NEW o \in Callers, o # c PROVE Assured(o)' /\ Followed(o)'
    <3>1. call'[o] = call[o]
      BY <1>0, <1>2, <2>2, CallFacts
    <3>2. history'[o].met = history[o].met
      <4>1. \A x \in Callers :
              /\ DOMAIN history'[x] = HistoryFields
              /\ x # c => /\ history'[x].met = history[x].met /\ history'[x].adrift = history[x].adrift
                          /\ history'[x].changed = history[x].changed
        BY <1>0, <1>2, CallFacts, ZenonT(30)
      <4> QED  BY <2>2, <4>1
    <3> QED  BY <1>0, <2>1, <3>1, <3>2, VerifiedElsewhere DEF Against
  <2>3. call'[c].pc = 1 /\ call'[c].answer # "done"
    BY <1>0, <1>2, CallFacts
  <2>4. Assured(c)'
    <3>1. \A i \in 1..Len(PlanOf(c)'.steps) : ~(call'[c].pc > i)
      BY <2>3
    <3> QED  BY <2>3, <3>1 DEF Assured
  <2>5. Followed(c)'
    BY <2>3 DEF Followed
  <2> QED  BY <1>0, <2>1, <2>2, <2>4, <2>5 DEF VerifiedInv, Valued
<1>3. ASSUME NEW c \in Callers, Cancel(c) PROVE VerifiedInv'
  <2>1. ASSUME NEW o \in Callers PROVE Assured(o)' /\ Followed(o)'
    <3>1. /\ call'[o].request = call[o].request /\ call'[o].plan = call[o].plan /\ call'[o].pc = call[o].pc
          /\ call'[o].list = call[o].list /\ call'[o].answer = call[o].answer
          /\ call'[o].partial = call[o].partial /\ history' = history /\ device' = device
      BY <1>0, <1>3, CancelFacts
    <3> QED  BY <1>0, <3>1, VerifiedElsewhere DEF Against
  <2>2. device' = device
    BY <1>0, <1>3, CancelFacts
  <2> QED  BY <1>0, <2>1, <2>2 DEF VerifiedInv, Valued
<1>4. ASSUME NEW c \in Callers, CallerStep(c) PROVE VerifiedInv'
  <2>1. Valued /\ Valued'
    BY <1>0, <1>4, ValuedStep
  <2>2. Recorded(c) /\ Elsewhere(c)
    BY <1>0, <1>4, StepFacts
  <2>3. ASSUME NEW o \in Callers, o # c PROVE Assured(o)' /\ Followed(o)'
    <3>1. call'[o] = call[o] /\ history[o].met \subseteq history'[o].met
      BY <2>2, <2>3 DEF Recorded, Elsewhere
    <3>2. ASSUME call[o].request \in Accessible, call[o].answer = "none", Against(o)
          PROVE  FlagGoal \in history'[o].met \/ Against(o)'
      <4>1. call[o].pc \in Nat \ {0} /\ FlagGoal \in PlanOf(o).goals
        BY <1>0, <3>2, AccessibleNow
      <4>2. Running(o)
        BY <3>2, <4>1 DEF Running
      <4> QED  BY <1>0, <1>4, <3>1, <3>2, <4>1, <4>2, AgainstKept
    <3> QED  BY <1>0, <3>1, <3>2, VerifiedElsewhere
  <2>4. Assured(c)'
    BY <1>0, <1>4, <2>1, AssuredStep
  <2>5. Followed(c)'
    <3>1. CASE call[c].request \in Accessible
      BY <1>0, <1>4, <3>1, FollowedStep
    <3>2. CASE call[c].request \notin Accessible
      BY <2>2, <3>2 DEF Followed, Elsewhere
    <3> QED  BY <3>1, <3>2
  <2> QED  BY <1>0, <2>1, <2>3, <2>4, <2>5 DEF VerifiedInv
<1> QED  BY <1>1, <1>2, <1>3, <1>4 DEF Next

\* An answer that says that the change was verified is right: what was asked
\* for was there at some instant of the call, in each of its cells, whatever
\* the other callers did (the readbacks of the handlers).
THEOREM VerifiedHeldCorrect == Spec => []VerifiedHeld
<1>1. Init => VerifiedInv
  <2> SUFFICES ASSUME Init PROVE VerifiedInv
    OBVIOUS
  <2>1. Shape
    BY ShapeInit
  <2>2. ASSUME NEW c \in Callers PROVE Assured(c) /\ Followed(c)
    <3>1. call[c].pc = 0 /\ call[c].answer = "none" /\ call[c].request[1] = "none"
      BY DEF Init, Idle
    <3>2. call[c].request \notin Accessible
      BY <3>1 DEF Accessible
    <3>3. \A i \in 1..Len(PlanOf(c).steps) : ~(call[c].pc > i)
      BY <3>1
    <3> QED  BY <3>1, <3>2, <3>3 DEF Assured, Followed
  <2>3. Callers # {} => Valued
    BY InitDevice, Known DEF Valued
  <2> QED  BY <2>1, <2>2, <2>3 DEF VerifiedInv
<1>2. VerifiedInv /\ [Next]_vars => VerifiedInv'
  BY VerifiedNext
<1>3. VerifiedInv => VerifiedHeld
  <2> SUFFICES ASSUME VerifiedInv, NEW c \in Callers, Verified(c), call[c].request \notin Misread,
                      NEW g \in PlanOf(c).goals
               PROVE  g \in history[c].met
    BY DEF VerifiedHeld
  <2>0. Shape /\ Assured(c) /\ Followed(c) /\ call[c].answer = "done" /\ PlanOf(c).claims
    BY DEF VerifiedInv, Verified
  <2>1. PICK t, a : call[c].request = <<t, a>> /\ GoodPlan(c, t, a, PlanOf(c))
    <3>1. call[c] # Idle
      BY <2>0 DEF Idle
    <3> QED  BY <2>0, <3>1, PlanNow
  <2>2. CASE t = "accessibility" /\ a \in {"enable", "disable"}
    <3>1. call[c].request \in Accessible
      BY <2>1, <2>2 DEF Accessible
    <3>2. call[c].pc \in Nat
      BY <2>0, <3>1, AccessibleNow
    <3> QED  BY <2>0, <3>1, <3>2 DEF Followed
  <2>3. CASE ~(t = "accessibility" /\ a \in {"enable", "disable"})
    <3>1. Guarded(PlanOf(c))
      BY <2>0, <2>1, <2>3 DEF GoodPlan
    <3>2. PICK i \in 1..Len(PlanOf(c).steps) : Passed(PlanOf(c).steps, i, g)
      BY <3>1 DEF Guarded, Guards, Passed
    <3>3. ~call[c].partial /\ call[c].pc > Len(PlanOf(c).steps)
      BY <2>0, <3>1 DEF Assured
    <3>4. call[c].pc \in Nat /\ Len(PlanOf(c).steps) \in Nat
      BY <2>0, PlanNow DEF FineSteps, Idle
    <3>5. call[c].pc > i
      BY <3>3, <3>4
    <3> QED  BY <2>0, <3>1, <3>2, <3>3, <3>5 DEF Assured
  <2> QED  BY <2>2, <2>3
<1> QED  BY <1>1, <1>2, <1>3, PTL DEF Spec
=============================================================================
