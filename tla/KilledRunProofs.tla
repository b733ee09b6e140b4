-------------------------- MODULE KilledRunProofs ---------------------------
(***************************************************************************)
(* The journal directory under crashes, failing appends and the kill       *)
(* ladder, for any number of jobs and runs, any amounts and any bounds.    *)
(*                                                                         *)
(* None of the properties is inductive.  Two families of facts carry them: *)
(* what a file looks like whatever cut it (Shape, and per file what holds  *)
(* while no append has failed), and where the live run stands: its lease,  *)
(* its tasks, its count and what it has made durable.                      *)
(***************************************************************************)
EXTENDS KilledRun, FiniteSetTheorems, SequenceTheorems,
        WellFoundedInduction, TLAPS

Types == {"run-started", "run-finished", "job-started", "opened", "settled",
          "job-finished"}
Forms == {"whole", "open", "torn", "bad"}
LineSet == [type : Types, job : Jobs \union {NoJob}, num : Nat, form : Forms]
Places == {"waiting", "starting", "opening", "inside", "settling",
           "finishing", "done"}
PhaseSet == {"ended", "claiming", "starting", "running", "finishing"}
FactSet == Runs \X Jobs \X {"opened", "settled"}

LogType ==
  /\ file \in [Runs -> Seq(LineSet)]
  /\ synced \in [Runs -> Nat]
  /\ named \subseteq Runs
  /\ claimed \subseteq Nat /\ IsFiniteSet(claimed)

RunType ==
  /\ run \in 0 .. MaxRuns
  /\ phase \in PhaseSet
  /\ holder \in 0 .. MaxRuns
  /\ dead \subseteq Runs
  /\ seq \in Nat /\ count \in Nat
  /\ runFailed \in BOOLEAN /\ detached \in BOOLEAN
  /\ at \in [Jobs -> Places]
  /\ ledger \in [Jobs -> Nat] /\ charged \in [Jobs -> Nat]
  /\ task \in [Runs -> [Jobs -> {"none", "preparing", "body"}]]
  /\ failures \in Nat
  /\ facts \subseteq FactSet
  /\ entered \subseteq Runs \X Jobs
-----------------------------------------------------------------------------
(* The lease and the tasks.                                                *)

(* The live run holds the lease, and with it the tasks. *)
Leased ==
  /\ phase # "ended" => run \in Runs /\ holder = run /\ run \notin dead
  /\ holder # 0 /\ holder \notin dead => holder = run
  /\ holder <= run
  /\ \A r \in dead : r <= run

(* Jobs are dispatched only while the run runs; inside the ladder they are *)
(* behind their durable reservation.                                       *)
Placed ==
  \A j \in Jobs :
    /\ phase # "running" => at[j] \in {"waiting", "done"}
    /\ phase = "finishing" => at[j] = "done"
    /\ at[j] \in {"inside", "settling"} => <<run, j, "opened">> \in facts
    /\ at[j] = "settling" => charged[j] = ledger[j]

(* A task belongs to the live holder; one that the ladder no longer waits  *)
(* for has made the run detached.                                          *)
TaskFenced ==
  \A r \in Runs, j \in Jobs : task[r][j] # "none" =>
    /\ r = holder /\ r \notin dead
    /\ at[j] # "inside" => detached
    /\ task[r][j] = "body" => <<r, j>> \in entered

EnteredOpened == \A e \in entered : <<e[1], e[2], "opened">> \in facts
-----------------------------------------------------------------------------
(* The files.                                                              *)

(* Only the last line is incomplete; the first, and no other, opens the    *)
(* run, and anything follows it only if it is whole.                       *)
Shape(f) ==
  /\ \A i \in 1 .. Len(f) : i < Len(f) => f[i].form \in {"whole", "bad"}
  /\ \A i \in 1 .. Len(f) : i = 1 <=> f[i].type = "run-started"
  /\ Len(f) > 0 => f[1].job = NoJob /\ f[1].form # "bad"
  /\ Len(f) > 1 => f[1].form = "whole"

(* The acknowledged fact is on the disk, unless what it was written behind *)
(* has made the line unreadable.                                           *)
Recorded(f, n, job, type) ==
  \E i \in 1 .. n :
    \/ f[i].type = type /\ f[i].job = job /\ f[i].form = "whole"
    \/ f[i].form = "bad"

(* While no append has failed: no line is unreadable, the finish is the    *)
(* last line and counts them all, and a settle is behind its open.         *)
Clean(f) ==
  \A i \in 1 .. Len(f) :
    /\ f[i].form # "bad"
    /\ f[i].type = "run-finished" => i = Len(f) /\ f[i].num = i
    /\ f[i].type = "settled" =>
         \E k \in 1 .. i - 1 : f[k].type = "opened" /\ f[k].job = f[i].job

Filed ==
  \A r \in Runs :
    /\ Shape(file[r])
    /\ synced[r] <= Len(file[r])
    /\ r \notin named => synced[r] = 0
    /\ r > run => file[r] = <<>>
    /\ failures = 0 => Clean(file[r])

FactsKept ==
  \A f \in facts : f[1] <= run /\ Recorded(file[f[1]], synced[f[1]], f[2], f[3])

(* The file of the live run. *)
Begun == phase \in {"running", "finishing"}
InPending == {j \in Jobs : at[j] \in Pending}

Live ==
  /\ phase \in {"claiming", "starting"} => file[run] = <<>>
  /\ Begun => Len(file[run]) > 0 /\ file[run][1].form = "whole"
  /\ runFailed => failures > 0
  /\ phase # "ended" /\ failures = 0 =>
       /\ \A i \in 1 .. Len(file[run]) :
            file[run][i].form = "whole" /\ file[run][i].type # "run-finished"
       /\ count = Len(file[run]) + Cardinality(InPending)
                    + (IF phase \in {"starting", "finishing"} THEN 1 ELSE 0)
  /\ phase = "running" =>
       \A j \in Jobs, i \in 1 .. Len(file[run]) :
         file[run][i].type = "settled" /\ file[run][i].job = j =>
           file[run][i].num = ledger[j] /\ at[j] \in {"settling", "finishing", "done"}

(* Runs that fold are ordered as they ran, and the live run claimed an     *)
(* ordinal behind all of them.                                             *)
Opens(r) == file[r] # <<>> /\ Parses(file[r][1])

Ordered ==
  /\ \A r, s \in Runs : r < s /\ Opens(r) /\ file[s] # <<>> =>
       file[r][1].num < file[s][1].num
  /\ phase = "starting" => \A r \in Runs : Opens(r) => file[r][1].num < seq

IInv ==
  /\ LogType /\ RunType
  /\ Leased /\ Placed /\ TaskFenced /\ EnteredOpened
  /\ Filed /\ FactsKept /\ Live /\ Ordered
-----------------------------------------------------------------------------
(* What a write makes of a file: a line more, or the incomplete last line  *)
(* continued.                                                              *)
Grows(f, w, l, form) ==
  \/ /\ f = <<>> \/ f[Len(f)].form \in {"whole", "bad"}
     /\ Len(w) = Len(f) + 1
     /\ w[Len(w)] = [l EXCEPT !.form = form]
     /\ \A i \in 1 .. Len(f) : w[i] = f[i]
  \/ /\ Len(f) > 0 /\ f[Len(f)].form \in {"open", "torn"}
     /\ Len(w) = Len(f)
     /\ w[Len(f)] = [f[Len(f)] EXCEPT !.form = IF form = "whole" THEN "bad" ELSE "torn"]
     /\ \A i \in 1 .. Len(f) : i < Len(f) => w[i] = f[i]

LEMMA WrittenGrows ==
  ASSUME NEW f \in Seq(LineSet), NEW l \in LineSet, NEW form \in Forms
  PROVE  /\ Written(f, l, form) \in Seq(LineSet)
         /\ Grows(f, Written(f, l, form), l, form)
<1> DEFINE line == [l EXCEPT !.form = form]
           last == [f[Len(f)] EXCEPT !.form = IF form = "whole" THEN "bad" ELSE "torn"]
<1>1. line \in LineSet
  BY DEF LineSet, Forms
<1>2. CASE f # <<>> /\ Last(f).form \in {"open", "torn"}
  <2>1. Len(f) \in Nat \ {0} /\ Len(f) \in 1 .. Len(f)
    BY <1>2, EmptySeq
  <2>2. f[Len(f)] \in LineSet
    BY <2>1, ElementOfSeq
  <2>3. last \in LineSet
    BY <2>2 DEF LineSet, Forms
  <2>4. Written(f, l, form) = [f EXCEPT ![Len(f)] = last]
    BY <1>2 DEF Written, Last
  <2> HIDE DEF last
  <2>5. /\ Written(f, l, form) \in Seq(LineSet)
        /\ Len(Written(f, l, form)) = Len(f)
        /\ \A i \in 1 .. Len(f) :
             Written(f, l, form)[i] = IF i = Len(f) THEN last ELSE f[i]
    BY <2>1, <2>3, <2>4, ExceptSeq
  <2> QED
    BY <1>2, <2>1, <2>5 DEF Grows, Last, last
<1>3. CASE ~(f # <<>> /\ Last(f).form \in {"open", "torn"})
  <2>1. Written(f, l, form) = Append(f, line)
    BY <1>3 DEF Written
  <2> HIDE DEF line
  <2>2. /\ Append(f, line) \in Seq(LineSet)
        /\ Len(Append(f, line)) = Len(f) + 1
        /\ Append(f, line)[Len(f) + 1] = line
        /\ \A i \in 1 .. Len(f) : Append(f, line)[i] = f[i]
    BY <1>1, AppendProperties
  <2>3. f = <<>> \/ f[Len(f)].form \in {"whole", "bad"}
    <3>1. SUFFICES ASSUME f # <<>> PROVE f[Len(f)].form \in {"whole", "bad"}
      OBVIOUS
    <3>2. f[Len(f)] \in LineSet
      BY <3>1, EmptySeq, ElementOfSeq
    <3> QED
      BY <1>3, <3>1, <3>2 DEF Last, LineSet, Forms
  <2> QED
    BY <2>1, <2>2, <2>3 DEF Grows, line
<1> QED
  BY <1>2, <1>3

(* What a crash of the machine leaves of a file of which n lines are on    *)
(* the disk.                                                               *)
Cut(f, g, n) ==
  /\ g \in Seq(LineSet)
  /\ n <= Len(g) /\ Len(g) <= Len(f)
  /\ \A i \in 1 .. Len(g) :
       /\ g[i].type = f[i].type /\ g[i].job = f[i].job /\ g[i].num = f[i].num
       /\ i <= n \/ i < Len(g) => g[i] = f[i]
       /\ \/ g[i].form = f[i].form
          \/ g[i].form = "torn"
          \/ g[i].form = "open" /\ f[i].form = "whole"

LEMMA PrefixCut ==
  ASSUME NEW f \in Seq(LineSet), NEW n \in 0 .. Len(f)
  PROVE  /\ SubSeq(f, 1, n) \in Seq(LineSet)
         /\ Len(SubSeq(f, 1, n)) = n
         /\ \A i \in 1 .. n : SubSeq(f, 1, n)[i] = f[i]
<1>1. \A i \in 1 .. n : f[i] \in LineSet
  BY ElementOfSeq, LenProperties
<1>2. n \in Int /\ Len(f) \in Nat
  BY LenProperties
<1> QED
  BY <1>1, <1>2, SubSeqProperties

LEMMA SurvivalCut ==
  ASSUME LogType, NEW r \in Runs, Shape(file[r]), synced[r] <= Len(file[r]),
         r \notin named => synced[r] = 0, NEW g \in Survivals(r)
  PROVE  Cut(file[r], g, synced[r])
<1> DEFINE f == file[r]
           p(n) == SubSeq(f, 1, n - 1)
<1>1. f \in Seq(LineSet) /\ synced[r] \in Nat /\ Len(f) \in Nat
  BY LenProperties DEF LogType
<1>2. ASSUME NEW n \in synced[r] .. Len(f), g = SubSeq(f, 1, n)
      PROVE  Cut(f, g, synced[r])
  BY <1>1, <1>2, PrefixCut DEF Cut
<1>3. ASSUME NEW n \in synced[r] + 1 .. Len(f), NEW form \in {"torn", "open"},
             form = "open" => f[n].form = "whole", g = Written(p(n), f[n], form)
      PROVE  Cut(f, g, synced[r])
  <2>1. n \in 1 .. Len(f) /\ n - 1 \in 0 .. Len(f)
    BY <1>1
  <2>2. /\ p(n) \in Seq(LineSet) /\ Len(p(n)) = n - 1
        /\ \A i \in 1 .. n - 1 : p(n)[i] = f[i]
    BY <1>1, <2>1, PrefixCut
  <2>3. f[n] \in LineSet /\ form \in Forms
    BY <1>1, <2>1, ElementOfSeq DEF Forms
  <2>4. g \in Seq(LineSet) /\ Grows(p(n), g, f[n], form)
    BY <1>3, <2>2, <2>3, WrittenGrows
  <2>5. p(n) = <<>> \/ p(n)[Len(p(n))].form \in {"whole", "bad"}
    <3>1. n = 1 => p(n) = <<>>
      BY <2>2, EmptySeq
    <3>2. n # 1 => n - 1 \in 1 .. Len(f) /\ n - 1 < Len(f)
      BY <2>1
    <3>3. n # 1 => f[n - 1].form \in {"whole", "bad"}
      BY <3>2 DEF Shape
    <3> QED
      BY <2>1, <2>2, <3>1, <3>2, <3>3
  <2>6. /\ Len(g) = n /\ g[n] = [f[n] EXCEPT !.form = form]
        /\ \A i \in 1 .. n - 1 : g[i] = f[i]
    <3>1. ~(Len(p(n)) > 0 /\ p(n)[Len(p(n))].form \in {"open", "torn"})
      BY <2>2, <2>5, EmptySeq
    <3> HIDE DEF p
    <3> QED
      BY <2>1, <2>2, <2>4, <3>1 DEF Grows
  <2>7. /\ g[n].type = f[n].type /\ g[n].job = f[n].job /\ g[n].num = f[n].num
        /\ g[n].form = form
    BY <2>3, <2>6 DEF LineSet
  <2>8. \A i \in 1 .. Len(g) : i = n \/ i \in 1 .. n - 1
    BY <2>1, <2>6
  <2>9. ASSUME NEW i \in 1 .. Len(g)
        PROVE  /\ g[i].type = f[i].type /\ g[i].job = f[i].job /\ g[i].num = f[i].num
               /\ i <= synced[r] \/ i < Len(g) => g[i] = f[i]
               /\ \/ g[i].form = f[i].form
                  \/ g[i].form = "torn"
                  \/ g[i].form = "open" /\ f[i].form = "whole"
    <3>1. CASE i \in 1 .. n - 1
      BY <2>6, <3>1
    <3>2. CASE i = n
      <4>1. ~(i <= synced[r]) /\ ~(i < Len(g))
        BY <1>1, <2>1, <2>6, <3>2
      <4> QED
        BY <1>3, <2>7, <3>2, <4>1
    <3> QED
      BY <2>8, <3>1, <3>2
  <2>10. synced[r] <= Len(g) /\ Len(g) <= Len(f)
    BY <1>1, <2>1, <2>6
  <2> QED
    BY <2>4, <2>9, <2>10 DEF Cut
<1>4. ASSUME r \notin named, g = <<>> PROVE Cut(f, g, synced[r])
  BY <1>1, <1>4, EmptySeq DEF Cut
<1>5. \/ \E n \in synced[r] .. Len(f) : g = SubSeq(f, 1, n)
      \/ \E n \in synced[r] + 1 .. Len(f) : g = Written(p(n), f[n], "torn")
      \/ \E n \in synced[r] + 1 .. Len(f) :
           f[n].form = "whole" /\ g = Written(p(n), f[n], "open")
      \/ r \notin named /\ g = <<>>
  BY DEF Survivals
<1> HIDE DEF p, f
<1>6. CASE \E n \in synced[r] .. Len(f) : g = SubSeq(f, 1, n)
  BY <1>2, <1>6 DEF f
<1>7. CASE \E n \in synced[r] + 1 .. Len(f) : g = Written(p(n), f[n], "torn")
  BY <1>3, <1>7 DEF f
<1>8. CASE \E n \in synced[r] + 1 .. Len(f) :
             f[n].form = "whole" /\ g = Written(p(n), f[n], "open")
  BY <1>3, <1>8 DEF f
<1> QED
  BY <1>4, <1>5, <1>6, <1>7, <1>8 DEF f

(* What is recorded among the first n lines stays recorded among them.     *)
Keeps(f, w, n) ==
  \A m \in 0 .. n : \A job, type :
    Recorded(f, m, job, type) => Recorded(w, m, job, type)

LEMMA GrowthKeeps ==
  ASSUME NEW f \in Seq(LineSet), Shape(f), NEW l \in LineSet,
         NEW form \in {"whole", "open", "torn"},
         f = <<>> => l.type = "run-started" /\ l.job = NoJob,
         f # <<>> => l.type # "run-started" /\ f[1].form = "whole",
         NEW w \in Seq(LineSet), Grows(f, w, l, form)
  PROVE  /\ Shape(w) /\ Len(f) <= Len(w) /\ Len(w) > 0
         /\ f # <<>> => w[1] = f[1]
         /\ f = <<>> => w[1].num = l.num /\ w[1].form = form /\ Len(w) = 1
         /\ Keeps(f, w, Len(f))
         /\ form = "whole" => Recorded(w, Len(w), l.job, l.type)
<1> DEFINE line == [l EXCEPT !.form = form]
<1>1. /\ line.type = l.type /\ line.job = l.job /\ line.num = l.num
      /\ line.form = form
  BY DEF LineSet
<1> HIDE DEF line
<1>2. Len(f) \in Nat /\ Len(w) \in Nat /\ (f = <<>> <=> Len(f) = 0)
  BY LenProperties, EmptySeq
<1>3. CASE /\ f = <<>> \/ f[Len(f)].form \in {"whole", "bad"}
           /\ Len(w) = Len(f) + 1 /\ w[Len(w)] = line
           /\ \A i \in 1 .. Len(f) : w[i] = f[i]
  <2>1. Shape(w)
    <3>1. ASSUME NEW i \in 1 .. Len(w), i < Len(w)
          PROVE  w[i].form \in {"whole", "bad"}
      <4>1. i \in 1 .. Len(f) /\ w[i] = f[i]
        BY <1>2, <1>3, <3>1
      <4> QED
        BY <1>2, <1>3, <4>1 DEF Shape
    <3>2. ASSUME NEW i \in 1 .. Len(w) PROVE i = 1 <=> w[i].type = "run-started"
      <4>1. CASE i \in 1 .. Len(f)
        BY <1>3, <4>1 DEF Shape
      <4>2. CASE i = Len(w)
        BY <1>1, <1>2, <1>3, <4>2
      <4> QED
        BY <1>2, <1>3, <4>1, <4>2
    <3>3. w[1].job = NoJob /\ w[1].form # "bad" /\ (Len(w) > 1 => w[1].form = "whole")
      <4>1. CASE f = <<>>
        BY <1>1, <1>2, <1>3, <4>1
      <4>2. CASE f # <<>>
        BY <1>2, <1>3, <4>2 DEF Shape
      <4> QED
        BY <4>1, <4>2
    <3> QED
      BY <3>1, <3>2, <3>3 DEF Shape
  <2>2. ASSUME NEW n \in 0 .. Len(f), NEW job, NEW type, Recorded(f, n, job, type)
        PROVE  Recorded(w, n, job, type)
    <3>1. \A i \in 1 .. n : w[i] = f[i]
      BY <1>2, <1>3
    <3> QED
      BY <2>2, <3>1 DEF Recorded
  <2>3. form = "whole" => Recorded(w, Len(w), l.job, l.type)
    BY <1>1, <1>2, <1>3 DEF Recorded
  <2>4. /\ f # <<>> => w[1] = f[1]
        /\ f = <<>> => w[1] = line /\ Len(w) = 1
    BY <1>2, <1>3
  <2>5. f = <<>> => w[1].num = l.num /\ w[1].form = form
    BY <1>1, <2>4
  <2> QED
    BY <1>2, <1>3, <2>1, <2>2, <2>3, <2>4, <2>5 DEF Keeps
<1>4. CASE /\ Len(f) > 0 /\ f[Len(f)].form \in {"open", "torn"}
           /\ Len(w) = Len(f)
           /\ w[Len(f)] = [f[Len(f)] EXCEPT !.form = IF form = "whole" THEN "bad" ELSE "torn"]
           /\ \A i \in 1 .. Len(f) : i < Len(f) => w[i] = f[i]
  <2>1. Len(f) > 1 /\ Len(f) \in 1 .. Len(f)
    BY <1>2, <1>4
  <2>2. f[Len(f)] \in LineSet
    BY <2>1, ElementOfSeq
  <2>3. /\ w[Len(f)].type = f[Len(f)].type
        /\ w[Len(f)].form = IF form = "whole" THEN "bad" ELSE "torn"
    BY <1>4, <2>2 DEF LineSet
  <2>4. w[1] = f[1]
    BY <1>2, <1>4, <2>1
  <2>5. Shape(w)
    <3>1. ASSUME NEW i \in 1 .. Len(w), i < Len(w)
          PROVE  w[i].form \in {"whole", "bad"}
      BY <1>2, <1>4, <3>1 DEF Shape
    <3>2. ASSUME NEW i \in 1 .. Len(w) PROVE i = 1 <=> w[i].type = "run-started"
      <4>1. w[i].type = f[i].type
        <5>1. CASE i = Len(f)
          BY <2>3, <5>1
        <5>2. CASE i # Len(f)
          <6>1. i \in 1 .. Len(f) /\ i < Len(f)
            BY <1>2, <1>4, <5>2
          <6> QED
            BY <1>4, <6>1
        <5> QED
          BY <5>1, <5>2
      <4> QED
        BY <1>4, <4>1 DEF Shape
    <3> QED
      BY <1>2, <1>4, <2>1, <2>4, <3>1, <3>2 DEF Shape
  <2>6. ASSUME NEW n \in 0 .. Len(f), NEW job, NEW type, Recorded(f, n, job, type)
        PROVE  Recorded(w, n, job, type)
    <3>1. PICK i \in 1 .. n : \/ f[i].type = type /\ f[i].job = job /\ f[i].form = "whole"
                              \/ f[i].form = "bad"
      BY <2>6 DEF Recorded
    <3>2. i # Len(f)
      BY <1>4, <3>1
    <3>3. w[i] = f[i]
      BY <1>2, <1>4, <3>2
    <3> QED
      BY <3>1, <3>3 DEF Recorded
  <2>7. form = "whole" => Recorded(w, Len(w), l.job, l.type)
    BY <1>4, <2>1, <2>3 DEF Recorded
  <2> QED
    BY <1>2, <1>4, <2>1, <2>4, <2>5, <2>6, <2>7 DEF Keeps
<1> QED
  BY <1>3, <1>4 DEF Grows, line

(* A file whose lines are all whole gains a line. *)
LEMMA GrowthClean ==
  ASSUME NEW f \in Seq(LineSet), NEW l \in LineSet, NEW form \in {"whole", "open", "torn"},
         NEW w \in Seq(LineSet), Grows(f, w, l, form), Clean(f),
         \A i \in 1 .. Len(f) : f[i].form = "whole" /\ f[i].type # "run-finished",
         l.type = "run-finished" => l.num = Len(f) + 1,
         l.type = "settled" =>
           \E k \in 1 .. Len(f) : f[k].type = "opened" /\ f[k].job = l.job
  PROVE  /\ Clean(w)
         /\ Len(w) = Len(f) + 1
         /\ form = "whole" => \A i \in 1 .. Len(w) : w[i].form = "whole"
         /\ l.type # "run-finished" =>
              \A i \in 1 .. Len(w) : w[i].type # "run-finished"
<1> DEFINE line == [l EXCEPT !.form = form]
<1>1. /\ line.type = l.type /\ line.job = l.job /\ line.num = l.num
      /\ line.form = form
  BY DEF LineSet
<1> HIDE DEF line
<1>2. Len(f) \in Nat /\ Len(w) \in Nat
  BY LenProperties
<1>3. /\ Len(w) = Len(f) + 1 /\ w[Len(w)] = line
      /\ \A i \in 1 .. Len(f) : w[i] = f[i]
  <2>1. ~(Len(f) > 0 /\ f[Len(f)].form \in {"open", "torn"})
    BY <1>2
  <2> QED
    BY <2>1 DEF Grows, line
<1>4. \A i \in 1 .. Len(w) : i \in 1 .. Len(f) \/ i = Len(w)
  BY <1>2, <1>3
<1>5. ASSUME NEW i \in 1 .. Len(w)
      PROVE  /\ w[i].form # "bad"
             /\ w[i].type = "run-finished" => i = Len(w) /\ w[i].num = i
             /\ w[i].type = "settled" =>
                  \E k \in 1 .. i - 1 : w[k].type = "opened" /\ w[k].job = w[i].job
  <2>1. CASE i \in 1 .. Len(f)
    <3>1. w[i] = f[i] /\ \A k \in 1 .. i - 1 : w[k] = f[k]
      BY <1>2, <1>3, <2>1
    <3> QED
      BY <2>1, <3>1 DEF Clean
  <2>2. CASE i = Len(w)
    BY <1>1, <1>2, <1>3, <2>2
  <2> QED
    BY <1>4, <2>1, <2>2
<1> QED
  BY <1>1, <1>3, <1>4, <1>5 DEF Clean

LEMMA CutKeeps ==
  ASSUME NEW f \in Seq(LineSet), Shape(f), NEW n \in 0 .. Len(f), NEW g, Cut(f, g, n)
  PROVE  /\ Shape(g)
         /\ Clean(f) => Clean(g)
         /\ \A job, type : Recorded(f, n, job, type) => Recorded(g, n, job, type)
         /\ g # <<>> => /\ f # <<>> /\ g[1].num = f[1].num
                        /\ Parses(g[1]) => Parses(f[1])
<1>1. /\ Len(f) \in Nat /\ Len(g) \in Nat /\ g \in Seq(LineSet)
      /\ f = <<>> <=> Len(f) = 0
      /\ g = <<>> <=> Len(g) = 0
      /\ 1 .. Len(g) \subseteq 1 .. Len(f) /\ Len(g) <= Len(f) /\ n <= Len(g)
  BY LenProperties, EmptySeq DEF Cut
<1>2. \A i \in 1 .. Len(g) :
        /\ g[i].type = f[i].type /\ g[i].job = f[i].job /\ g[i].num = f[i].num
        /\ i <= n \/ i < Len(g) => g[i] = f[i]
        /\ \/ g[i].form = f[i].form
           \/ g[i].form = "torn"
           \/ g[i].form = "open" /\ f[i].form = "whole"
  BY DEF Cut
<1>3. Shape(g)
  <2>1. \A i \in 1 .. Len(g) : i < Len(g) => g[i].form \in {"whole", "bad"}
    BY <1>1, <1>2 DEF Shape
  <2>2. \A i \in 1 .. Len(g) : i = 1 <=> g[i].type = "run-started"
    BY <1>1, <1>2 DEF Shape
  <2>3. Len(g) > 0 => 1 \in 1 .. Len(g) /\ Len(f) > 0
    BY <1>1
  <2>4. Len(g) > 0 => g[1].job = NoJob /\ g[1].form # "bad"
    BY <1>2, <2>3 DEF Shape
  <2>5. Len(g) > 1 => g[1].form = "whole"
    BY <1>1, <1>2, <2>3 DEF Shape
  <2> QED
    BY <2>1, <2>2, <2>4, <2>5 DEF Shape
<1>4. ASSUME Clean(f) PROVE Clean(g)
  <2>1. ASSUME NEW i \in 1 .. Len(g)
        PROVE  /\ g[i].form # "bad"
               /\ g[i].type = "run-finished" => i = Len(g) /\ g[i].num = i
               /\ g[i].type = "settled" =>
                    \E k \in 1 .. i - 1 : g[k].type = "opened" /\ g[k].job = g[i].job
    <3>1. i \in 1 .. Len(f)
      BY <1>1
    <3>2. g[i].form # "bad"
      BY <1>2, <1>4, <3>1 DEF Clean
    <3>3. g[i].type = "run-finished" => i = Len(g) /\ g[i].num = i
      BY <1>1, <1>2, <1>4, <3>1 DEF Clean
    <3>4. ASSUME g[i].type = "settled"
          PROVE  \E k \in 1 .. i - 1 : g[k].type = "opened" /\ g[k].job = g[i].job
      <4>1. PICK k \in 1 .. i - 1 : f[k].type = "opened" /\ f[k].job = f[i].job
        BY <1>2, <1>4, <3>1, <3>4 DEF Clean
      <4>2. k \in 1 .. Len(g)
        BY <1>1
      <4> QED
        BY <1>2, <4>1, <4>2
    <3> QED
      BY <3>2, <3>3, <3>4
  <2> QED
    BY <2>1 DEF Clean
<1>5. ASSUME NEW job, NEW type, Recorded(f, n, job, type)
      PROVE  Recorded(g, n, job, type)
  <2>1. \A i \in 1 .. n : g[i] = f[i]
    BY <1>1, <1>2
  <2> QED
    BY <1>5, <2>1 DEF Recorded
<1>6. ASSUME g # <<>>
      PROVE  f # <<>> /\ g[1].num = f[1].num /\ (Parses(g[1]) => Parses(f[1]))
  <2>1. 1 \in 1 .. Len(g)
    BY <1>1, <1>6
  <2> QED
    BY <1>1, <1>2, <2>1 DEF Parses
<1> QED
  BY <1>3, <1>4, <1>5, <1>6
-----------------------------------------------------------------------------
(* Claiming an ordinal.                                                    *)

LEMMA SmallestNat ==
  ASSUME NEW S \in SUBSET Nat, S # {}
  PROVE  \E n \in S : \A m \in S : n <= m
<1>1. PICK n \in S : \A m \in S : ~(<<m, n>> \in OpToRel(<, Nat))
  BY NatLessThanWellFounded, WFMin
<1>2. \A m \in S : ~(m < n)
  BY <1>1 DEF OpToRel
<1> QED
  BY <1>2

(* The claim skips what is claimed already, and there is room behind it.   *)
LEMMA NextSeqBeyond ==
  ASSUME claimed \subseteq Nat, IsFiniteSet(claimed), MaxSeq \in Nat
  PROVE  NextSeq \in Nat /\ NextSeq > MaxSeq
<1> DEFINE c == Cardinality(claimed)
           S == MaxSeq + 1 .. MaxSeq + 1 + c
<1>1. c \in Nat
  BY FS_CardinalityType
<1>2. IsFiniteSet(S) /\ Cardinality(S) = c + 1
  <2>1. /\ MaxSeq + 1 \in Int /\ MaxSeq + 1 + c \in Int
        /\ ~(MaxSeq + 1 > MaxSeq + 1 + c)
        /\ (MaxSeq + 1 + c) - (MaxSeq + 1) + 1 = c + 1
    BY <1>1
  <2> HIDE DEF c
  <2> QED
    BY <2>1, FS_Interval
<1>3. S \ claimed # {}
  <2>1. SUFFICES ASSUME S \subseteq claimed PROVE FALSE
    OBVIOUS
  <2>2. Cardinality(S) <= c
    BY <2>1, FS_Subset
  <2> QED
    BY <1>1, <1>2, <2>2
<1>4. PICK n \in S \ claimed : \A m \in S \ claimed : n <= m
  <2>1. S \ claimed \in SUBSET Nat
    BY <1>1
  <2> HIDE DEF S
  <2> QED
    BY <1>3, <2>1, SmallestNat
<1>5. \A k \in MaxSeq + 1 .. n - 1 : k \in claimed
  BY <1>1, <1>4
<1>6. \E m \in S : m \notin claimed /\ \A k \in MaxSeq + 1 .. m - 1 : k \in claimed
  BY <1>4, <1>5
<1>7. NextSeq \in S
  BY <1>6 DEF NextSeq
<1> QED
  BY <1>1, <1>7

(* A run folds when its first line parses, and that line has its ordinal.  *)
LEMMA FoldedOpens ==
  ASSUME LogType, Filed, NEW r \in Runs
  PROVE  /\ r \in Folded <=> Opens(r)
         /\ Opens(r) => Ordinal(r) = file[r][1].num /\ Ordinal(r) \in Nat
<1> DEFINE f == file[r]
<1>1. f \in Seq(LineSet) /\ Shape(f) /\ Len(f) \in Nat /\ (f = <<>> <=> Len(f) = 0)
  BY LenProperties, EmptySeq DEF LogType, Filed
<1>2. Has(f, "run-started", NoJob) <=> Opens(r)
  <2>1. ASSUME Has(f, "run-started", NoJob) PROVE Opens(r)
    <3>1. PICK i \in 1 .. Len(f) : Parses(f[i]) /\ f[i].type = "run-started"
      BY <2>1 DEF Has, Events
    <3>2. i = 1
      BY <1>1, <3>1 DEF Shape
    <3> QED
      BY <1>1, <3>1, <3>2 DEF Opens
  <2>2. ASSUME Opens(r) PROVE Has(f, "run-started", NoJob)
    <3>1. Len(f) > 0 /\ 1 \in 1 .. Len(f) /\ Parses(f[1])
      BY <1>1, <2>2 DEF Opens
    <3>2. f[1].type = "run-started" /\ f[1].job = NoJob
      BY <1>1, <3>1 DEF Shape
    <3> QED
      BY <3>1, <3>2 DEF Has, Events
  <2> QED
    BY <2>1, <2>2
<1>3. ASSUME Opens(r) PROVE Ordinal(r) = f[1].num /\ f[1].num \in Nat
  <2>1. 1 \in Events(f) /\ \A k \in Events(f) : 1 <= k /\ k \in Nat
    BY <1>1, <1>3 DEF Events, Opens
  <2>2. (CHOOSE i \in Events(f) : \A k \in Events(f) : i <= k) = 1
    BY <2>1
  <2>3. f[1] \in LineSet
    BY <1>1, <2>1, ElementOfSeq DEF Events
  <2> QED
    BY <2>2, <2>3 DEF Ordinal, LineSet
<1> QED
  BY <1>2, <1>3 DEF Folded

(* Among the runs that fold, the latest has the largest ordinal.           *)
LEMMA MaxSeqBounds ==
  ASSUME LogType, Filed, Ordered
  PROVE  MaxSeq \in Nat /\ \A r \in Runs : Opens(r) => file[r][1].num <= MaxSeq
<1>1. CASE Folded = {}
  BY <1>1, FoldedOpens DEF MaxSeq
<1>2. CASE Folded # {}
  <2> DEFINE B == {n \in Nat : MaxRuns - n \in Folded}
  <2>1. B # {}
    <3>1. PICK r \in Folded : TRUE
      BY <1>2
    <3>2. r \in 1 .. MaxRuns /\ MaxRuns \in Nat
      BY RunLogAssumption DEF Folded, Runs
    <3>3. MaxRuns - r \in Nat /\ MaxRuns - (MaxRuns - r) = r
      BY <3>2
    <3> QED
      BY <3>1, <3>3
  <2>2. PICK n \in B : \A m \in B : n <= m
    BY <2>1, SmallestNat
  <2> DEFINE last == MaxRuns - n
  <2>3. last \in Folded /\ last \in Runs
    BY <2>2 DEF Folded
  <2>4. \A r \in Folded : r <= last
    <3> TAKE r \in Folded
    <3>1. r \in 1 .. MaxRuns /\ MaxRuns \in Nat /\ n \in Nat
      BY <2>2, RunLogAssumption DEF Folded, Runs
    <3>2. MaxRuns - r \in B
      <4>1. MaxRuns - r \in Nat /\ MaxRuns - (MaxRuns - r) = r
        BY <3>1
      <4> QED
        BY <4>1
    <3>3. n <= MaxRuns - r
      BY <2>2, <3>2
    <3> QED
      BY <3>1, <3>3
  <2>5. Ordinal(last) \in Nat /\ \A r \in Folded : Ordinal(r) <= Ordinal(last)
    <3>1. Opens(last) /\ file[last] # <<>> /\ Ordinal(last) = file[last][1].num
          /\ Ordinal(last) \in Nat
      BY <2>3, FoldedOpens DEF Opens
    <3>2. ASSUME NEW r \in Folded PROVE Ordinal(r) <= Ordinal(last)
      <4>1. r \in Runs /\ Opens(r) /\ Ordinal(r) = file[r][1].num /\ Ordinal(r) \in Nat
        BY FoldedOpens DEF Folded
      <4>2. r = last \/ r < last
        BY <2>3, <2>4, <4>1, RunLogAssumption DEF Runs
      <4>3. r < last => file[r][1].num < file[last][1].num
        BY <2>3, <3>1, <4>1 DEF Ordered
      <4> QED
        BY <3>1, <4>1, <4>2, <4>3
    <3> QED
      BY <3>1, <3>2
  <2> HIDE DEF last
  <2>6. \E v \in {Ordinal(r) : r \in Folded} : \A r \in Folded : Ordinal(r) <= v
    BY <2>3, <2>5
  <2>7. MaxSeq \in {Ordinal(r) : r \in Folded} /\ \A r \in Folded : Ordinal(r) <= MaxSeq
    BY <1>2, <2>6 DEF MaxSeq
  <2>8. \A r \in Folded : Ordinal(r) \in Nat
    BY FoldedOpens DEF Folded
  <2>9. \A r \in Runs : Opens(r) => file[r][1].num <= MaxSeq
    BY <2>7, FoldedOpens
  <2> QED
    BY <2>7, <2>8, <2>9
<1> QED
  BY <1>1, <1>2
-----------------------------------------------------------------------------
(* The memory of the runs: what each action makes of the lease, the places *)
(* of the jobs and their tasks.                                            *)
Memory == RunType /\ Leased /\ Placed /\ TaskFenced /\ EnteredOpened

LEMMA StartRunMemory ==
  ASSUME Memory, StartRun PROVE Memory'
<1> USE DEF Memory
<1>1. RunType'
  <2>1. run' \in 0 .. MaxRuns /\ holder' \in 0 .. MaxRuns
    BY RunLogAssumption DEF RunType, StartRun
  <2>2. at' \in [Jobs -> Places]
    BY DEF StartRun, Places
  <2>3. ledger' \in [Jobs -> Nat] /\ charged' \in [Jobs -> Nat]
    BY DEF StartRun
  <2> QED
    BY <2>1, <2>2, <2>3 DEF RunType, StartRun, PhaseSet
<1>2. \A r \in Runs, j \in Jobs : task[r][j] = "none"
  <2>1. SUFFICES ASSUME NEW r \in Runs, NEW j \in Jobs, task[r][j] # "none"
                 PROVE  FALSE
    OBVIOUS
  <2>2. r = holder /\ r \notin dead
    BY <2>1 DEF TaskFenced
  <2> QED
    BY <2>2 DEF StartRun, Runs
<1>3. Leased'
  BY RunLogAssumption DEF RunType, StartRun, Leased, Runs
<1>4. Placed'
  BY DEF StartRun, Placed
<1>5. TaskFenced' /\ EnteredOpened'
  BY <1>2 DEF StartRun, TaskFenced, EnteredOpened
<1> QED
  BY <1>1, <1>3, <1>4, <1>5

LEMMA ClaimSeqMemory ==
  ASSUME Memory, NextSeq \in Nat, ClaimSeq PROVE Memory'
BY DEF Memory, RunType, Leased, Placed, TaskFenced, EnteredOpened, ClaimSeq,
       PhaseSet, Runs

(* A run that ends while nothing of it is detached leaves no task.         *)
LEMMA ReleaseFenced ==
  ASSUME Memory, Release, phase # "ended", \A j \in Jobs : at[j] # "inside",
         UNCHANGED <<dead, at, detached, task, entered>>
  PROVE  TaskFenced' /\ holder' \in {0, run}
<1>1. holder = run /\ run # 0
  BY DEF Memory, Leased, Runs
<1>2. ASSUME ~detached PROVE \A r \in Runs, j \in Jobs : task[r][j] = "none"
  BY <1>2 DEF Memory, TaskFenced
<1> QED
  BY <1>1, <1>2 DEF Memory, TaskFenced, Release, RunType

LEMMA WriteRunLineMemory ==
  ASSUME Memory, WriteRunLine PROVE Memory'
<1> USE DEF Memory
<1>1. \A j \in Jobs : at[j] \in {"waiting", "done"}
  BY DEF WriteRunLine, Placed
<1>2. TaskFenced' /\ holder' \in {0, run}
  <2>1. CASE holder' = holder
    BY <2>1 DEF WriteRunLine, TaskFenced, Leased
  <2>2. CASE Release
    BY <1>1, <2>2, ReleaseFenced DEF WriteRunLine
  <2> QED
    BY <2>1, <2>2 DEF WriteRunLine
<1>3. RunType'
  <2>1. holder' \in 0 .. MaxRuns
    BY <1>2, RunLogAssumption DEF RunType
  <2>2. failures' \in Nat /\ phase' \in PhaseSet /\ runFailed' \in BOOLEAN
    <3>1. /\ failures' = failures \/ failures' = failures + 1
          /\ phase' \in {"running", "ended"}
          /\ runFailed' = runFailed \/ runFailed' = TRUE
      BY DEF WriteRunLine
    <3>2. failures' \in Nat /\ phase' \in PhaseSet
      BY <3>1 DEF RunType, PhaseSet
    <3>3. runFailed' \in BOOLEAN
      BY <3>1 DEF RunType
    <3> QED
      BY <3>2, <3>3
  <2> QED
    BY <2>1, <2>2 DEF WriteRunLine, RunType
<1>4. Leased'
  <2>1. run \in Runs /\ holder = run /\ run \notin dead
    BY DEF WriteRunLine, Leased
  <2>2. UNCHANGED <<run, dead>> /\ (phase' # "ended" => holder' = holder)
    BY DEF WriteRunLine
  <2> QED
    BY <1>2, <2>1, <2>2 DEF Leased, Runs
<1>5. Placed'
  BY <1>1 DEF WriteRunLine, Placed
<1>6. EnteredOpened'
  BY DEF WriteRunLine, EnteredOpened
<1> QED
  BY <1>2, <1>3, <1>4, <1>5, <1>6

LEMMA EndWaveMemory ==
  ASSUME Memory, EndWave PROVE Memory'
<1> USE DEF Memory
<1>1. \A j \in Jobs : at[j] \in {"waiting", "done"}
  BY DEF EndWave, Drained
<1>2. TaskFenced' /\ holder' \in {0, run}
  <2>1. CASE holder' = holder
    BY <2>1 DEF EndWave, TaskFenced, Leased
  <2>2. CASE Release
    BY <1>1, <2>2, ReleaseFenced DEF EndWave
  <2> QED
    BY <2>1, <2>2 DEF EndWave
<1>3. RunType'
  <2>1. holder' \in 0 .. MaxRuns
    BY <1>2, RunLogAssumption DEF RunType
  <2>2. count' \in Nat /\ phase' \in PhaseSet
    BY DEF EndWave, RunType, PhaseSet
  <2> QED
    BY <2>1, <2>2 DEF EndWave, RunType
<1>4. Leased'
  BY <1>2 DEF EndWave, RunType, Leased, Runs
<1>5. Placed'
  BY <1>1 DEF EndWave, Placed, Drained
<1>6. EnteredOpened'
  BY DEF EndWave, EnteredOpened
<1> QED
  BY <1>2, <1>3, <1>4, <1>5, <1>6

LEMMA DispatchMemory ==
  ASSUME Memory, NEW j \in Jobs, Dispatch(j) PROVE Memory'
<1> USE DEF Memory, Dispatch, Emits, Move
<1>1. RunType'
  BY DEF RunType, Places
<1>2. Leased'
  BY DEF Leased
<1>3. Placed'
  BY DEF RunType, Placed
<1>4. TaskFenced' /\ EnteredOpened'
  BY DEF RunType, TaskFenced, EnteredOpened
<1> QED
  BY <1>1, <1>2, <1>3, <1>4

LEMMA WriteLineMemory ==
  ASSUME Memory, NEW j \in Jobs, WriteLine(j) PROVE Memory'
<1> USE DEF Memory
<1>1. /\ phase = "running" /\ phase' = "running" /\ run \in Runs /\ holder = run
      /\ run \notin dead /\ at[j] \in Pending
      /\ UNCHANGED <<run, holder, dead, seq, detached, ledger, charged, entered>>
  BY DEF WriteLine, Leased
<1>2. facts \subseteq facts' /\ facts' \subseteq FactSet
  <2>1. Durably(j) => TypeAt[at[j]] \in {"opened", "settled"}
    BY DEF Durably, TypeAt
  <2>2. Durably(j) => <<run, j, TypeAt[at[j]]>> \in FactSet
    BY <1>1, <2>1 DEF FactSet
  <2> QED
    BY <2>2 DEF WriteLine, RunType
<1>3. /\ at' \in [Jobs -> Places]
      /\ \A k \in Jobs \ {j} : at'[k] = at[k]
      /\ at[j] # "inside"
      /\ at'[j] = "settling" => FALSE
      /\ at'[j] = "inside" => <<run, j, "opened">> \in facts'
      /\ \/ task' = task /\ at'[j] # "inside"
         \/ task' = [task EXCEPT ![run][j] = "preparing"] /\ at'[j] = "inside"
  BY <1>1 DEF WriteLine, Proceed, Emits, Move, RunType, Places, Pending, Durably, TypeAt
<1>4. RunType'
  <2>1. count' \in Nat
    <3>1. count' = count \/ count' = count + 1
      BY DEF WriteLine, Proceed, Emits, Move
    <3> QED
      BY <3>1 DEF RunType
  <2>0. failures' \in Nat /\ runFailed' \in BOOLEAN
    <3>1. /\ failures' = failures \/ failures' = failures + 1
          /\ runFailed' = runFailed \/ runFailed' = TRUE
      BY DEF WriteLine
    <3>2. failures' \in Nat
      BY <3>1 DEF RunType
    <3>3. runFailed' \in BOOLEAN
      BY <3>1 DEF RunType
    <3> QED
      BY <3>2, <3>3
  <2>2. task' \in [Runs -> [Jobs -> {"none", "preparing", "body"}]]
    BY <1>1, <1>3 DEF RunType
  <2> QED
    BY <1>1, <1>2, <1>3, <2>0, <2>1, <2>2 DEF RunType
<1>5. Leased'
  BY <1>1 DEF Leased
<1>6. Placed'
  BY <1>1, <1>2, <1>3 DEF Placed
<1>7. TaskFenced'
  <2>1. SUFFICES ASSUME NEW r \in Runs, NEW k \in Jobs, task'[r][k] # "none"
                 PROVE  /\ r = holder /\ r \notin dead
                        /\ at'[k] # "inside" => detached
                        /\ task'[r][k] = "body" => <<r, k>> \in entered
    BY <1>1 DEF TaskFenced
  <2>2. CASE r = run /\ k = j /\ at'[j] = "inside"
    BY <1>1, <1>3, <2>2 DEF RunType
  <2>3. CASE ~(r = run /\ k = j /\ at'[j] = "inside")
    <3>1. task'[r][k] = task[r][k]
      BY <1>1, <1>3, <2>3 DEF RunType
    <3>2. at'[k] # "inside" => at[k] # "inside"
      BY <1>3
    <3> QED
      BY <2>1, <3>1, <3>2 DEF TaskFenced
  <2> QED
    BY <2>2, <2>3
<1>8. EnteredOpened'
  BY <1>1, <1>2 DEF EnteredOpened
<1> QED
  BY <1>4, <1>5, <1>6, <1>7, <1>8
(* The ladder is over for j: the settle charges an amount, and whatever    *)
(* task is left of the dispatch has been detached.                         *)
LEMMA SettlesMemory ==
  ASSUME Memory, NEW j \in Jobs, at[j] = "inside", NEW charge \in Nat, Settles(j, charge),
         UNCHANGED <<run, phase, holder, dead, seq, runFailed, failures, facts, entered>>,
         detached' \in BOOLEAN, detached => detached',
         task' \in [Runs -> [Jobs -> {"none", "preparing", "body"}]],
         \A r \in Runs, k \in Jobs : task'[r][k] \in {"none", task[r][k]},
         detached' \/ \A r \in Runs : task'[r][j] = "none"
  PROVE  Memory'
<1> USE DEF Memory
<1>1. /\ phase = "running" /\ <<run, j, "opened">> \in facts
      /\ at' = [at EXCEPT ![j] = "settling"] /\ count' = count + 1
      /\ ledger' = [ledger EXCEPT ![j] = charge]
      /\ charged' = [charged EXCEPT ![j] = charge]
  BY DEF Settles, Emits, Move, Placed
<1>2. RunType'
  BY <1>1 DEF RunType, Places
<1>3. Leased'
  BY DEF Leased
<1>4. Placed'
  BY <1>1 DEF Placed, RunType
<1>5. TaskFenced'
  <2>1. SUFFICES ASSUME NEW r \in Runs, NEW k \in Jobs, task'[r][k] # "none"
                 PROVE  /\ r = holder /\ r \notin dead
                        /\ at'[k] # "inside" => detached'
                        /\ task'[r][k] = "body" => <<r, k>> \in entered
    BY DEF TaskFenced
  <2>2. task'[r][k] = task[r][k] /\ (k = j => detached')
    BY <2>1
  <2>3. k # j => at'[k] = at[k]
    BY <1>1 DEF RunType
  <2> QED
    BY <2>1, <2>2, <2>3 DEF TaskFenced
<1>6. EnteredOpened'
  BY DEF EnteredOpened
<1> QED
  BY <1>2, <1>3, <1>4, <1>5, <1>6

LEMMA FullChargeType ==
  ASSUME RunType, NEW j \in Jobs PROVE FullCharge(j) \in Nat
BY KilledRunAssumption DEF RunType, FullCharge

LEMMA LastRungMemory ==
  ASSUME Memory, NEW j \in Jobs, LastRung(j) PROVE Memory'
<1>1. FullCharge(j) \in Nat
  BY FullChargeType DEF Memory
<1>2. Settles(j, FullCharge(j)) /\ detached' = TRUE /\ at[j] = "inside" /\ task' = task
      /\ UNCHANGED <<run, phase, holder, dead, seq, runFailed, failures, facts, entered>>
  BY DEF LastRung, Kill
<1>3. /\ task' \in [Runs -> [Jobs -> {"none", "preparing", "body"}]]
      /\ \A r \in Runs, k \in Jobs : task'[r][k] \in {"none", task[r][k]}
  BY <1>2 DEF Memory, RunType
<1> QED
  BY <1>1, <1>2, <1>3, SettlesMemory

(* A task that the ladder still waits for is the only one of its job.      *)
LEMMA InsideTask ==
  ASSUME Memory, NEW r \in Runs, NEW j \in Jobs, task[r][j] # "none", ~Closed(r, j)
  PROVE  /\ r = run /\ at[j] = "inside" /\ phase = "running"
         /\ <<run, j, "opened">> \in facts /\ run \notin dead /\ holder = run
BY DEF Memory, Closed, Placed, TaskFenced

LEMMA QuitTasks ==
  ASSUME RunType, NEW r \in Runs, NEW j \in Jobs, Quit(r, j)
  PROVE  /\ task' \in [Runs -> [Jobs -> {"none", "preparing", "body"}]]
         /\ task'[r][j] = "none"
         /\ \A s \in Runs, k \in Jobs : task'[s][k] \in {"none", task[s][k]}
         /\ \A s \in Runs, k \in Jobs : s # r => task'[s][k] = task[s][k]
BY DEF RunType, Quit

LEMMA EnterMemory ==
  ASSUME Memory, NEW r \in Runs, NEW j \in Jobs, Enter(r, j) PROVE Memory'
<1> USE DEF Memory
<1>1. /\ r = run /\ at[j] = "inside" /\ <<run, j, "opened">> \in facts
      /\ run \notin dead /\ holder = run
  BY InsideTask DEF Enter
<1>2. /\ task' = [task EXCEPT ![r][j] = "body"] /\ entered' = entered \union {<<r, j>>}
      /\ UNCHANGED <<run, phase, holder, dead, seq, count, runFailed, detached, at,
                     ledger, charged, failures, facts>>
  BY <1>1 DEF Enter
<1>3. RunType'
  BY <1>2 DEF RunType
<1>4. Leased' /\ Placed'
  BY <1>2 DEF Leased, Placed
<1>5. TaskFenced'
  <2>1. SUFFICES ASSUME NEW s \in Runs, NEW k \in Jobs, task'[s][k] # "none"
                 PROVE  /\ s = holder /\ s \notin dead
                        /\ at[k] # "inside" => detached
                        /\ task'[s][k] = "body" => <<s, k>> \in entered'
    BY <1>2 DEF TaskFenced
  <2>2. CASE s = r /\ k = j
    BY <1>1, <1>2, <2>2
  <2>3. CASE ~(s = r /\ k = j)
    <3>1. task'[s][k] = task[s][k]
      BY <1>2, <2>3 DEF RunType
    <3> QED
      BY <1>2, <2>1, <3>1 DEF TaskFenced
  <2> QED
    BY <2>2, <2>3
<1>6. EnteredOpened'
  <2>1. SUFFICES ASSUME NEW e \in entered' PROVE <<e[1], e[2], "opened">> \in facts'
    BY DEF EnteredOpened
  <2>2. CASE e \in entered
    BY <1>2, <2>2 DEF EnteredOpened
  <2>3. CASE e = <<r, j>>
    BY <1>1, <1>2, <2>3
  <2> QED
    BY <1>2, <2>2, <2>3
<1> QED
  BY <1>3, <1>4, <1>5, <1>6

(* A task ends and nobody settles: it was detached, or its run has failed. *)
LEMMA QuitMemory ==
  ASSUME Memory, NEW r \in Runs, NEW j \in Jobs, Quit(r, j), task[r][j] # "none",
         at' = at \/ (~Closed(r, j) /\ Move(j, "done")),
         UNCHANGED <<run, phase, holder, dead, seq, count, runFailed, detached, ledger,
                     charged, failures, facts, entered>>
  PROVE  Memory'
<1> USE DEF Memory
<1>1. /\ task' \in [Runs -> [Jobs -> {"none", "preparing", "body"}]]
      /\ task'[r][j] = "none"
      /\ \A s \in Runs, k \in Jobs : task'[s][k] \in {"none", task[s][k]}
  BY QuitTasks
<1>2. at' \in [Jobs -> Places]
  BY DEF RunType, Move, Places
<1>3. \A k \in Jobs : k # j => at'[k] = at[k]
  BY DEF RunType, Move
<1>4. at'[j] = at[j] \/ (at'[j] = "done" /\ r = run)
  BY DEF RunType, Move, Closed
<1>5. RunType' /\ Leased' /\ EnteredOpened'
  BY <1>1, <1>2 DEF RunType, Leased, EnteredOpened
<1>6. Placed'
  BY <1>3, <1>4 DEF Placed
<1>7. TaskFenced'
  <2>1. SUFFICES ASSUME NEW s \in Runs, NEW k \in Jobs, task'[s][k] # "none"
                 PROVE  /\ s = holder /\ s \notin dead
                        /\ at'[k] # "inside" => detached
                        /\ task'[s][k] = "body" => <<s, k>> \in entered
    BY DEF TaskFenced
  <2>2. task'[s][k] = task[s][k] /\ s = holder
    BY <1>1, <2>1 DEF TaskFenced
  <2>3. r = holder
    BY DEF TaskFenced
  <2>4. k # j
    BY <1>1, <2>1, <2>2, <2>3
  <2> QED
    BY <1>3, <2>1, <2>2, <2>4 DEF TaskFenced
<1> QED
  BY <1>5, <1>6, <1>7

LEMMA PreparationEndsMemory ==
  ASSUME Memory, NEW r \in Runs, NEW j \in Jobs, PreparationEnds(r, j) PROVE Memory'
<1>1. task[r][j] # "none" /\ Quit(r, j)
      /\ UNCHANGED <<run, phase, holder, dead, seq, runFailed, detached, failures, facts, entered>>
  BY DEF PreparationEnds
<1>2. CASE ~Closed(r, j) /\ Settles(j, ledger[j])
  <2>1. r = run /\ at[j] = "inside" /\ ledger[j] \in Nat /\ detached \in BOOLEAN
    BY <1>1, <1>2, InsideTask DEF Memory, RunType
  <2>2. /\ task' \in [Runs -> [Jobs -> {"none", "preparing", "body"}]]
        /\ \A s \in Runs, k \in Jobs : task'[s][k] \in {"none", task[s][k]}
        /\ \A s \in Runs : task'[s][j] = "none"
    <3>1. \A s \in Runs : s # r => task[s][j] = "none"
      BY <1>1 DEF Memory, TaskFenced
    <3> QED
      BY <1>1, <3>1, QuitTasks DEF Memory
  <2> QED
    BY <1>1, <1>2, <2>1, <2>2, SettlesMemory
<1>3. CASE ~Closed(r, j) /\ Move(j, "done") /\ UNCHANGED <<count, ledger, charged>>
  BY <1>1, <1>3, QuitMemory
<1>4. CASE UNCHANGED <<at, count, ledger, charged>>
  BY <1>1, <1>4, QuitMemory
<1> QED
  BY <1>2, <1>3, <1>4 DEF PreparationEnds

LEMMA BodyEndsMemory ==
  ASSUME Memory, NEW r \in Runs, NEW j \in Jobs, BodyEnds(r, j) PROVE Memory'
<1>1. task[r][j] # "none" /\ Quit(r, j)
      /\ UNCHANGED <<run, phase, holder, dead, seq, runFailed, detached, failures, facts, entered>>
  BY DEF BodyEnds
<1>2. ASSUME ~Closed(r, j), NEW charge \in Nat, Settles(j, charge) PROVE Memory'
  <2>1. r = run /\ at[j] = "inside" /\ detached \in BOOLEAN
    BY <1>1, <1>2, InsideTask DEF Memory, RunType
  <2>2. /\ task' \in [Runs -> [Jobs -> {"none", "preparing", "body"}]]
        /\ \A s \in Runs, k \in Jobs : task'[s][k] \in {"none", task[s][k]}
        /\ \A s \in Runs : task'[s][j] = "none"
    <3>1. \A s \in Runs : s # r => task[s][j] = "none"
      BY <1>1 DEF Memory, TaskFenced
    <3> QED
      BY <1>1, <3>1, QuitTasks DEF Memory
  <2> QED
    BY <1>1, <1>2, <2>1, <2>2, SettlesMemory
<1>3. CASE UNCHANGED <<at, count, ledger, charged>>
  BY <1>1, <1>3, QuitMemory
<1>4. ledger[j] \in Nat /\ FullCharge(j) \in Nat
  BY FullChargeType DEF Memory, RunType
<1> QED
  BY <1>2, <1>3, <1>4 DEF BodyEnds

LEMMA ReportMemory ==
  ASSUME Memory, NEW r \in Runs, NEW j \in Jobs, Report(r, j) PROVE Memory'
<1> USE DEF Memory
<1>1. UNCHANGED <<run, phase, holder, dead, seq, count, runFailed, detached, at, charged,
                  task, failures, facts, entered>>
  BY DEF Report
<1>2. \/ ledger' = ledger
      \/ ledger' = [ledger EXCEPT ![j] = @ + Cost] /\ at[j] = "inside"
  BY DEF Report, Closed
<1>3. ledger' \in [Jobs -> Nat]
  BY <1>2, KilledRunAssumption DEF RunType
<1>4. RunType' /\ Leased' /\ TaskFenced' /\ EnteredOpened'
  BY <1>1, <1>3 DEF RunType, Leased, TaskFenced, EnteredOpened
<1>5. Placed'
  BY <1>1, <1>2 DEF RunType, Placed
<1> QED
  BY <1>4, <1>5

LEMMA DiesMemory ==
  ASSUME Memory, Dies PROVE Memory'
<1> USE DEF Memory, Dies
<1>1. run \in Runs /\ holder \in 0 .. MaxRuns
  BY RunLogAssumption DEF RunType, Runs
<1>2. RunType'
  <2>1. /\ dead' \subseteq Runs /\ phase' \in PhaseSet /\ seq' \in Nat /\ count' \in Nat
        /\ at' \in [Jobs -> Places]
        /\ ledger' \in [Jobs -> Nat] /\ charged' \in [Jobs -> Nat]
    BY <1>1 DEF RunType, Places, PhaseSet
  <2>2. task' \in [Runs -> [Jobs -> {"none", "preparing", "body"}]]
    BY <1>1 DEF RunType
  <2>3. runFailed' \in BOOLEAN /\ detached' \in BOOLEAN
    OBVIOUS
  <2> QED
    BY <2>1, <2>2, <2>3 DEF RunType
<1>3. Leased'
  BY <1>1 DEF Leased, RunType
<1>4. Placed'
  BY DEF Placed
<1>5. TaskFenced'
  <2>1. SUFFICES ASSUME NEW r \in Runs, NEW k \in Jobs, task'[r][k] # "none"
                 PROVE  FALSE
    BY DEF TaskFenced
  <2>2. r # run /\ task[r][k] # "none"
    BY <1>1, <2>1 DEF RunType
  <2>3. r = holder /\ r \notin dead
    BY <2>2 DEF TaskFenced
  <2>4. r # 0
    BY RunLogAssumption DEF Runs
  <2> QED
    BY <2>2, <2>3, <2>4 DEF Leased
<1>6. EnteredOpened'
  BY DEF EnteredOpened
<1> QED
  BY <1>2, <1>3, <1>4, <1>5, <1>6

LEMMA NextMemory ==
  ASSUME Memory, NextSeq \in Nat, Next PROVE Memory'
<1>1. CASE \E j \in Jobs : \E r \in Runs : TaskStep(r, j)
  BY <1>1, EnterMemory, PreparationEndsMemory, BodyEndsMemory, ReportMemory DEF TaskStep
<1>2. CASE \E j \in Jobs : JobStep(j)
  BY <1>2, DispatchMemory, WriteLineMemory, LastRungMemory DEF JobStep
<1>3. CASE StartRun \/ RunStep
  BY <1>3, StartRunMemory, ClaimSeqMemory, WriteRunLineMemory, EndWaveMemory DEF RunStep
<1>4. CASE Crash \/ MachineCrash
  BY <1>4, DiesMemory DEF Crash, MachineCrash
<1>5. CASE DeleteTombstone
  BY <1>5 DEF DeleteTombstone, runVars, Memory, RunType, Leased, Placed, TaskFenced, EnteredOpened
<1> QED
  BY <1>1, <1>2, <1>3, <1>4, <1>5 DEF Next
-----------------------------------------------------------------------------
(* The files of the runs, and the live run's count of its lines.           *)
Files == LogType /\ Filed /\ FactsKept /\ Ordered

LEMMA PendingCount ==
  ASSUME at \in [Jobs -> Places], NEW j \in Jobs, NEW q \in Places,
         at' = [at EXCEPT ![j] = q]
  PROVE  /\ Cardinality(InPending) \in Nat
         /\ Cardinality(InPending') = Cardinality(InPending)
              + (IF q \in Pending THEN 1 ELSE 0) - (IF at[j] \in Pending THEN 1 ELSE 0)
<1> DEFINE S == InPending
           rest == InPending \ {j}
<1>1. IsFiniteSet(S) /\ Cardinality(S) \in Nat
  BY RunLogAssumption, FS_Subset, FS_CardinalityType DEF InPending
<1>2. at[j] \in Pending <=> j \in S
  BY DEF InPending
<1>3. IsFiniteSet(rest)
      /\ Cardinality(rest) = IF at[j] \in Pending THEN Cardinality(S) - 1 ELSE Cardinality(S)
  BY <1>1, <1>2, FS_RemoveElement
<1>4. InPending' = IF q \in Pending THEN rest \union {j} ELSE rest
  BY DEF InPending
<1>5. Cardinality(rest \union {j}) = Cardinality(rest) + 1
  BY <1>3, FS_AddElement
<1> HIDE DEF rest, S
<1>6. Cardinality(S) \in Nat /\ Cardinality(rest) \in Int
  BY <1>1, <1>3
<1> QED
  BY <1>3, <1>4, <1>5, <1>6 DEF S

LEMMA NonePending ==
  ASSUME \A j \in Jobs : at[j] \in {"waiting", "done"}
  PROVE  InPending = {} /\ Cardinality(InPending) = 0
BY FS_EmptySet DEF InPending, Pending

(* The line that is to be appended continues the live run's file as it     *)
(* should.                                                                 *)
Due(l) ==
  /\ l \in LineSet
  /\ file[run] = <<>> => /\ l.type = "run-started" /\ l.job = NoJob
                         /\ l.num = seq /\ phase = "starting"
  /\ file[run] # <<>> => l.type # "run-started" /\ file[run][1].form = "whole"
  /\ failures = 0 =>
       /\ l.type = "run-finished" => l.num = Len(file[run]) + 1
       /\ l.type = "settled" =>
            \E k \in 1 .. Len(file[run]) :
              file[run][k].type = "opened" /\ file[run][k].job = l.job

LEMMA LineType ==
  ASSUME NEW type \in Types, NEW job \in Jobs \union {NoJob}, NEW num \in Nat
  PROVE  /\ Line(type, job, num) \in LineSet
         /\ Line(type, job, num).type = type /\ Line(type, job, num).job = job
         /\ Line(type, job, num).num = num
BY DEF Line, LineSet, Forms

LEMMA LiveFile ==
  ASSUME LogType, RunType, Leased, phase # "ended"
  PROVE  /\ run \in Runs /\ file[run] \in Seq(LineSet) /\ Len(file[run]) \in Nat
         /\ (file[run] = <<>> <=> Len(file[run]) = 0)
         /\ synced[run] \in Nat
BY LenProperties, EmptySeq DEF LogType, Leased

LEMMA RunLineDue ==
  ASSUME Memory, Files, Live, phase \in {"starting", "finishing"}
  PROVE  Due(RunLine)
<1>1. file[run] \in Seq(LineSet) /\ Len(file[run]) \in Nat
      /\ (file[run] = <<>> <=> Len(file[run]) = 0)
  BY LiveFile DEF Memory, Files
<1>2. CASE phase = "starting"
  <2>1. RunLine = Line("run-started", NoJob, seq) /\ seq \in Nat
    BY <1>2 DEF RunLine, Memory, RunType
  <2>2. /\ RunLine \in LineSet /\ RunLine.type = "run-started"
        /\ RunLine.job = NoJob /\ RunLine.num = seq
    BY <2>1, LineType DEF Types
  <2>3. file[run] = <<>>
    BY <1>2 DEF Live
  <2> QED
    BY <1>2, <2>2, <2>3 DEF Due
<1>3. CASE phase = "finishing"
  <2>1. RunLine = Line("run-finished", NoJob, count) /\ count \in Nat
    BY <1>3 DEF RunLine, Memory, RunType
  <2>2. RunLine \in LineSet /\ RunLine.type = "run-finished" /\ RunLine.num = count
    BY <2>1, LineType DEF Types
  <2>3. Cardinality(InPending) = 0
    BY <1>3, NonePending DEF Memory, Placed
  <2>4. failures = 0 => count = Len(file[run]) + 1
    BY <1>1, <1>3, <2>3 DEF Live
  <2>5. file[run] # <<>> /\ file[run][1].form = "whole"
    BY <1>1, <1>3 DEF Live, Begun
  <2> QED
    BY <2>2, <2>4, <2>5 DEF Due
<1> QED
  BY <1>2, <1>3

(* While nothing has failed, an acknowledged fact can be read back.        *)
LEMMA FactRead ==
  ASSUME Files, failures = 0, NEW f \in facts, f[1] \in Runs
  PROVE  \E i \in 1 .. synced[f[1]] :
           /\ i \in 1 .. Len(file[f[1]])
           /\ file[f[1]][i].type = f[3] /\ file[f[1]][i].job = f[2]
           /\ file[f[1]][i].form = "whole"
<1> DEFINE r == f[1]
<1>1. Recorded(file[r], synced[r], f[2], f[3]) /\ synced[r] <= Len(file[r])
      /\ Clean(file[r]) /\ synced[r] \in Nat /\ Len(file[r]) \in Nat
  BY LenProperties DEF Files, LogType, FactsKept, Filed
<1>2. PICK i \in 1 .. synced[r] :
        \/ file[r][i].type = f[3] /\ file[r][i].job = f[2] /\ file[r][i].form = "whole"
        \/ file[r][i].form = "bad"
  BY <1>1 DEF Recorded
<1>3. i \in 1 .. Len(file[r])
  BY <1>1
<1> QED
  BY <1>1, <1>2, <1>3 DEF Clean

LEMMA JobLineDue ==
  ASSUME Memory, Files, Live, phase = "running", NEW j \in Jobs, at[j] \in Pending
  PROVE  /\ Due(JobLine(j)) /\ JobLine(j).job = j /\ JobLine(j).type = TypeAt[at[j]]
         /\ at[j] = "settling" => JobLine(j).num = ledger[j]
<1>1. /\ run \in Runs /\ file[run] \in Seq(LineSet) /\ Len(file[run]) \in Nat
      /\ (file[run] = <<>> <=> Len(file[run]) = 0)
  BY LiveFile DEF Memory, Files
<1>2. file[run] # <<>> /\ file[run][1].form = "whole"
  BY <1>1 DEF Live, Begun
<1> DEFINE type == TypeAt[at[j]]
           num == IF at[j] = "settling" THEN charged[j] ELSE 0
<1>3. type \in Types \ {"run-started", "run-finished"} /\ (type = "settled" => at[j] = "settling")
  BY DEF Pending, TypeAt, Types
<1>4. num \in Nat /\ (at[j] = "settling" => num = ledger[j])
  BY DEF Memory, RunType, Placed
<1>5. JobLine(j) = Line(type, j, num)
  BY DEF JobLine
<1> HIDE DEF type, num
<1>6. JobLine(j) \in LineSet /\ JobLine(j).type = type /\ JobLine(j).job = j
      /\ JobLine(j).num = num
  BY <1>3, <1>4, <1>5, LineType
<1>7. ASSUME type = "settled", failures = 0
      PROVE  \E k \in 1 .. Len(file[run]) :
               file[run][k].type = "opened" /\ file[run][k].job = j
  <2>1. <<run, j, "opened">> \in facts
    BY <1>3, <1>7 DEF Memory, Placed
  <2> QED
    BY <1>1, <1>7, <2>1, FactRead
<1> QED
  BY <1>2, <1>3, <1>4, <1>6, <1>7 DEF Due, type

LEMMA DueWritten ==
  ASSUME Memory, Files, Live, phase # "ended", NEW l, Due(l),
         NEW form \in {"whole", "open", "torn"},
         file' = [file EXCEPT ![run] = Written(@, l, form)]
  PROVE  /\ file' \in [Runs -> Seq(LineSet)]
         /\ \A r \in Runs : r # run => file'[r] = file[r]
         /\ Grows(file[run], file'[run], l, form)
         /\ Shape(file'[run])
         /\ Len(file'[run]) \in Nat /\ Len(file'[run]) > 0 /\ file'[run] # <<>>
         /\ Len(file[run]) <= Len(file'[run])
         /\ file[run] # <<>> => file'[run][1] = file[run][1]
         /\ file[run] = <<>> => file'[run][1].num = l.num /\ file'[run][1].form = form
         /\ Keeps(file[run], file'[run], Len(file[run]))
         /\ form = "whole" => Recorded(file'[run], Len(file'[run]), l.job, l.type)
         /\ failures = 0 =>
              /\ Clean(file'[run])
              /\ Len(file'[run]) = Len(file[run]) + 1
              /\ form = "whole" =>
                   \A i \in 1 .. Len(file'[run]) : file'[run][i].form = "whole"
              /\ l.type # "run-finished" =>
                   \A i \in 1 .. Len(file'[run]) : file'[run][i].type # "run-finished"
<1> DEFINE f == file[run]
           w == Written(f, l, form)
<1>1. /\ run \in Runs /\ f \in Seq(LineSet) /\ Shape(f) /\ Len(f) \in Nat
      /\ l \in LineSet /\ form \in Forms
      /\ failures = 0 => Clean(f)
  BY LiveFile DEF Memory, Files, Due, Filed, Forms
<1>2. w \in Seq(LineSet) /\ Grows(f, w, l, form)
  BY <1>1, WrittenGrows
<1> HIDE DEF w
<1>3. file'[run] = w /\ file' \in [Runs -> Seq(LineSet)]
      /\ \A r \in Runs : r # run => file'[r] = file[r]
  BY <1>1, <1>2 DEF Files, LogType, w
<1>4. /\ f = <<>> => l.type = "run-started" /\ l.job = NoJob
      /\ f # <<>> => l.type # "run-started" /\ f[1].form = "whole"
  BY DEF Due
<1>5. /\ Shape(w) /\ Len(f) <= Len(w) /\ Len(w) > 0
      /\ f # <<>> => w[1] = f[1]
      /\ f = <<>> => w[1].num = l.num /\ w[1].form = form /\ Len(w) = 1
      /\ Keeps(f, w, Len(f))
      /\ form = "whole" => Recorded(w, Len(w), l.job, l.type)
  <2> HIDE DEF f
  <2> QED
    BY <1>1, <1>2, <1>4, GrowthKeeps
<1>6. ASSUME failures = 0
      PROVE  /\ Clean(w)
             /\ Len(w) = Len(f) + 1
             /\ form = "whole" => \A i \in 1 .. Len(w) : w[i].form = "whole"
             /\ l.type # "run-finished" => \A i \in 1 .. Len(w) : w[i].type # "run-finished"
  <2>1. \A i \in 1 .. Len(f) : f[i].form = "whole" /\ f[i].type # "run-finished"
    BY <1>6 DEF Live
  <2>2. /\ l.type = "run-finished" => l.num = Len(f) + 1
        /\ l.type = "settled" => \E k \in 1 .. Len(f) : f[k].type = "opened" /\ f[k].job = l.job
    BY <1>6 DEF Due
  <2> HIDE DEF f
  <2> QED
    BY <1>1, <1>2, <1>6, <2>1, <2>2, GrowthClean
<1>7. Len(w) \in Nat /\ w # <<>>
  BY <1>2, <1>5, LenProperties, EmptySeq
<1> QED
  BY <1>2, <1>3, <1>5, <1>6, <1>7

(* What the files keep when the live run's line is written, in part, in    *)
(* full or durably.                                                        *)
LEMMA WriteFiles ==
  ASSUME Memory, Files, Live, phase # "ended", NEW l, Due(l),
         NEW form \in {"whole", "open", "torn"},
         file' = [file EXCEPT ![run] = Written(@, l, form)],
         named' \in {named, named \union {run}},
         \/ synced' = synced /\ facts' = facts
         \/ /\ synced' = [synced EXCEPT ![run] = Len(file'[run])]
            /\ form = "whole" /\ run \in named'
            /\ facts' \subseteq facts \union {<<run, l.job, l.type>>},
         UNCHANGED <<run, claimed>>, phase' # "starting",
         failures' = 0 => failures = 0
  PROVE  Files'
<1>1. /\ run \in Runs /\ Len(file[run]) \in Nat /\ (file[run] = <<>> <=> Len(file[run]) = 0)
      /\ synced[run] \in Nat /\ synced \in [Runs -> Nat] /\ synced[run] <= Len(file[run])
  BY LiveFile DEF Memory, Files, LogType, Filed
<1>2. /\ file' \in [Runs -> Seq(LineSet)]
      /\ \A r \in Runs : r # run => file'[r] = file[r]
      /\ Shape(file'[run])
      /\ Len(file'[run]) \in Nat /\ Len(file[run]) <= Len(file'[run])
      /\ failures = 0 => Clean(file'[run])
      /\ file'[run] # <<>>
  BY DueWritten
<1>3. synced' \in [Runs -> Nat] /\ \A r \in Runs : r # run => synced'[r] = synced[r]
  BY <1>1, <1>2
<1>4. synced[run] <= synced'[run] /\ synced'[run] <= Len(file'[run])
  BY <1>1, <1>2
<1>5. LogType'
  BY <1>1, <1>2, <1>3 DEF Files, LogType
<1>6. Filed'
  <2>1. SUFFICES ASSUME NEW r \in Runs
                 PROVE  /\ Shape(file'[r]) /\ synced'[r] <= Len(file'[r])
                        /\ r \notin named' => synced'[r] = 0
                        /\ r > run => file'[r] = <<>>
                        /\ failures' = 0 => Clean(file'[r])
    BY DEF Filed
  <2>2. CASE r # run
    BY <1>1, <1>2, <1>3, <2>2 DEF Files, Filed
  <2>3. CASE r = run
    <3>1. r \notin named' => synced'[r] = 0
      BY <1>1, <2>3 DEF Files, Filed
    <3>2. ~(r > run)
      BY <2>3, RunLogAssumption DEF Runs
    <3> QED
      BY <1>2, <1>4, <2>3, <3>1, <3>2
  <2> QED
    BY <2>2, <2>3
<1>7. FactsKept'
  <2>1. SUFFICES ASSUME NEW f \in facts'
                 PROVE  f[1] <= run /\ Recorded(file'[f[1]], synced'[f[1]], f[2], f[3])
    BY DEF FactsKept
  <2>2. CASE f \in facts
    <3>1. /\ f[1] \in Runs /\ f[1] <= run
          /\ Recorded(file[f[1]], synced[f[1]], f[2], f[3])
      BY <2>2 DEF Files, FactsKept, Memory, RunType, FactSet
    <3>2. CASE f[1] # run
      BY <1>2, <1>3, <3>1, <3>2
    <3>3. CASE f[1] = run
      <4>1. synced[run] \in 0 .. Len(file[run])
        BY <1>1
      <4>2. Recorded(file'[run], synced[run], f[2], f[3])
        BY <3>1, <3>3, <4>1, DueWritten DEF Keeps
      <4>3. 1 .. synced[run] \subseteq 1 .. synced'[run]
        BY <1>1, <1>3, <1>4
      <4> QED
        BY <3>1, <3>3, <4>2, <4>3 DEF Recorded
    <3> QED
      BY <3>2, <3>3
  <2>3. CASE f = <<run, l.job, l.type>> /\ synced' = [synced EXCEPT ![run] = Len(file'[run])]
             /\ form = "whole"
    <3>1. synced'[run] = Len(file'[run])
      BY <1>1, <2>3
    <3>2. Recorded(file'[run], Len(file'[run]), l.job, l.type)
      BY <2>3, DueWritten
    <3>3. run <= run
      BY <1>1, RunLogAssumption DEF Runs
    <3> QED
      BY <2>3, <3>1, <3>2, <3>3
  <2> QED
    BY <2>1, <2>2, <2>3
<1>8. Ordered'
  <2>1. SUFFICES ASSUME NEW r \in Runs, NEW s \in Runs, r < s, Opens(r)', file'[s] # <<>>
                 PROVE  file'[r][1].num < file'[s][1].num
    BY DEF Ordered
  <2>2. CASE r # run /\ s # run
    BY <1>2, <2>1, <2>2 DEF Files, Ordered, Opens
  <2>3. CASE r = run
    <3>1. s > run /\ file'[s] = file[s]
      BY <1>1, <1>2, <2>1, <2>3, RunLogAssumption DEF Runs
    <3> QED
      BY <2>1, <3>1 DEF Files, Filed
  <2>4. CASE s = run /\ r # run
    <3>1. Opens(r) /\ file'[r] = file[r]
      BY <1>2, <2>1, <2>4 DEF Opens
    <3>2. CASE file[run] # <<>>
      BY <2>1, <2>4, <3>1, <3>2, DueWritten DEF Files, Ordered
    <3>3. CASE file[run] = <<>>
      <4>1. file'[run][1].num = l.num
        BY <3>3, DueWritten
      <4>2. l.num = seq /\ file[r][1].num < seq
        BY <3>1, <3>3 DEF Due, Files, Ordered
      <4> QED
        BY <2>4, <3>1, <4>1, <4>2
    <3> QED
      BY <3>2, <3>3
  <2> QED
    BY <2>2, <2>3, <2>4
<1> QED
  BY <1>5, <1>6, <1>7, <1>8 DEF Files

(* Nothing is written. *)
LEMMA IdleFiles ==
  ASSUME Files, UNCHANGED <<file, synced, named, run, facts>>,
         claimed' \subseteq Nat, IsFiniteSet(claimed'),
         failures' = 0 => failures = 0,
         phase' = "starting" => phase = "starting" /\ seq' = seq
  PROVE  Files'
BY DEF Files, LogType, Filed, FactsKept, Ordered, Opens

LEMMA StartRunFiles ==
  ASSUME Memory, Files, Live, StartRun PROVE Files' /\ Live'
<1>1. /\ UNCHANGED <<file, synced, named, claimed, facts, failures>>
      /\ run' = run + 1 /\ phase' = "claiming" /\ count' = 0 /\ runFailed' = FALSE
      /\ at' \in [Jobs -> {"waiting", "done"}]
      /\ run \in 0 .. MaxRuns /\ run' \in Runs
  BY RunLogAssumption DEF StartRun, logVars, Memory, RunType, Runs
<1>2. Files'
  <2>1. LogType'
    BY <1>1 DEF Files, LogType
  <2>2. Filed'
    BY <1>1, RunLogAssumption DEF Files, Filed, Runs
  <2>3. FactsKept'
    <3>1. SUFFICES ASSUME NEW f \in facts PROVE f[1] <= run + 1
      BY <1>1 DEF Files, FactsKept
    <3>2. f[1] \in Runs /\ f[1] <= run
      BY DEF Files, FactsKept, Memory, RunType, FactSet
    <3> QED
      BY <1>1, <3>2, RunLogAssumption DEF Runs
  <2>4. Ordered'
    BY <1>1 DEF Files, Ordered, Opens
  <2> QED
    BY <2>1, <2>2, <2>3, <2>4 DEF Files
<1>3. file'[run'] = <<>>
  BY <1>1 DEF Files, Filed
<1>4. Len(file'[run']) = 0
  BY <1>3
<1>5. Cardinality(InPending') = 0
  <2>1. InPending' = {}
    BY <1>1 DEF InPending, Pending
  <2> QED
    BY <2>1, FS_EmptySet
<1> QED
  BY <1>1, <1>2, <1>3, <1>4, <1>5 DEF Live, Begun

LEMMA ClaimSeqFiles ==
  ASSUME Memory, Files, Live, ClaimSeq PROVE NextSeq \in Nat /\ Files' /\ Live'
<1>1. MaxSeq \in Nat /\ \A r \in Runs : Opens(r) => file[r][1].num <= MaxSeq
  BY MaxSeqBounds DEF Files
<1>2. NextSeq \in Nat /\ NextSeq > MaxSeq
  BY <1>1, NextSeqBeyond DEF Files, LogType
<1>3. /\ UNCHANGED <<file, synced, named, facts, failures, run, runFailed, at>>
      /\ claimed' = claimed \union {NextSeq}
      /\ phase = "claiming" /\ phase' = "starting" /\ seq' = NextSeq /\ count' = 1
  BY DEF ClaimSeq, Claims
<1>4. LogType'
  BY <1>2, <1>3, FS_AddElement DEF Files, LogType
<1>5. Filed' /\ FactsKept'
  BY <1>3 DEF Files, Filed, FactsKept
<1>6. Ordered'
  <2>1. \A r \in Runs : Opens(r) => file[r][1].num < NextSeq
    <3> TAKE r \in Runs
    <3>1. Opens(r) => file[r][1].num \in Nat
      BY FoldedOpens DEF Files
    <3> QED
      BY <1>1, <1>2, <3>1
  <2> QED
    BY <1>3, <2>1 DEF Files, Ordered, Opens
<1>7. Live'
  <2>1. Cardinality(InPending') = 0
    BY <1>3, NonePending DEF Memory, Placed, InPending
  <2>2. file[run] = <<>> /\ Len(file[run]) = 0
    BY <1>3 DEF Live
  <2> QED
    BY <1>3, <2>1, <2>2 DEF Live, Begun
<1> QED
  BY <1>2, <1>4, <1>5, <1>6, <1>7 DEF Files

LEMMA EndWaveFiles ==
  ASSUME Memory, Files, Live, EndWave PROVE Files' /\ Live'
<1>1. /\ UNCHANGED <<file, synced, named, claimed, facts, failures, run, runFailed, at, ledger>>
      /\ phase = "running"
      /\ \/ phase' = "ended"
         \/ phase' = "finishing" /\ count' = count + 1
      /\ \A j \in Jobs : at[j] \in {"waiting", "done"}
  BY DEF EndWave, Drained, logVars
<1>2. Files'
  BY <1>1, IdleFiles DEF Files, LogType
<1>3. InPending' = InPending /\ Cardinality(InPending) = 0
  BY <1>1, NonePending DEF InPending
<1>4. Len(file[run]) \in Nat
  BY <1>1, LiveFile DEF Memory, Files
<1>5. Cardinality(InPending') = 0
  BY <1>3
<1>8. runFailed' => failures' > 0
  BY <1>1 DEF Live
<1>6. CASE phase' = "ended"
  BY <1>2, <1>6, <1>8 DEF Live, Begun
<1>7. CASE phase' = "finishing" /\ count' = count + 1
  <2>1. failures = 0 => count' = Len(file[run]) + 1
    BY <1>1, <1>3, <1>4, <1>7 DEF Live
  <2>2. /\ Len(file[run]) > 0 /\ file[run][1].form = "whole"
        /\ failures = 0 => \A i \in 1 .. Len(file[run]) :
             file[run][i].form = "whole" /\ file[run][i].type # "run-finished"
    BY <1>1 DEF Live, Begun
  <2>3. file' = file /\ run' = run /\ failures' = failures
    BY <1>1
  <2> QED
    BY <1>2, <1>4, <1>5, <1>7, <1>8, <2>1, <2>2, <2>3 DEF Live, Begun
<1> QED
  BY <1>1, <1>2, <1>6, <1>7

(* The lines that the live run's next one leaves behind. *)
LEMMA SettledLines ==
  ASSUME Memory, Files, Live, phase # "ended", NEW l, Due(l),
         NEW form \in {"whole", "open", "torn"},
         file' = [file EXCEPT ![run] = Written(@, l, form)],
         NEW i \in 1 .. Len(file'[run]), file'[run][i].type = "settled"
  PROVE  \/ i \in 1 .. Len(file[run]) /\ file[run][i].type = "settled"
            /\ file[run][i].job = file'[run][i].job /\ file[run][i].num = file'[run][i].num
         \/ l.type = "settled" /\ l.job = file'[run][i].job /\ l.num = file'[run][i].num
<1> DEFINE f == file[run]
           w == file'[run]
<1>1. Grows(f, w, l, form) /\ Len(w) \in Nat
  BY DueWritten
<1>2. f \in Seq(LineSet) /\ Len(f) \in Nat /\ l \in LineSet
  BY LiveFile DEF Memory, Files, Due
<1>3. CASE /\ Len(w) = Len(f) + 1 /\ w[Len(w)] = [l EXCEPT !.form = form]
           /\ \A k \in 1 .. Len(f) : w[k] = f[k]
  <2>1. CASE i = Len(w)
    <3>1. w[i].type = l.type /\ w[i].job = l.job /\ w[i].num = l.num
      BY <1>2, <1>3, <2>1 DEF LineSet
    <3> QED
      BY <3>1
  <2>2. CASE i # Len(w)
    <3>1. i \in 1 .. Len(f)
      BY <1>2, <1>3, <2>2
    <3> QED
      BY <1>3, <3>1
  <2> QED
    BY <2>1, <2>2
<1>4. CASE /\ Len(f) > 0 /\ Len(w) = Len(f)
           /\ w[Len(f)] = [f[Len(f)] EXCEPT !.form = IF form = "whole" THEN "bad" ELSE "torn"]
           /\ \A k \in 1 .. Len(f) : k < Len(f) => w[k] = f[k]
  <2>1. f[Len(f)] \in LineSet /\ i \in 1 .. Len(f)
    BY <1>2, <1>4, ElementOfSeq
  <2>2. w[i].type = f[i].type /\ w[i].job = f[i].job /\ w[i].num = f[i].num
    <3>1. CASE i = Len(f)
      BY <1>4, <2>1, <3>1 DEF LineSet
    <3>2. CASE i # Len(f)
      BY <1>2, <1>4, <2>1, <3>2
    <3> QED
      BY <3>1, <3>2
  <2> QED
    BY <2>1, <2>2
<1> QED
  BY <1>1, <1>3, <1>4 DEF Grows

LEMMA WriteRunLineFiles ==
  ASSUME Memory, Files, Live, WriteRunLine PROVE Files' /\ Live'
<1>1. /\ phase \in {"starting", "finishing"} /\ Due(RunLine)
      /\ UNCHANGED <<run, claimed, facts, at, count, ledger>>
  BY RunLineDue DEF WriteRunLine, Appends, AppendFails
<1>2. CASE /\ Appends(run, RunLine, FALSE) /\ UNCHANGED <<runFailed, failures>>
           /\ phase' = IF phase = "starting" THEN "running" ELSE "ended"
  <2>1. /\ file' = [file EXCEPT ![run] = Written(@, RunLine, "whole")]
        /\ synced' = synced /\ named' \in {named, named \union {run}}
    BY <1>2 DEF Appends
  <2>2. Files'
    <3>1. phase # "ended" /\ phase' # "starting" /\ UNCHANGED failures
      BY <1>1, <1>2
    <3> QED
      BY <1>1, <2>1, <3>1, WriteFiles
  <2>3. CASE phase = "finishing"
    BY <1>1, <1>2, <2>2, <2>3 DEF Live, Begun
  <2>4. CASE phase = "starting"
    <3>1. /\ file[run] = <<>> /\ RunLine.type = "run-started"
          /\ Len(file[run]) = 0
      BY <2>4 DEF Live, RunLine, Line
    <3>2. /\ file'[run][1].form = "whole" /\ Len(file'[run]) \in Nat /\ Len(file'[run]) > 0
          /\ failures = 0 =>
               /\ Len(file'[run]) = 1
               /\ \A i \in 1 .. Len(file'[run]) :
                    file'[run][i].form = "whole" /\ file'[run][i].type # "run-finished"
      <4>1. phase # "ended" /\ RunLine.type # "run-finished"
        BY <1>1, <3>1
      <4>2. /\ Len(file'[run]) \in Nat /\ Len(file'[run]) > 0
            /\ file[run] = <<>> => file'[run][1].form = "whole"
            /\ failures = 0 =>
                 /\ Len(file'[run]) = Len(file[run]) + 1
                 /\ \A i \in 1 .. Len(file'[run]) : file'[run][i].form = "whole"
                 /\ \A i \in 1 .. Len(file'[run]) : file'[run][i].type # "run-finished"
        BY <1>1, <2>1, <4>1, DueWritten
      <4> QED
        BY <3>1, <4>2
    <3>3. Cardinality(InPending) = 0 /\ InPending' = InPending
      BY <1>1, <2>4, NonePending DEF Memory, Placed, InPending
    <3>4. failures = 0 => count = 1
      BY <2>4, <3>1, <3>3 DEF Live
    <3>5. Cardinality(InPending') = 0
      BY <3>3
    <3>6. \A i \in 1 .. Len(file'[run]) : file'[run][i].type # "settled"
      <4>1. phase # "ended" /\ RunLine.type # "settled"
        BY <1>1, <3>1
      <4>2. ~\E i \in 1 .. Len(file[run]) : TRUE
        BY <3>1
      <4> QED
        BY <1>1, <2>1, <4>1, <4>2, SettledLines
    <3> QED
      BY <1>1, <1>2, <2>2, <2>4, <3>2, <3>4, <3>5, <3>6 DEF Live, Begun
  <2> QED
    BY <1>1, <2>3, <2>4
<1>3. CASE /\ AppendFails(run, RunLine) /\ failures' = failures + 1 /\ phase' = "ended"
  <2>1. failures \in Nat /\ failures' > 0
    BY <1>3 DEF Memory, RunType
  <2>2. Live'
    BY <1>3, <2>1 DEF Live, Begun
  <2>3. CASE UNCHANGED file
    <3>1. claimed' \subseteq Nat /\ IsFiniteSet(claimed')
      BY <1>1 DEF Files, LogType
    <3> QED
      BY <1>1, <1>3, <2>1, <2>2, <2>3, <3>1, IdleFiles DEF AppendFails
  <2>4. ASSUME NEW form \in {"torn", "open", "whole"},
               file' = [file EXCEPT ![run] = Written(@, RunLine, form)]
        PROVE  Files'
    <3>1. /\ phase # "ended" /\ phase' # "starting" /\ named' = named /\ synced' = synced
          /\ form \in {"whole", "open", "torn"} /\ failures' # 0
      BY <1>1, <1>3, <2>1 DEF AppendFails
    <3> QED
      BY <1>1, <2>4, <3>1, WriteFiles
  <2> QED
    BY <1>3, <2>2, <2>3, <2>4 DEF AppendFails
<1> QED
  BY <1>2, <1>3 DEF WriteRunLine

(* The live run's clauses about its settled lines and about what is        *)
(* counted, behind a step that writes nothing.                             *)
LEMMA IdleLive ==
  ASSUME Memory, Files, Live, phase = "running",
         UNCHANGED <<file, phase, run, runFailed, failures>>,
         NEW j \in Jobs, NEW place \in Places, at[j] \notin Pending, at[j] # "done",
         Move(j, place), \A k \in Jobs \ {j} : ledger'[k] = ledger[k],
         \/ place \in Pending /\ count' = count + 1
         \/ place \notin Pending /\ count' = count
  PROVE  Live'
<1>1. Len(file[run]) \in Nat
  BY LiveFile DEF Memory, Files
<1>2. /\ at' = [at EXCEPT ![j] = place] /\ at \in [Jobs -> Places]
      /\ Cardinality(InPending) \in Nat
      /\ Cardinality(InPending') = Cardinality(InPending) + (IF place \in Pending THEN 1 ELSE 0)
  <2>1. at' = [at EXCEPT ![j] = place] /\ at \in [Jobs -> Places]
    BY DEF Memory, RunType, Move
  <2>2. /\ Cardinality(InPending) \in Nat
        /\ Cardinality(InPending') = Cardinality(InPending)
              + (IF place \in Pending THEN 1 ELSE 0) - (IF at[j] \in Pending THEN 1 ELSE 0)
    BY <2>1, PendingCount
  <2> QED
    BY <2>1, <2>2
<1>3. \A i \in 1 .. Len(file[run]) : file[run][i].type = "settled" => file[run][i].job # j
  <2>1. at[j] \notin {"settling", "finishing", "done"}
    BY DEF Pending
  <2> QED
    BY <2>1 DEF Live
<1>4. ASSUME NEW k \in Jobs, NEW i \in 1 .. Len(file[run]),
             file[run][i].type = "settled" /\ file[run][i].job = k
      PROVE  file[run][i].num = ledger'[k] /\ at'[k] \in {"settling", "finishing", "done"}
  <2>1. k # j
    BY <1>3, <1>4
  <2> QED
    BY <1>2, <1>4, <2>1 DEF Live
<1>5. failures = 0 => count' = Len(file[run]) + Cardinality(InPending')
  <2>1. failures = 0 => count = Len(file[run]) + Cardinality(InPending)
    BY <1>1, <1>2 DEF Live
  <2> QED
    BY <1>1, <1>2, <2>1
<1>6. Cardinality(InPending') \in Nat
  BY <1>2
<1> QED
  BY <1>1, <1>4, <1>5, <1>6 DEF Live, Begun

LEMMA IdleStepFiles ==
  ASSUME Files, UNCHANGED <<logVars, run, facts, failures, phase>>, phase = "running"
  PROVE  Files'
BY IdleFiles DEF Files, LogType, logVars

LEMMA DispatchFiles ==
  ASSUME Memory, Files, Live, NEW j \in Jobs, Dispatch(j) PROVE Files' /\ Live'
<1>1. /\ phase = "running" /\ at[j] = "waiting" /\ Move(j, "starting") /\ count' = count + 1
      /\ UNCHANGED <<logVars, run, phase, runFailed, failures, facts, ledger>>
  BY DEF Dispatch, Emits
<1>2. "starting" \in Places /\ "starting" \in Pending /\ "waiting" \notin Pending
  BY DEF Places, Pending
<1>3. UNCHANGED <<file, phase, run, runFailed, failures>> /\ at[j] \notin Pending /\ at[j] # "done"
      /\ \A k \in Jobs \ {j} : ledger'[k] = ledger[k]
  BY <1>1, <1>2 DEF logVars
<1> QED
  BY <1>1, <1>2, <1>3, IdleStepFiles, IdleLive

LEMMA SettlesFiles ==
  ASSUME Memory, Files, Live, NEW j \in Jobs, at[j] = "inside", NEW charge, Settles(j, charge),
         UNCHANGED <<logVars, run, phase, runFailed, failures, facts>>
  PROVE  Files' /\ Live'
<1>1. phase = "running"
  BY DEF Memory, Placed
<1>2. Move(j, "settling") /\ count' = count + 1
      /\ \A k \in Jobs \ {j} : ledger'[k] = ledger[k]
  BY DEF Settles, Emits, Memory, RunType
<1>3. "settling" \in Places /\ "settling" \in Pending /\ "inside" \notin Pending
  BY DEF Places, Pending
<1>4. UNCHANGED <<file, phase, run, runFailed, failures>> /\ at[j] \notin Pending /\ at[j] # "done"
  BY <1>3 DEF logVars
<1> QED
  BY <1>1, <1>2, <1>3, <1>4, IdleStepFiles, IdleLive

(* A task's step that settles nothing: it may report while the ladder      *)
(* waits for it, or leave a dispatch of a failed run unresolved.           *)
LEMMA TaskFiles ==
  ASSUME Memory, Files, Live, NEW j \in Jobs,
         UNCHANGED <<logVars, run, phase, seq, runFailed, failures, facts, count>>,
         \/ at' = at /\ ledger' = ledger
         \/ at[j] = "inside" /\ at' \in {at, [at EXCEPT ![j] = "done"]}
            /\ \A k \in Jobs \ {j} : ledger'[k] = ledger[k]
  PROVE  Files' /\ Live'
<1>1. UNCHANGED <<file, synced, named, claimed, run, phase, seq, runFailed, failures, facts, count>>
  BY DEF logVars
<1>2. CASE at' = at /\ ledger' = ledger
  <2>1. Files'
    BY <1>1, IdleFiles DEF Files, LogType
  <2>2. InPending' = InPending
    BY <1>2 DEF InPending
  <2>3. Cardinality(InPending') = Cardinality(InPending)
    BY <2>2
  <2> QED
    BY <1>1, <1>2, <2>1, <2>3 DEF Live, Begun
<1>3. CASE at[j] = "inside" /\ at' \in {at, [at EXCEPT ![j] = "done"]}
           /\ \A k \in Jobs \ {j} : ledger'[k] = ledger[k]
  <2>1. phase = "running"
    BY <1>3 DEF Memory, Placed
  <2>2. Files'
    BY <2>1, IdleStepFiles
  <2>3. \E place \in Places : Move(j, place) /\ place \notin Pending
    <3>1. CASE at' = at
      <4>1. Move(j, "inside")
        BY <1>3, <3>1 DEF Move, Memory, RunType
      <4> QED
        BY <4>1 DEF Places, Pending
    <3>2. CASE at' = [at EXCEPT ![j] = "done"]
      BY <3>2 DEF Move, Places, Pending
    <3> QED
      BY <1>3, <3>1, <3>2
  <2>4. at[j] \notin Pending /\ at[j] # "done"
    BY <1>3 DEF Pending
  <2>5. UNCHANGED <<file, phase, run, runFailed, failures>> /\ count' = count
    BY <1>1
  <2> QED
    BY <1>3, <2>1, <2>2, <2>3, <2>4, <2>5, IdleLive
<1> QED
  BY <1>2, <1>3

LEMMA TaskStepFiles ==
  ASSUME Memory, Files, Live, NEW r \in Runs, NEW j \in Jobs, TaskStep(r, j)
  PROVE  Files' /\ Live'
<1>1. CASE Enter(r, j)
  <2>1. UNCHANGED <<logVars, run, phase, seq, runFailed, failures, facts, count, at, ledger>>
    BY <1>1 DEF Enter
  <2> QED
    BY <2>1, TaskFiles
<1>2. CASE Report(r, j)
  <2>1. UNCHANGED <<logVars, run, phase, seq, runFailed, failures, facts, count, at>>
    BY <1>2 DEF Report
  <2>2. \/ ledger' = ledger
        \/ at[j] = "inside" /\ \A k \in Jobs \ {j} : ledger'[k] = ledger[k]
    BY <1>2 DEF Report, Closed, Memory, RunType
  <2>3. at' = at
    BY <2>1
  <2> QED
    BY <2>1, <2>2, <2>3, TaskFiles
<1>3. CASE PreparationEnds(r, j)
  <2>1. task[r][j] # "none"
        /\ UNCHANGED <<logVars, run, phase, seq, runFailed, failures, facts>>
    BY <1>3 DEF PreparationEnds
  <2>2. CASE ~Closed(r, j) /\ Settles(j, ledger[j])
    BY <2>1, <2>2, InsideTask, SettlesFiles
  <2>3. CASE ~Closed(r, j) /\ Move(j, "done") /\ UNCHANGED <<count, ledger, charged>>
    <3>1. at[j] = "inside" /\ at' = [at EXCEPT ![j] = "done"]
          /\ \A k \in Jobs \ {j} : ledger'[k] = ledger[k]
      BY <2>1, <2>3, InsideTask DEF Move
    <3>2. UNCHANGED <<logVars, run, phase, seq, runFailed, failures, facts, count>>
      BY <2>1, <2>3
    <3> QED
      BY <3>1, <3>2, TaskFiles
  <2>4. CASE UNCHANGED <<at, count, ledger, charged>>
    <3>1. UNCHANGED <<logVars, run, phase, seq, runFailed, failures, facts, count>>
          /\ at' = at /\ ledger' = ledger
      BY <2>1, <2>4
    <3> QED
      BY <3>1, TaskFiles
  <2> QED
    BY <1>3, <2>2, <2>3, <2>4 DEF PreparationEnds
<1>4. CASE BodyEnds(r, j)
  <2>1. task[r][j] # "none"
        /\ UNCHANGED <<logVars, run, phase, seq, runFailed, failures, facts>>
    BY <1>4 DEF BodyEnds
  <2>2. ASSUME ~Closed(r, j), NEW charge, Settles(j, charge) PROVE Files' /\ Live'
    <3>1. at[j] = "inside"
      BY <2>1, <2>2, InsideTask
    <3> QED
      BY <2>1, <2>2, <3>1, SettlesFiles
  <2>3. CASE UNCHANGED <<at, count, ledger, charged>>
    <3>1. UNCHANGED <<logVars, run, phase, seq, runFailed, failures, facts, count>>
          /\ at' = at /\ ledger' = ledger
      BY <2>1, <2>3
    <3> QED
      BY <3>1, TaskFiles
  <2> QED
    BY <1>4, <2>2, <2>3 DEF BodyEnds
<1> QED
  BY <1>1, <1>2, <1>3, <1>4 DEF TaskStep

LEMMA LastRungFiles ==
  ASSUME Memory, Files, Live, NEW j \in Jobs, LastRung(j) PROVE Files' /\ Live'
<1>1. at[j] = "inside" /\ Settles(j, FullCharge(j))
      /\ UNCHANGED <<logVars, run, phase, runFailed, failures, facts>>
  BY DEF LastRung, Kill
<1> QED
  BY <1>1, SettlesFiles

LEMMA WriteLineFiles ==
  ASSUME Memory, Files, Live, NEW j \in Jobs, WriteLine(j) PROVE Files' /\ Live'
<1> DEFINE l == JobLine(j)
<1>1. /\ phase = "running" /\ at[j] \in Pending
      /\ UNCHANGED <<run, phase, claimed, ledger>>
      /\ Due(l) /\ l.job = j /\ l.type = TypeAt[at[j]]
      /\ at[j] = "settling" => l.num = ledger[j]
  BY JobLineDue DEF WriteLine, Appends, AppendFails
<1>2. l.type # "run-finished" /\ (l.type = "settled" => at[j] = "settling")
  BY <1>1 DEF Pending, TypeAt
<1>3. /\ Len(file[run]) \in Nat /\ file[run] # <<>> /\ file[run][1].form = "whole"
      /\ at \in [Jobs -> Places]
  BY <1>1, LiveFile DEF Memory, Files, Live, Begun, RunType
<1> HIDE DEF l
(* What is settled in the file stays as the ledger has it. *)
<1>4. ASSUME NEW form \in {"whole", "open", "torn"},
             file' = [file EXCEPT ![run] = Written(@, l, form)],
             \A k \in Jobs \ {j} : at'[k] = at[k],
             at[j] \in {"settling", "finishing"} => at'[j] \in {"finishing", "done"},
             NEW k \in Jobs, NEW i \in 1 .. Len(file'[run]),
             file'[run][i].type = "settled", file'[run][i].job = k
      PROVE  file'[run][i].num = ledger'[k] /\ at'[k] \in {"settling", "finishing", "done"}
  <2>1. phase # "ended"
    BY <1>1
  <2>2. \/ i \in 1 .. Len(file[run]) /\ file[run][i].type = "settled"
           /\ file[run][i].job = k /\ file[run][i].num = file'[run][i].num
        \/ l.type = "settled" /\ l.job = k /\ l.num = file'[run][i].num
    <3>1. \/ i \in 1 .. Len(file[run]) /\ file[run][i].type = "settled"
             /\ file[run][i].job = file'[run][i].job /\ file[run][i].num = file'[run][i].num
          \/ l.type = "settled" /\ l.job = file'[run][i].job /\ l.num = file'[run][i].num
      <4>1. Due(l)
        BY <1>1
      <4> QED
        BY <1>4, <2>1, <4>1, SettledLines
    <3> QED
      BY <1>4, <3>1
  <2>3. CASE i \in 1 .. Len(file[run]) /\ file[run][i].type = "settled"
             /\ file[run][i].job = k /\ file[run][i].num = file'[run][i].num
    <3>1. file[run][i].num = ledger[k] /\ at[k] \in {"settling", "finishing", "done"}
      BY <1>1, <2>3 DEF Live
    <3>2. at[j] # "done"
      BY <1>1 DEF Pending
    <3> QED
      BY <1>1, <1>4, <2>3, <3>1, <3>2
  <2>4. CASE l.type = "settled" /\ l.job = k /\ l.num = file'[run][i].num
    BY <1>1, <1>2, <1>4, <2>4
  <2> QED
    BY <2>2, <2>3, <2>4
<1>5. CASE /\ Appends(run, l, Durably(j))
           /\ facts' = facts \union IF Durably(j) THEN {<<run, j, TypeAt[at[j]]>>} ELSE {}
           /\ Proceed(j) /\ UNCHANGED <<runFailed, failures>>
  <2>1. /\ file' = [file EXCEPT ![run] = Written(@, l, "whole")]
        /\ named' = named \union {run}
        /\ synced' = IF Durably(j) THEN [synced EXCEPT ![run] = Len(file'[run])] ELSE synced
    BY <1>5 DEF Appends
  <2>2. phase # "ended" /\ phase' # "starting"
    BY <1>1
  <2>3. Files'
    <3>1. \/ synced' = synced /\ facts' = facts
          \/ /\ synced' = [synced EXCEPT ![run] = Len(file'[run])]
             /\ run \in named'
             /\ facts' \subseteq facts \union {<<run, l.job, l.type>>}
      BY <1>1, <1>5, <2>1
    <3>2. named' \in {named, named \union {run}} /\ (failures' = 0 => failures = 0)
          /\ UNCHANGED <<run, claimed>>
      BY <1>1, <1>5, <2>1
    <3> QED
      BY <1>1, <2>1, <2>2, <3>1, <3>2, WriteFiles
  <2>4. /\ file'[run][1] = file[run][1]
        /\ Len(file'[run]) \in Nat /\ Len(file'[run]) > 0
        /\ failures = 0 =>
             /\ Len(file'[run]) = Len(file[run]) + 1
             /\ \A i \in 1 .. Len(file'[run]) :
                  file'[run][i].form = "whole" /\ file'[run][i].type # "run-finished"
    <3>1. /\ Len(file'[run]) \in Nat /\ Len(file'[run]) > 0
          /\ file[run] # <<>> => file'[run][1] = file[run][1]
          /\ failures = 0 =>
               /\ Len(file'[run]) = Len(file[run]) + 1
               /\ \A i \in 1 .. Len(file'[run]) : file'[run][i].form = "whole"
               /\ \A i \in 1 .. Len(file'[run]) : file'[run][i].type # "run-finished"
      BY <1>1, <1>2, <2>1, <2>2, DueWritten
    <3> QED
      BY <1>3, <3>1
  <2>5. PICK place \in {"opening", "finishing", "inside", "done"} :
          /\ at' = [at EXCEPT ![j] = place]
          /\ at[j] \in {"settling", "finishing"} => place \in {"finishing", "done"}
          /\ count' = IF place \in Pending THEN count + 1 ELSE count
    BY <1>5 DEF Proceed, Emits, Move, Pending
  <2>6. \A k \in Jobs \ {j} : at'[k] = at[k]
    BY <1>3, <2>5
  <2>7. at'[j] = place
    BY <1>3, <2>5
  <2>8. /\ Cardinality(InPending) \in Nat
        /\ Cardinality(InPending') = Cardinality(InPending)
              + (IF place \in Pending THEN 1 ELSE 0) - 1
    <3>1. place \in Places
      BY DEF Places
    <3> QED
      BY <1>1, <1>3, <2>5, <3>1, PendingCount
  <2>9. failures = 0 => count' = Len(file'[run]) + Cardinality(InPending')
    <3>0. failures = 0 => Len(file'[run]) = Len(file[run]) + 1
      BY <2>4
    <3>1. failures = 0 => count = Len(file[run]) + Cardinality(InPending)
      BY <1>1, <1>3, <2>8 DEF Live
    <3>2. CASE place \in Pending
      <4>1. count' = count + 1 /\ Cardinality(InPending') = Cardinality(InPending)
        BY <2>5, <2>8, <3>2
      <4> QED
        BY <1>3, <2>8, <3>0, <3>1, <4>1, SMTT(60)
    <3>3. CASE place \notin Pending
      <4>1. count' = count /\ Cardinality(InPending') = Cardinality(InPending) - 1
        BY <2>5, <2>8, <3>3
      <4> QED
        BY <1>3, <2>8, <3>0, <3>1, <4>1
    <3> QED
      BY <3>2, <3>3
  <2>10. \A k \in Jobs, i \in 1 .. Len(file'[run]) :
           file'[run][i].type = "settled" /\ file'[run][i].job = k =>
             file'[run][i].num = ledger'[k] /\ at'[k] \in {"settling", "finishing", "done"}
    BY <1>4, <2>1, <2>5, <2>6, <2>7
  <2>11. runFailed' => failures' > 0
    BY <1>5 DEF Live
  <2>12. Cardinality(InPending') \in Int /\ phase' = "running" /\ run' = run
         /\ failures' = failures
    BY <1>1, <1>5, <2>8
  <2> QED
    BY <1>3, <2>3, <2>4, <2>9, <2>10, <2>11, <2>12 DEF Live, Begun
<1>6. CASE /\ AppendFails(run, l) /\ runFailed' = TRUE /\ failures' = failures + 1
           /\ Move(j, "done") /\ facts' = facts
  <2>1. failures' > 0 /\ failures' # 0 /\ phase # "ended" /\ phase' # "starting"
    BY <1>1, <1>6 DEF Memory, RunType
  <2>2. /\ \A k \in Jobs \ {j} : at'[k] = at[k]
        /\ at'[j] = "done"
    BY <1>3, <1>6 DEF Move
  <2>3. UNCHANGED <<synced, named, claimed, run, facts>>
    BY <1>1, <1>6 DEF AppendFails
  <2>4. CASE file' = file
    <3>1. Files'
      <4>1. claimed' \subseteq Nat /\ IsFiniteSet(claimed')
        BY <2>3 DEF Files, LogType
      <4> QED
        BY <1>1, <2>1, <2>3, <2>4, <4>1, IdleFiles
    <3>2. ASSUME NEW k \in Jobs, NEW i \in 1 .. Len(file[run]),
                 file[run][i].type = "settled", file[run][i].job = k
          PROVE  file[run][i].num = ledger'[k] /\ at'[k] \in {"settling", "finishing", "done"}
      BY <1>1, <2>2, <3>2 DEF Live
    <3>3. Len(file[run]) > 0
      BY <1>1 DEF Live, Begun
    <3> QED
      BY <1>1, <1>3, <2>1, <2>4, <3>1, <3>2, <3>3 DEF Live, Begun
  <2>5. ASSUME NEW form \in {"torn", "open", "whole"},
               file' = [file EXCEPT ![run] = Written(@, l, form)]
        PROVE  Files' /\ Live'
    <3>1. form \in {"whole", "open", "torn"} /\ named' \in {named, named \union {run}}
      BY <2>3
    <3>2. Files'
      BY <1>1, <2>1, <2>3, <2>5, <3>1, WriteFiles
    <3>3. /\ file'[run][1] = file[run][1]
          /\ Len(file'[run]) \in Nat /\ Len(file'[run]) > 0
      BY <1>1, <1>3, <2>1, <2>5, <3>1, DueWritten
    <3>4. \A k \in Jobs, i \in 1 .. Len(file'[run]) :
            file'[run][i].type = "settled" /\ file'[run][i].job = k =>
              file'[run][i].num = ledger'[k] /\ at'[k] \in {"settling", "finishing", "done"}
      BY <1>4, <2>2, <2>5, <3>1
    <3> QED
      BY <1>1, <1>3, <2>1, <3>2, <3>3, <3>4 DEF Live, Begun
  <2> QED
    BY <1>6, <2>4, <2>5 DEF AppendFails
<1> QED
  BY <1>5, <1>6 DEF WriteLine, l

LEMMA DiesLive ==
  ASSUME Dies PROVE Live'
BY DEF Dies, Live, Begun

LEMMA CrashFiles ==
  ASSUME Memory, Files, Live, Crash PROVE Files' /\ Live'
<1>1. Dies /\ phase' = "ended" /\ UNCHANGED <<run, facts, failures>>
  BY DEF Crash, Dies
<1>2. Live'
  BY <1>1, DiesLive
<1>3. ASSUME UNCHANGED <<file, synced, named, claimed>> PROVE Files'
  BY <1>1, <1>3, IdleFiles DEF Files, LogType
<1>4. ASSUME NEW l, Due(l), phase # "ended", AppendFails(run, l) PROVE Files'
  <2>1. UNCHANGED <<synced, named, claimed>>
    BY <1>4 DEF AppendFails
  <2>2. ASSUME NEW form \in {"torn", "open", "whole"},
               file' = [file EXCEPT ![run] = Written(@, l, form)]
        PROVE  Files'
    <3>1. form \in {"whole", "open", "torn"} /\ named' \in {named, named \union {run}}
          /\ phase' # "starting" /\ (failures' = 0 => failures = 0)
      BY <1>1, <2>1
    <3> QED
      BY <1>1, <1>4, <2>1, <2>2, <3>1, WriteFiles
  <2> QED
    BY <1>3, <1>4, <2>1, <2>2 DEF AppendFails
<1>5. CASE UNCHANGED logVars
  BY <1>2, <1>3, <1>5 DEF logVars
<1>6. CASE phase \in {"starting", "finishing"} /\ AppendFails(run, RunLine)
  BY <1>2, <1>4, <1>6, RunLineDue
<1>7. CASE \E j \in Jobs : phase = "running" /\ at[j] \in Pending /\ AppendFails(run, JobLine(j))
  BY <1>2, <1>4, <1>7, JobLineDue
<1> QED
  BY <1>5, <1>6, <1>7 DEF Crash

LEMMA MachineCrashFiles ==
  ASSUME Memory, Files, Live, MachineCrash PROVE Files' /\ Live'
<1>1. Dies /\ LosesUnsynced /\ phase' = "ended" /\ UNCHANGED <<run, facts, failures>>
  BY DEF MachineCrash, Dies
<1>2. Live'
  BY <1>1, DiesLive
<1>3. \A r \in Runs : /\ file[r] \in Seq(LineSet) /\ Shape(file[r])
                      /\ synced[r] \in 0 .. Len(file[r]) /\ Len(file[r]) \in Nat
                      /\ r \notin named => synced[r] = 0
  BY LenProperties DEF Files, LogType, Filed
<1>4. PICK g \in [Loose -> UNION {Survivals(r) : r \in Loose}] :
        /\ \A r \in Loose : g[r] \in Survivals(r)
        /\ file' = [r \in Runs |-> IF r \in Loose THEN g[r] ELSE file[r]]
  BY <1>1 DEF LosesUnsynced
<1>5. /\ synced' = [r \in Runs |-> Len(file'[r])]
      /\ claimed' \subseteq claimed
      /\ named' = {r \in Runs : file'[r] # <<>>} \union named
  BY <1>1 DEF LosesUnsynced
(* Of each file survives a cut that keeps what was on the disk. *)
<1>6. ASSUME NEW r \in Runs PROVE Cut(file[r], file'[r], synced[r])
  <2>1. CASE r \in Loose
    <3>1. file'[r] \in Survivals(r)
      BY <1>4, <2>1
    <3> QED
      BY <1>3, <3>1, SurvivalCut DEF Files
  <2>2. CASE r \notin Loose
    <3>1. file'[r] = file[r] /\ synced[r] <= Len(file[r])
      BY <1>3, <1>4, <2>2
    <3> QED
      BY <1>3, <3>1 DEF Cut
  <2> QED
    BY <2>1, <2>2
<1>7. \A r \in Runs :
        /\ file'[r] \in Seq(LineSet) /\ Len(file'[r]) \in Nat
        /\ (file'[r] = <<>> <=> Len(file'[r]) = 0)
        /\ synced[r] <= Len(file'[r])
        /\ Shape(file'[r])
        /\ Clean(file[r]) => Clean(file'[r])
        /\ \A job, type : Recorded(file[r], synced[r], job, type)
                            => Recorded(file'[r], synced[r], job, type)
        /\ file'[r] # <<>> => /\ file[r] # <<>> /\ file'[r][1].num = file[r][1].num
                              /\ Parses(file'[r][1]) => Parses(file[r][1])
  <2> TAKE r \in Runs
  <2> DEFINE f == file[r]
             w == file'[r]
             n == synced[r]
  <2>1. Cut(f, w, n) /\ Shape(f) /\ f \in Seq(LineSet) /\ n \in 0 .. Len(f)
    BY <1>3, <1>6
  <2>2. w \in Seq(LineSet) /\ n <= Len(w)
    BY <2>1 DEF Cut
  <2> HIDE DEF f, w, n
  <2>3. Len(w) \in Nat /\ (w = <<>> <=> Len(w) = 0)
    BY <2>2, LenProperties, EmptySeq
  <2>4. /\ Shape(w) /\ (Clean(f) => Clean(w))
        /\ \A job, type : Recorded(f, n, job, type) => Recorded(w, n, job, type)
        /\ w # <<>> => /\ f # <<>> /\ w[1].num = f[1].num
                       /\ Parses(w[1]) => Parses(f[1])
    BY <2>1, CutKeeps
  <2> QED
    BY <2>2, <2>3, <2>4 DEF f, w, n
<1>8. LogType'
  <2>1. file' \in [Runs -> Seq(LineSet)]
    <3>1. file' = [r \in Runs |-> file'[r]]
      BY <1>4
    <3> QED
      BY <1>7, <3>1
  <2>2. synced' \in [Runs -> Nat] /\ named' \subseteq Runs
    BY <1>5, <1>7 DEF Files, LogType
  <2>3. claimed' \subseteq Nat /\ IsFiniteSet(claimed')
    BY <1>5, FS_Subset DEF Files, LogType
  <2> QED
    BY <2>1, <2>2, <2>3 DEF LogType
<1>9. Filed'
  <2>1. SUFFICES ASSUME NEW r \in Runs
                 PROVE  /\ Shape(file'[r]) /\ synced'[r] <= Len(file'[r])
                        /\ r \notin named' => synced'[r] = 0
                        /\ r > run => file'[r] = <<>>
                        /\ failures = 0 => Clean(file'[r])
    BY <1>1 DEF Filed
  <2>2. synced'[r] = Len(file'[r])
    BY <1>5
  <2>3. r > run => file'[r] = <<>>
    BY <1>7 DEF Files, Filed
  <2>4. failures = 0 => Clean(file'[r])
    BY <1>7 DEF Files, Filed
  <2>5. r \notin named' => synced'[r] = 0
    BY <1>5, <1>7, <2>2
  <2> QED
    BY <1>7, <2>2, <2>3, <2>4, <2>5
<1>10. FactsKept'
  <2>1. SUFFICES ASSUME NEW f \in facts
                 PROVE  f[1] <= run /\ Recorded(file'[f[1]], synced'[f[1]], f[2], f[3])
    BY <1>1 DEF FactsKept
  <2>2. f[1] \in Runs /\ f[1] <= run /\ Recorded(file[f[1]], synced[f[1]], f[2], f[3])
    BY DEF Files, FactsKept, Memory, RunType, FactSet
  <2>3. Recorded(file'[f[1]], synced[f[1]], f[2], f[3])
    BY <1>7, <2>2
  <2>4. 1 .. synced[f[1]] \subseteq 1 .. synced'[f[1]]
    <3>1. synced'[f[1]] = Len(file'[f[1]])
      BY <1>5, <2>2
    <3> QED
      BY <1>3, <1>7, <2>2, <3>1
  <2> QED
    BY <2>2, <2>3, <2>4 DEF Recorded
<1>11. Ordered'
  <2>1. SUFFICES ASSUME NEW r \in Runs, NEW s \in Runs, r < s, Opens(r)', file'[s] # <<>>
                 PROVE  file'[r][1].num < file'[s][1].num
    BY <1>1 DEF Ordered
  <2>2. Opens(r) /\ file[s] # <<>> /\ file'[r][1].num = file[r][1].num
        /\ file'[s][1].num = file[s][1].num
    BY <1>7, <2>1 DEF Opens
  <2> QED
    BY <2>1, <2>2 DEF Files, Ordered
<1> QED
  BY <1>2, <1>8, <1>9, <1>10, <1>11 DEF Files

LEMMA DeleteTombstoneFiles ==
  ASSUME Memory, Files, Live, DeleteTombstone PROVE Files' /\ Live'
<1>1. UNCHANGED <<file, synced, named, runVars>> /\ claimed' \subseteq claimed
      /\ phase = "ended"
  BY DEF DeleteTombstone
<1>2. claimed' \subseteq Nat /\ IsFiniteSet(claimed')
  BY <1>1, FS_Subset DEF Files, LogType
<1>3. Files'
  BY <1>1, <1>2, IdleFiles DEF runVars
<1>4. Live'
  BY <1>1 DEF Live, Begun, runVars
<1> QED
  BY <1>3, <1>4

LEMMA NextFiles ==
  ASSUME Memory, Files, Live, Next PROVE Files' /\ Live'
<1>1. CASE StartRun \/ RunStep
  BY <1>1, StartRunFiles, ClaimSeqFiles, WriteRunLineFiles, EndWaveFiles DEF RunStep
<1>2. CASE \E j \in Jobs : JobStep(j)
  BY <1>2, DispatchFiles, WriteLineFiles, LastRungFiles DEF JobStep
<1>3. CASE \E j \in Jobs : \E r \in Runs : TaskStep(r, j)
  BY <1>3, TaskStepFiles
<1>4. CASE Crash \/ MachineCrash \/ DeleteTombstone
  BY <1>4, CrashFiles, MachineCrashFiles, DeleteTombstoneFiles
<1> QED
  BY <1>1, <1>2, <1>3, <1>4 DEF Next

LEMMA InvInit == Init => IInv
<1> SUFFICES ASSUME Init PROVE IInv
  OBVIOUS
<1> USE DEF Init, LogInit
<1>1. LogType
  BY FS_EmptySet, EmptySeq DEF LogType
<1>2. RunType
  <2>1. /\ run \in 0 .. MaxRuns /\ holder \in 0 .. MaxRuns /\ phase \in PhaseSet
        /\ seq \in Nat /\ count \in Nat /\ failures \in Nat
    BY RunLogAssumption DEF PhaseSet
  <2>2. at \in [Jobs -> Places] /\ ledger \in [Jobs -> Nat] /\ charged \in [Jobs -> Nat]
        /\ task \in [Runs -> [Jobs -> {"none", "preparing", "body"}]]
    BY DEF Places
  <2>3. runFailed \in BOOLEAN /\ detached \in BOOLEAN
    OBVIOUS
  <2> QED
    BY <2>1, <2>2, <2>3 DEF RunType
<1>3. \A r \in Runs : file[r] = <<>> /\ Len(file[r]) = 0 /\ synced[r] = 0
  OBVIOUS
<1>4. Leased /\ Placed /\ TaskFenced /\ EnteredOpened
  BY DEF Leased, Placed, TaskFenced, EnteredOpened
<1>5. Filed
  BY <1>3 DEF Filed, Shape, Clean
<1>6. FactsKept /\ Live /\ Ordered
  BY <1>3 DEF FactsKept, Live, Begun, Ordered, Opens
<1> QED
  BY <1>1, <1>2, <1>4, <1>5, <1>6 DEF IInv

LEMMA InvNext == IInv /\ [Next]_vars => IInv'
<1> SUFFICES ASSUME IInv, [Next]_vars PROVE IInv'
  OBVIOUS
<1>1. Memory /\ Files /\ Live
  BY DEF IInv, Memory, Files
<1>2. CASE Next
  <2>1. NextSeq \in Nat
    <3>1. MaxSeq \in Nat
      BY <1>1, MaxSeqBounds DEF Files
    <3> QED
      BY <1>1, <3>1, NextSeqBeyond DEF Files, LogType
  <2>2. Memory' /\ Files' /\ Live'
    BY <1>1, <1>2, <2>1, NextMemory, NextFiles
  <2> QED
    BY <2>2 DEF IInv, Memory, Files
<1>3. CASE UNCHANGED vars
  BY <1>3 DEF vars, logVars, runVars, IInv, LogType, RunType, Leased, Placed, TaskFenced,
              EnteredOpened, Filed, FactsKept, Live, Ordered, Begun, Opens, InPending
<1> QED
  BY <1>2, <1>3

(* Whatever crashes, fails or is killed: the files keep their shape, what  *)
(* was acknowledged stays recorded, the ordinals follow the runs, and the  *)
(* live run's lease, tasks and count are in step with its file.            *)
THEOREM Invariance == Spec => []IInv
<1> QED
  BY InvInit, InvNext, PTL DEF Spec
-----------------------------------------------------------------------------
(* What a reader of the journal can rely on.                               *)

LEMMA FactFolded ==
  ASSUME IInv, \A r \in Runs : ~Invalid(file[r]), NEW f \in facts
  PROVE  f[1] \in Folded /\ Has(file[f[1]], f[3], f[2])
<1> DEFINE r == f[1]
           lines == file[r]
<1>1. /\ r \in Runs /\ f[3] \in {"opened", "settled"}
      /\ Recorded(lines, synced[r], f[2], f[3])
      /\ Shape(lines) /\ Len(lines) \in Nat /\ synced[r] \in Nat /\ synced[r] <= Len(lines)
  BY LenProperties DEF IInv, RunType, FactSet, FactsKept, Filed, LogType
<1>2. PICK i \in 1 .. synced[r] :
        \/ lines[i].type = f[3] /\ lines[i].job = f[2] /\ lines[i].form = "whole"
        \/ lines[i].form = "bad"
  BY <1>1 DEF Recorded
<1>3. i \in 1 .. Len(lines)
  BY <1>1
<1>4. lines[i].type = f[3] /\ lines[i].job = f[2] /\ lines[i].form = "whole"
  BY <1>1, <1>2, <1>3 DEF Invalid
<1>5. i # 1 /\ Len(lines) > 1
  BY <1>1, <1>3, <1>4 DEF Shape
<1>6. lines[1].form = "whole" /\ lines # <<>>
  BY <1>1, <1>5, EmptySeq DEF Shape
<1>7. Opens(r)
  BY <1>6 DEF Opens, Parses
<1> QED
  BY <1>1, <1>3, <1>4, <1>7, FoldedOpens DEF Has, Events, Parses, Folded, IInv

(* Every acknowledged durable fact is in a fold that is not refused, and   *)
(* the fold orders the runs as they ran: readRuns and foldOrderRuns.       *)
LEMMA IInvFoldComplete == IInv => FoldComplete
<1> SUFFICES ASSUME IInv, Accepted PROVE
      /\ \A f \in facts : f[1] \in Folded /\ Has(file[f[1]], f[3], f[2])
      /\ \A r, s \in Folded : r < s => Ordinal(r) < Ordinal(s)
  BY DEF FoldComplete
<1>1. \A r \in Runs : ~Invalid(file[r])
  BY DEF Accepted, Corrupt
<1>2. \A f \in facts : f[1] \in Folded /\ Has(file[f[1]], f[3], f[2])
  BY <1>1, FactFolded
<1>3. ASSUME NEW r \in Folded, NEW s \in Folded, r < s PROVE Ordinal(r) < Ordinal(s)
  <2>1. r \in Runs /\ s \in Runs
    BY DEF Folded
  <2>2. /\ Opens(r) /\ Opens(s) /\ Ordinal(r) = file[r][1].num /\ Ordinal(s) = file[s][1].num
    BY <2>1, FoldedOpens DEF IInv
  <2> QED
    BY <1>3, <2>1, <2>2 DEF IInv, Ordered, Opens
<1> QED
  BY <1>2, <1>3

(* A fold that readRuns does not refuse has every acknowledged durable     *)
(* fact, in the order in which the runs ran.                               *)
THEOREM FoldCompleteness == Spec => []FoldComplete
<1> QED
  BY Invariance, IInvFoldComplete, PTL

(* Deleting the tombstone that assertNoSeqGap names forgets no dispatch:   *)
(* every body that began is in a run that still folds.                     *)
THEOREM OrphanSafety == Spec => []OrphanSafe
<1>1. IInv => OrphanSafe
  <2> SUFFICES ASSUME IInv, ~Corrupt, NEW e \in entered PROVE e[1] \in Folded
    BY DEF OrphanSafe
  <2>1. \A r \in Runs : ~Invalid(file[r])
    BY DEF Corrupt
  <2>2. <<e[1], e[2], "opened">> \in facts
    BY DEF IInv, EnteredOpened
  <2> QED
    BY <2>1, <2>2, FactFolded
<1> QED
  BY <1>1, Invariance, PTL

(* A clean file cannot be refused.                                         *)
LEMMA CleanReads ==
  ASSUME NEW f \in Seq(LineSet), Shape(f), Clean(f)
  PROVE  ~Invalid(f) /\ ~Miscounted(f) /\ ~Unpaired(f)
<1>1. Len(f) \in Nat
  BY LenProperties
<1>2. ~Invalid(f)
  BY DEF Clean, Invalid
<1>3. \A i \in 1 .. Len(f) : i < Len(f) => f[i].form = "whole"
  BY DEF Shape, Clean
<1>4. ASSUME NEW i \in Events(f), f[i].type = "run-finished"
      PROVE  f[i].num = Cardinality(Events(f))
  <2>1. i \in 1 .. Len(f) /\ i = Len(f) /\ f[i].num = i /\ Parses(f[i])
    BY <1>4 DEF Events, Clean
  <2>2. Events(f) = 1 .. Len(f)
    <3>1. \A k \in 1 .. Len(f) : k < Len(f) \/ k = Len(f)
      BY <1>1
    <3>2. \A k \in 1 .. Len(f) : Parses(f[k])
      BY <1>3, <2>1, <3>1 DEF Parses
    <3> QED
      BY <3>2 DEF Events
  <2>3. Cardinality(1 .. Len(f)) = Len(f)
    <3>1. 1 \in Int /\ Len(f) \in Int /\ ~(1 > Len(f)) /\ Len(f) - 1 + 1 = Len(f)
      BY <1>1, <2>1
    <3> QED
      BY <3>1, FS_Interval
  <2> QED
    BY <2>1, <2>2, <2>3
<1>5. ASSUME NEW j \in Jobs, Has(f, "settled", j) PROVE Has(f, "opened", j)
  <2>1. PICK i \in 1 .. Len(f) : f[i].type = "settled" /\ f[i].job = j
    BY <1>5 DEF Has, Events
  <2>2. PICK k \in 1 .. i - 1 : f[k].type = "opened" /\ f[k].job = f[i].job
    BY <2>1 DEF Clean
  <2>3. k \in 1 .. Len(f) /\ k < Len(f)
    BY <1>1, <2>1, <2>2
  <2> QED
    BY <1>3, <2>1, <2>2, <2>3 DEF Has, Events, Parses
<1> QED
  BY <1>2, <1>4, <1>5 DEF Miscounted, Unpaired

(* Crashes alone, of processes and of the machine, at whatever line and    *)
(* however often, never make readEvents, foldOrderRuns or seedFromJournal  *)
(* refuse the journal.                                                     *)
THEOREM CrashSafety == Spec => []CorruptOnlyByFailure
<1>1. IInv => CorruptOnlyByFailure
  <2> SUFFICES ASSUME IInv, failures = 0 PROVE ~Corrupt
    BY DEF CorruptOnlyByFailure
  <2>1. \A r \in Runs : ~Invalid(file[r]) /\ ~Miscounted(file[r]) /\ ~Unpaired(file[r])
    BY CleanReads DEF IInv, Filed, LogType
  <2>2. ASSUME NEW r \in Folded, NEW s \in Folded, r # s PROVE Ordinal(r) # Ordinal(s)
    <3>1. r \in Runs /\ s \in Runs
      BY DEF Folded
    <3>2. /\ Opens(r) /\ Opens(s) /\ Ordinal(r) = file[r][1].num /\ Ordinal(s) = file[s][1].num
          /\ Ordinal(r) \in Nat /\ Ordinal(s) \in Nat
      BY <3>1, FoldedOpens DEF IInv
    <3>3. r < s \/ s < r
      BY <2>2, <3>1, RunLogAssumption DEF Runs
    <3>4. Ordinal(r) < Ordinal(s) \/ Ordinal(s) < Ordinal(r)
      BY <3>1, <3>2, <3>3 DEF IInv, Ordered, Opens
    <3> QED
      BY <3>2, <3>4
  <2> QED
    BY <2>1, <2>2 DEF Corrupt, Folded, Unordered
<1> QED
  BY <1>1, Invariance, PTL

(* An operation, detached or not, runs behind its reservation and under    *)
(* the lease of its run: the withheld release of runPlan.                  *)
THEOREM BodyFencing == Spec => []BodyFenced
<1>1. IInv => BodyFenced
  BY DEF IInv, TaskFenced, BodyFenced
<1> QED
  BY <1>1, Invariance, PTL

(* The governor's ledger and the settled line in the journal name the same *)
(* charge, whatever a detached operation still reports.                    *)
THEOREM LedgerAgreement == Spec => []LedgerMatchesJournal
<1>1. IInv => LedgerMatchesJournal
  BY DEF IInv, Live, LedgerMatchesJournal
<1> QED
  BY <1>1, Invariance, PTL
=============================================================================
