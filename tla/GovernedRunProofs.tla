------------------------- MODULE GovernedRunProofs -------------------------
(***************************************************************************)
(* What a journal that any run may have died over still says, and what a   *)
(* resumed run makes of it, for any jobs and dependencies, any number of   *)
(* runs, crashes, releases and failed appends.                             *)
(*                                                                         *)
(* The properties are about one job's events at a time.  Log says what     *)
(* holds of them whoever reads them, and survives the loss of any suffix.  *)
(* Track ties them to the place of the job in the run in progress.  Cover  *)
(* is what the ledger of a later run would find of the job, were this run  *)
(* to die now.                                                             *)
(***************************************************************************)
EXTENDS GovernedRun, GovernorProofs

Logs == Seq(Event)
Verdicts == {"none", "ok", "notOk", "rejected"}

(* J2 is J with the event e behind it. *)
Extends(J2, J, e) ==
  /\ J2 \in Logs /\ Len(J2) = Len(J) + 1 /\ J2[Len(J2)] = e
  /\ \A i \in 1 .. Len(J) : J2[i] = J[i]

(* An ok finish stands behind a settle that is behind every release and    *)
(* every unresolved reservation of its time.                               *)
FinishFresh(J) ==
  \A i \in Entries(J, "finished") : J[i].ok =>
    \E k \in Entries(J, "settled") :
      /\ k < i
      /\ \A u \in 1 .. i - 1 :
           /\ J[u].type = "released" => u < k
           /\ J[u].type = "opened" =>
                \/ u < k
                \/ \E m \in Entries(J, "settled") : u < m /\ m < i /\ J[m].run = J[u].run

Log(J, r) ==
  /\ \A i \in 1 .. Len(J) : J[i].run <= r
  /\ ~Corrupt(J)
  /\ FinishFresh(J)

(* What no later event of the run r takes back. *)
Clean(J, r) ==
  \A i \in Unresolved(J) : J[i].run < r => \E k \in Entries(J, "released") : k > i

NotYet(J, r) ==
  \A i \in 1 .. Len(J) : J[i].run = r => J[i].type \in {"started", "released"}

InFlight(J, r, usd) ==
  \E i \in Entries(J, "opened") :
    /\ J[i].run = r /\ J[i].usd = usd
    /\ \A m \in 1 .. Len(J) :
         m # i /\ J[m].run = r => J[m].type \in {"started", "released"}

AllSettled(J, r) ==
  \A i \in Entries(J, "opened") : J[i].run = r =>
    \E m \in Entries(J, "settled") : i < m /\ J[m].run = r

FreshSettle(J) ==
  \E k \in Entries(J, "settled") :
    \A i \in Unresolved(J) \union Entries(J, "released") : k > i

TakenBack(J) ==
  \A k \in Entries(J, "finished") : J[k].ok =>
    \E i \in Entries(J, "finished") \union Entries(J, "released") : i > k

(* A job's events J in the run r, resumed as rs says, against its stage,   *)
(* phase, verdict, row and reservation.                                    *)
Waiting == {"idle", "admitted", "slotWait", "slotted", "parked", "reserved"}

Track(J, r, rs, st, ph, vd, rw, o) ==
  /\ Log(J, r)
  /\ ph \notin {"idle", "finished"} => st = "dispatching"
  /\ st \in {"none", "submitted"} => ph = "idle"
  /\ rw = "quarantined" => st = "returned" /\ ph = "idle"
  /\ rw # "quarantined" => Clean(J, r)
  /\ st # "returned" /\ (ph \in Waiting \/ (ph = "refused" /\ vd = "none")) => NotYet(J, r)
  /\ ph \in Waiting \union {"opened", "running"} => vd = "none"
  /\ ph \in {"opened", "running"} => InFlight(J, r, o.usd)
  /\ ph = "settled" => vd \in {"ok", "notOk"} /\ \E usd \in Nat : InFlight(J, r, usd)
  /\ ph = "refused" => vd \in {"none", "rejected"}
  /\ ph = "finished" /\ st = "dispatching" =>
       /\ vd # "none"
       /\ vd # "rejected" => AllSettled(J, r)
       /\ vd = "ok" => FreshSettle(J)
  /\ rw = "done" => st = "returned" /\ FreshSettle(J)
  /\ rs /\ st \in {"submitted", "dispatching"} => TakenBack(J)
-----------------------------------------------------------------------------
(* One job's events.                                                       *)

LEMMA EventAt ==
  \A J \in Logs : \A i \in 1 .. Len(J) :
    J[i] \in Event /\ J[i].run \in Nat /\ J[i].usd \in Nat
<1> SUFFICES ASSUME NEW J \in Logs, NEW i \in 1 .. Len(J)
             PROVE  J[i] \in Event /\ J[i].run \in Nat /\ J[i].usd \in Nat
  OBVIOUS
<1>1. J[i] \in Event
  BY DEF Logs
<1> QED
  BY <1>1 DEF Event

LEMMA AppendExtends ==
  ASSUME NEW J \in Logs, NEW e \in Event
  PROVE  Extends(Append(J, e), J, e)
BY DEF Extends, Logs

LEMMA EntriesExtend ==
  ASSUME NEW J \in Logs, NEW J2, NEW e \in Event, Extends(J2, J, e), NEW type
  PROVE  Entries(J2, type) = Entries(J, type) \union IF e.type = type THEN {Len(J) + 1} ELSE {}
<1>1. Len(J) \in Nat /\ Len(J2) = Len(J) + 1
  BY DEF Extends, Logs
<1>2. \A i : i \in 1 .. Len(J2) <=> i \in 1 .. Len(J) \/ i = Len(J) + 1
  BY <1>1
<1>3. \A i : i \in Entries(J2, type) <=>
               i \in Entries(J, type) \/ (e.type = type /\ i = Len(J) + 1)
  BY <1>1, <1>2 DEF Entries, Extends
<1> QED
  BY <1>3

(* What was settled stays settled, and only an opening is new. *)
LEMMA UnresolvedExtend ==
  ASSUME NEW J \in Logs, NEW J2, NEW e \in Event, Extends(J2, J, e)
  PROVE  /\ e.type # "opened" => Unresolved(J2) \subseteq Unresolved(J)
         /\ e.type # "settled" => Unresolved(J) \subseteq Unresolved(J2)
         /\ Unresolved(J2) \subseteq Unresolved(J) \union {Len(J) + 1}
<1>1. Len(J) \in Nat /\ Len(J2) = Len(J) + 1
  BY DEF Extends, Logs
<1>2. /\ Entries(J2, "opened") =
           Entries(J, "opened") \union IF e.type = "opened" THEN {Len(J) + 1} ELSE {}
      /\ Entries(J2, "settled") =
           Entries(J, "settled") \union IF e.type = "settled" THEN {Len(J) + 1} ELSE {}
  BY EntriesExtend
<1>3. \A i \in 1 .. Len(J) : J2[i] = J[i]
  BY DEF Extends
<1>4. \A t : Entries(J, t) \subseteq 1 .. Len(J)
  BY DEF Entries
<1> QED
  BY <1>1, <1>2, <1>3, <1>4 DEF Unresolved

LEMMA LogExtends ==
  ASSUME NEW J \in Logs, NEW J2, NEW e \in Event, Extends(J2, J, e), NEW r \in Nat,
         Log(J, r), e.run = r,
         e.type = "settled" => \E i \in Entries(J, "opened") : J[i].run = r,
         e.type = "finished" => AllSettled(J, r) /\ (e.ok => FreshSettle(J))
  PROVE  Log(J2, r)
<1>1. Len(J) \in Nat /\ Len(J2) = Len(J) + 1 /\ J2[Len(J) + 1] = e
  BY DEF Extends, Logs
<1>2. \A t : Entries(J2, t) = Entries(J, t) \union IF e.type = t THEN {Len(J) + 1} ELSE {}
  BY EntriesExtend
<1>3. \A i \in 1 .. Len(J) : J2[i] = J[i]
  BY DEF Extends
<1>4. \A t : Entries(J, t) \subseteq 1 .. Len(J)
  BY DEF Entries
<1>5. \A i \in 1 .. Len(J2) : J2[i].run <= r
  BY <1>1, <1>3 DEF Log
<1>6. ~Corrupt(J2)
  <2>1. ASSUME NEW k \in Entries(J2, "settled")
        PROVE  \E i \in Entries(J2, "opened") : i < k /\ J2[i].run = J2[k].run
    <3>1. CASE k \in Entries(J, "settled")
      <4>1. PICK i \in Entries(J, "opened") : i < k /\ J[i].run = J[k].run
        BY <3>1 DEF Log, Corrupt
      <4> QED
        BY <3>1, <4>1, <1>2, <1>3, <1>4
    <3>2. CASE e.type = "settled" /\ k = Len(J) + 1
      <4>1. PICK i \in Entries(J, "opened") : J[i].run = r
        BY <3>2
      <4> QED
        BY <3>2, <4>1, <1>1, <1>2, <1>3, <1>4
    <3> QED
      BY <2>1, <3>1, <3>2, <1>2
  <2>2. ASSUME NEW k \in Entries(J2, "finished"), NEW i \in Entries(J2, "opened"),
               i < k, J2[i].run = J2[k].run
        PROVE  \E m \in Entries(J2, "settled") : i < m /\ m < k /\ J2[m].run = J2[i].run
    <3>0. i \in Entries(J, "opened")
      BY <2>2, <1>1, <1>2, <1>4
    <3>1. CASE k \in Entries(J, "finished")
      <4>1. PICK m \in Entries(J, "settled") : i < m /\ m < k /\ J[m].run = J[i].run
        BY <2>2, <3>0, <3>1, <1>3, <1>4 DEF Log, Corrupt
      <4> QED
        BY <3>0, <4>1, <1>2, <1>3, <1>4
    <3>2. CASE e.type = "finished" /\ k = Len(J) + 1
      <4>1. J[i].run = r
        BY <2>2, <3>0, <3>2, <1>1, <1>3, <1>4
      <4>2. PICK m \in Entries(J, "settled") : i < m /\ J[m].run = r
        BY <3>0, <3>2, <4>1 DEF AllSettled
      <4> QED
        BY <3>0, <3>2, <4>1, <4>2, <1>1, <1>2, <1>3, <1>4
    <3> QED
      BY <2>2, <3>1, <3>2, <1>2
  <2> QED
    BY <2>1, <2>2 DEF Corrupt
<1>7. FinishFresh(J2)
  <2> SUFFICES ASSUME NEW i \in Entries(J2, "finished"), J2[i].ok
               PROVE  \E k \in Entries(J2, "settled") :
                        /\ k < i
                        /\ \A u \in 1 .. i - 1 :
                             /\ J2[u].type = "released" => u < k
                             /\ J2[u].type = "opened" =>
                                  \/ u < k
                                  \/ \E m \in Entries(J2, "settled") :
                                       u < m /\ m < i /\ J2[m].run = J2[u].run
    BY DEF FinishFresh
  <2>1. CASE i \in Entries(J, "finished")
    <3>1. PICK k \in Entries(J, "settled") :
            /\ k < i
            /\ \A u \in 1 .. i - 1 :
                 /\ J[u].type = "released" => u < k
                 /\ J[u].type = "opened" =>
                      \/ u < k
                      \/ \E m \in Entries(J, "settled") : u < m /\ m < i /\ J[m].run = J[u].run
      BY <2>1, <1>3, <1>4 DEF Log, FinishFresh
    <3>2. \A u \in 1 .. i - 1 : u \in 1 .. Len(J)
      BY <2>1, <1>1, <1>4
    <3>3. \A m \in Entries(J, "settled") : m \in Entries(J2, "settled") /\ J2[m] = J[m]
      BY <1>2, <1>3, <1>4
    <3>4. \A u \in 1 .. i - 1 : J2[u] = J[u]
      BY <3>2, <1>3
    <3> QED
      BY <3>1, <3>3, <3>4
  <2>2. CASE e.type = "finished" /\ i = Len(J) + 1
    <3>1. e.ok
      BY <2>2, <1>1
    <3>2. PICK k \in Entries(J, "settled") :
            \A u \in Unresolved(J) \union Entries(J, "released") : k > u
      BY <2>2, <3>1 DEF FreshSettle
    <3>3. \A u \in 1 .. i - 1 : u \in 1 .. Len(J) /\ J2[u] = J[u]
      BY <2>2, <1>1, <1>3
    <3>4. \A m \in Entries(J, "settled") :
            m \in Entries(J2, "settled") /\ J2[m] = J[m] /\ m < i /\ m \in Nat
      BY <2>2, <1>1, <1>2, <1>3, <1>4
    <3>5. ASSUME NEW u \in 1 .. i - 1
          PROVE  /\ J2[u].type = "released" => u < k
                 /\ J2[u].type = "opened" =>
                      \/ u < k
                      \/ \E m \in Entries(J2, "settled") :
                           u < m /\ m < i /\ J2[m].run = J2[u].run
      <4>1. CASE J[u].type = "released"
        <5>1. u \in Entries(J, "released")
          BY <3>3, <4>1 DEF Entries
        <5> QED
          BY <3>2, <3>3, <3>4, <4>1, <5>1
      <4>2. CASE J[u].type = "opened"
        <5>1. u \in Entries(J, "opened")
          BY <3>3, <4>2 DEF Entries
        <5>2. u \in Unresolved(J) \/ \E m \in Entries(J, "settled") : m > u /\ J[m].run = J[u].run
          BY <5>1 DEF Unresolved
        <5> QED
          BY <3>2, <3>3, <3>4, <4>2, <5>2
      <4> QED
        BY <3>3, <4>1, <4>2
    <3> QED
      BY <3>2, <3>4, <3>5
  <2> QED
    BY <2>1, <2>2, <1>2
<1> QED
  BY <1>5, <1>6, <1>7 DEF Log

(* A crash leaves a prefix.                                                *)
LEMMA LogPrefix ==
  ASSUME NEW J \in Logs, NEW r \in Nat, Log(J, r), NEW n \in Int, n <= Len(J),
         NEW J2, J2 = SubSeq(J, 1, n)
  PROVE  J2 \in Logs /\ Log(J2, r)
<1>1. /\ J2 \in Logs /\ Len(J2) <= Len(J) /\ Len(J2) \in Nat
      /\ \A i \in 1 .. Len(J2) : J2[i] = J[i]
  BY DEF Logs
<1>2. \A i \in 1 .. Len(J2) : i \in 1 .. Len(J)
  BY <1>1 DEF Logs
<1>3. \A t, i : i \in Entries(J2, t) <=> i \in Entries(J, t) /\ i <= Len(J2)
  BY <1>1, <1>2 DEF Entries, Logs
<1>4. \A t : Entries(J, t) \subseteq Nat
  BY DEF Entries
<1>5. ~Corrupt(J2)
  <2>1. ASSUME NEW k \in Entries(J2, "settled")
        PROVE  \E i \in Entries(J2, "opened") : i < k /\ J2[i].run = J2[k].run
    <3>1. PICK i \in Entries(J, "opened") : i < k /\ J[i].run = J[k].run
      BY <1>3 DEF Log, Corrupt
    <3> QED
      BY <3>1, <1>1, <1>3, <1>4 DEF Entries
  <2>2. ASSUME NEW k \in Entries(J2, "finished"), NEW i \in Entries(J2, "opened"),
               i < k, J2[i].run = J2[k].run
        PROVE  \E m \in Entries(J2, "settled") : i < m /\ m < k /\ J2[m].run = J2[i].run
    <3>1. J2[i] = J[i] /\ J2[k] = J[k]
      BY <1>1 DEF Entries
    <3>2. k \in Entries(J, "finished") /\ i \in Entries(J, "opened")
      BY <1>3
    <3>3. PICK m \in Entries(J, "settled") : i < m /\ m < k /\ J[m].run = J[i].run
      BY <2>2, <3>1, <3>2 DEF Log, Corrupt
    <3>4. m \in Entries(J2, "settled")
      BY <3>3, <1>1, <1>3, <1>4
    <3> QED
      BY <3>1, <3>3, <3>4, <1>1 DEF Entries
  <2> QED
    BY ONLY <2>1, <2>2, SMTT(30) DEF Corrupt
<1>6. FinishFresh(J2)
  <2> SUFFICES ASSUME NEW i \in Entries(J2, "finished"), J2[i].ok
               PROVE  \E k \in Entries(J2, "settled") :
                        /\ k < i
                        /\ \A u \in 1 .. i - 1 :
                             /\ J2[u].type = "released" => u < k
                             /\ J2[u].type = "opened" =>
                                  \/ u < k
                                  \/ \E m \in Entries(J2, "settled") :
                                       u < m /\ m < i /\ J2[m].run = J2[u].run
    BY DEF FinishFresh
  <2>1. i \in 1 .. Len(J2) /\ i \in Entries(J, "finished") /\ J[i].ok
    BY <1>1, <1>3 DEF Entries
  <2>2. PICK k \in Entries(J, "settled") :
          /\ k < i
          /\ \A u \in 1 .. i - 1 :
               /\ J[u].type = "released" => u < k
               /\ J[u].type = "opened" =>
                    \/ u < k
                    \/ \E m \in Entries(J, "settled") : u < m /\ m < i /\ J[m].run = J[u].run
    BY <2>1 DEF Log, FinishFresh
  <2>3. \A m \in Entries(J, "settled") : m < i => m \in Entries(J2, "settled") /\ J2[m] = J[m]
    BY <2>1, <1>1, <1>3, <1>4 DEF Entries
  <2>4. \A u \in 1 .. i - 1 : J2[u] = J[u]
    BY <2>1, <1>1
  <2>5. ASSUME NEW u \in 1 .. i - 1, J2[u].type = "opened", ~(u < k)
        PROVE  \E m \in Entries(J2, "settled") : u < m /\ m < i /\ J2[m].run = J2[u].run
    <3>1. PICK m \in Entries(J, "settled") : u < m /\ m < i /\ J[m].run = J[u].run
      BY <2>2, <2>4, <2>5
    <3> QED
      BY <3>1, <2>3, <2>4
  <2>6. k \in Entries(J2, "settled") /\ k < i
    BY <2>2, <2>3
  <2>7. \A u \in 1 .. i - 1 : J2[u].type = "released" => u < k
    BY <2>2, <2>4
  <2> QED
    BY <2>5, <2>6, <2>7
<1> QED
  BY <1>1, <1>2, <1>5, <1>6 DEF Log
-----------------------------------------------------------------------------
(* One job's place in its run.                                             *)

(* What an event of the run r does to what is asked of the log.  A place   *)
(* that has not finished yet adds no finish, one behind it none at all.    *)
LEMMA CleanExtends ==
  ASSUME NEW J \in Logs, NEW J2, NEW e \in Event, Extends(J2, J, e), NEW r \in Nat,
         e.run = r
  PROVE  /\ Clean(J, r) => Clean(J2, r)
         /\ TakenBack(J) /\ e.type # "finished" => TakenBack(J2)
         /\ NotYet(J, r) /\ e.type \in {"started", "released"} => NotYet(J2, r)
<1>1. Len(J) \in Nat /\ Len(J2) = Len(J) + 1 /\ J2[Len(J) + 1] = e
  BY DEF Extends, Logs
<1>2. \A t : Entries(J2, t) = Entries(J, t) \union IF e.type = t THEN {Len(J) + 1} ELSE {}
  BY EntriesExtend
<1>3. \A i \in 1 .. Len(J) : J2[i] = J[i]
  BY DEF Extends
<1>4. \A t : Entries(J, t) \subseteq 1 .. Len(J)
  BY DEF Entries
<1>5. Clean(J, r) => Clean(J2, r)
  <2> SUFFICES ASSUME Clean(J, r), NEW i \in Unresolved(J2), J2[i].run < r
               PROVE  \E k \in Entries(J2, "released") : k > i
    BY DEF Clean
  <2>1. i \in Unresolved(J) \/ i = Len(J) + 1
    BY UnresolvedExtend
  <2>2. i # Len(J) + 1
    BY <1>1 DEF Event
  <2>3. i \in 1 .. Len(J) /\ J[i].run < r
    BY <2>1, <2>2, <1>3, <1>4 DEF Unresolved
  <2> QED
    BY <2>1, <2>2, <2>3, <1>2 DEF Clean
<1>6. TakenBack(J) /\ e.type # "finished" => TakenBack(J2)
  BY <1>1, <1>2, <1>3, <1>4 DEF TakenBack
<1>7. NotYet(J, r) /\ e.type \in {"started", "released"} => NotYet(J2, r)
  BY <1>1, <1>3 DEF NotYet
<1> QED
  BY <1>5, <1>6, <1>7

(* A log without this run's dispatch has nothing to settle. *)
LEMMA NotYetSettled ==
  ASSUME NEW J \in Logs, NEW r, NotYet(J, r)
  PROVE  AllSettled(J, r)
BY DEF NotYet, AllSettled, Entries

LEMMA Opens ==
  ASSUME NEW J \in Logs, NEW J2, NEW e \in Event, Extends(J2, J, e), NEW r \in Nat,
         e.run = r, e.type = "opened", NotYet(J, r)
  PROVE  InFlight(J2, r, e.usd)
<1>1. Len(J) \in Nat /\ Len(J2) = Len(J) + 1 /\ J2[Len(J) + 1] = e
  BY DEF Extends, Logs
<1>2. \A i \in 1 .. Len(J) : J2[i] = J[i]
  BY DEF Extends
<1>3. Len(J) + 1 \in Entries(J2, "opened")
  BY <1>1 DEF Entries
<1>4. \A m \in 1 .. Len(J2) : m # Len(J) + 1 => m \in 1 .. Len(J)
  BY <1>1
<1> QED
  BY <1>1, <1>2, <1>3, <1>4 DEF InFlight, NotYet

(* reservation-settled stands behind everything unresolved or released.    *)
LEMMA Settles ==
  ASSUME NEW J \in Logs, NEW J2, NEW e \in Event, Extends(J2, J, e), NEW r \in Nat,
         e.run = r, e.type = "settled", NEW usd, InFlight(J, r, usd)
  PROVE  /\ \E i \in Entries(J, "opened") : J[i].run = r
         /\ AllSettled(J2, r) /\ FreshSettle(J2)
<1>1. Len(J) \in Nat /\ Len(J2) = Len(J) + 1 /\ J2[Len(J) + 1] = e
  BY DEF Extends, Logs
<1>2. \A t : Entries(J2, t) = Entries(J, t) \union IF e.type = t THEN {Len(J) + 1} ELSE {}
  BY EntriesExtend
<1>3. \A i \in 1 .. Len(J) : J2[i] = J[i]
  BY DEF Extends
<1>4. \A t : Entries(J, t) \subseteq 1 .. Len(J)
  BY DEF Entries
<1>5. \E i \in Entries(J, "opened") : J[i].run = r
  BY DEF InFlight
<1>6. Len(J) + 1 \in Entries(J2, "settled")
  BY <1>2
<1>7. AllSettled(J2, r)
  BY <1>1, <1>2, <1>4, <1>6 DEF AllSettled
<1>8. Unresolved(J2) \subseteq Unresolved(J) /\ Unresolved(J) \subseteq 1 .. Len(J)
  BY <1>4, UnresolvedExtend DEF Unresolved
<1>9. FreshSettle(J2)
  BY <1>1, <1>2, <1>4, <1>6, <1>8 DEF FreshSettle
<1> QED
  BY <1>5, <1>7, <1>9

LEMMA FreshExtends ==
  ASSUME NEW J \in Logs, NEW J2, NEW e \in Event, Extends(J2, J, e),
         e.type \notin {"opened", "released"}, FreshSettle(J)
  PROVE  FreshSettle(J2)
<1>1. /\ Entries(J2, "released") = Entries(J, "released")
      /\ Entries(J, "settled") \subseteq Entries(J2, "settled")
  <2>1. \A t : Entries(J2, t) = Entries(J, t) \union IF e.type = t THEN {Len(J) + 1} ELSE {}
    BY EntriesExtend
  <2> QED
    BY <2>1
<1>2. Unresolved(J2) \subseteq Unresolved(J)
  BY UnresolvedExtend
<1> QED
  BY <1>1, <1>2 DEF FreshSettle

(* A replayed finish is as fresh as it was: whatever was opened since was  *)
(* released since, and a release would have forbidden the replay.          *)
LEMMA ReplayFresh ==
  ASSUME NEW J \in Logs, run \in Nat, Log(J, run), NotYet(J, run), Clean(J, run), Replayable(J)
  PROVE  FreshSettle(J)
<1>1. PICK i \in PastEntries(J, "finished") :
        /\ J[i].ok
        /\ ~\E k \in PastEntries(J, "finished") \union PastEntries(J, "released") : k > i
  BY DEF Replayable
<1>2. i \in Entries(J, "finished") /\ i \in 1 .. Len(J) /\ J[i].type = "finished"
  BY DEF PastEntries, Entries
<1>3. PICK k \in Entries(J, "settled") :
        /\ k < i
        /\ \A u \in 1 .. i - 1 :
             /\ J[u].type = "released" => u < k
             /\ J[u].type = "opened" =>
                  \/ u < k
                  \/ \E m \in Entries(J, "settled") : u < m /\ m < i /\ J[m].run = J[u].run
  BY <1>1, <1>2 DEF Log, FinishFresh
<1>4. \A u \in Entries(J, "released") : u < i
  <2>1. \A u \in Entries(J, "released") : u \in PastEntries(J, "released")
    BY DEF PastEntries, Past, Entries
  <2> QED
    BY <2>1, <1>1, <1>2 DEF Entries
<1>5. ASSUME NEW u \in Entries(J, "released") PROVE k > u
  BY <1>2, <1>3, <1>4 DEF Entries
<1>6. ASSUME NEW u \in Unresolved(J) PROVE k > u
  <2>1. /\ u \in 1 .. Len(J) /\ J[u].type = "opened"
        /\ ~\E m \in Entries(J, "settled") : m > u /\ J[m].run = J[u].run
    BY DEF Unresolved, Entries
  <2>2. J[u].run < run
    BY <2>1, EventAt DEF NotYet, Log
  <2>3. PICK m \in Entries(J, "released") : m > u
    BY <2>2 DEF Clean
  <2>4. u \in 1 .. i - 1
    BY <1>2, <1>4, <2>1, <2>3 DEF Entries
  <2> QED
    BY <1>3, <2>1, <2>4 DEF Entries
<1> QED
  BY <1>5, <1>6 DEF FreshSettle

(* A job that is not replayed has no ok finish that still counts. *)
LEMMA NotReplayed ==
  ASSUME NEW J \in Logs, run \in Nat, Log(J, run), NotYet(J, run), ~Replayable(J)
  PROVE  TakenBack(J)
<1>1. \A i \in 1 .. Len(J) : J[i].run < run \/ J[i].type \in {"started", "released"}
  BY EventAt DEF NotYet, Log
<1>2. /\ Entries(J, "finished") = PastEntries(J, "finished")
      /\ Entries(J, "released") = PastEntries(J, "released")
  BY <1>1 DEF PastEntries, Past, Entries
<1> QED
  BY <1>2 DEF Replayable, TakenBack
-----------------------------------------------------------------------------
(* The steps of one job.  A phase drifts within what has no event yet, is  *)
(* refused there, or enters its body.                                      *)
Drift(p, p2, o, o2) ==
  /\ \/ p2 = p
     \/ p \in Waiting \ {"idle"} /\ p2 \in (Waiting \ {"idle"}) \union {"refused"}
     \/ p = "opened" /\ p2 = "running"
  /\ p2 \in {"opened", "running"} => o2.usd = o.usd

LEMMA TrackDrift ==
  ASSUME NEW J \in Logs, NEW r \in Nat, NEW rs, NEW st, NEW ph, NEW vd, NEW rw, NEW o,
         Track(J, r, rs, st, ph, vd, rw, o),
         NEW ph2, NEW o2, Drift(ph, ph2, o, o2)
  PROVE  Track(J, r, rs, st, ph2, vd, rw, o2)
BY DEF Track, Drift, Waiting

LEMMA TrackReturn ==
  ASSUME NEW J \in Logs, NEW r \in Nat, NEW rs, NEW st, NEW ph, NEW vd, NEW rw, NEW o,
         Track(J, r, rs, st, ph, vd, rw, o),
         st \in {"none", "submitted"}, NEW rw2 \in {rw, "blocked"}
  PROVE  Track(J, r, rs, "returned", ph, vd, rw2, o)
BY DEF Track, Waiting

LEMMA TrackSubmit ==
  ASSUME NEW J \in Logs, NEW r \in Nat, NEW rs, NEW st, NEW ph, NEW vd, NEW rw, NEW o,
         Track(J, r, rs, st, ph, vd, rw, o),
         st = "none", rs => TakenBack(J)
  PROVE  Track(J, r, rs, "submitted", ph, vd, rw, o)
BY DEF Track, Waiting

LEMMA TrackReplay ==
  ASSUME NEW J \in Logs, NEW r \in Nat, NEW rs, NEW st, NEW ph, NEW vd, NEW rw, NEW o,
         Track(J, r, rs, st, ph, vd, rw, o),
         st = "none", FreshSettle(J),
         NEW J2, NEW e \in Event, Extends(J2, J, e), e.run = r, e.type = "finished"
  PROVE  Track(J2, r, rs, "returned", ph, vd, "done", o)
<1>1. Log(J, r) /\ Clean(J, r) /\ NotYet(J, r) /\ ph = "idle" /\ vd = "none"
  BY DEF Track, Waiting
<1>2. AllSettled(J, r)
  BY <1>1, NotYetSettled
<1>3. Log(J2, r) /\ Clean(J2, r)
  BY <1>1, <1>2, LogExtends, CleanExtends
<1>4. FreshSettle(J2)
  BY FreshExtends
<1> QED
  BY <1>1, <1>3, <1>4 DEF Track, Waiting

LEMMA TrackAdmit ==
  ASSUME NEW J \in Logs, NEW r \in Nat, NEW rs, NEW st, NEW ph, NEW vd, NEW rw, NEW o,
         Track(J, r, rs, st, ph, vd, rw, o),
         st = "submitted",
         NEW J2, NEW e \in Event, Extends(J2, J, e), e.run = r, e.type = "started"
  PROVE  Track(J2, r, rs, "dispatching", "admitted", vd, rw, o)
<1>1. /\ Log(J, r) /\ Clean(J, r) /\ NotYet(J, r) /\ ph = "idle" /\ vd = "none"
      /\ rs => TakenBack(J)
  BY DEF Track, Waiting
<1>2. /\ Log(J2, r) /\ Clean(J2, r) /\ NotYet(J2, r)
      /\ rs => TakenBack(J2)
  BY <1>1, LogExtends, CleanExtends
<1> QED
  BY <1>1, <1>2 DEF Track, Waiting

LEMMA TrackRefuse ==
  ASSUME NEW J \in Logs, NEW r \in Nat, NEW rs, NEW st, NEW ph, NEW vd, NEW rw, NEW o,
         Track(J, r, rs, st, ph, vd, rw, o),
         st = "submitted", NEW rw2 \in {rw, "notOk"},
         NEW J2, \/ J2 = J
                 \/ \E e \in Event :
                      Extends(J2, J, e) /\ e.run = r /\ e.type = "finished" /\ ~e.ok
  PROVE  Track(J2, r, rs, "returned", "finished", vd, rw2, o)
<1>1. Log(J, r) /\ Clean(J, r) /\ NotYet(J, r) /\ rw # "done" /\ rw # "quarantined"
  BY DEF Track, Waiting
<1>2. AllSettled(J, r)
  BY <1>1, NotYetSettled
<1>3. Log(J2, r) /\ Clean(J2, r)
  BY <1>1, <1>2, LogExtends, CleanExtends
<1> QED
  BY <1>1, <1>3 DEF Track, Waiting

LEMMA TrackOpened ==
  ASSUME NEW J \in Logs, NEW r \in Nat, NEW rs, NEW st, NEW ph, NEW vd, NEW rw, NEW o,
         Track(J, r, rs, st, ph, vd, rw, o),
         ph = "reserved",
         NEW J2, NEW e \in Event, Extends(J2, J, e), e.run = r, e.type = "opened", e.usd = o.usd
  PROVE  Track(J2, r, rs, st, "opened", vd, rw, o)
<1>1. /\ Log(J, r) /\ NotYet(J, r) /\ st = "dispatching" /\ vd = "none"
      /\ rw \notin {"quarantined", "done"} /\ Clean(J, r)
      /\ rs => TakenBack(J)
  BY DEF Track, Waiting
<1>2. /\ Log(J2, r) /\ Clean(J2, r)
      /\ rs => TakenBack(J2)
  BY <1>1, LogExtends, CleanExtends
<1>3. InFlight(J2, r, o.usd)
  BY <1>1, Opens
<1> QED
  BY <1>1, <1>2, <1>3 DEF Track, Waiting

LEMMA TrackAbandon ==
  ASSUME NEW J \in Logs, NEW r \in Nat, NEW rs, NEW st, NEW ph, NEW vd, NEW rw, NEW o,
         Track(J, r, rs, st, ph, vd, rw, o),
         ph \in {"reserved", "opened"}, NEW o2
  PROVE  Track(J, r, rs, st, "refused", "rejected", rw, o2)
BY DEF Track, Waiting

LEMMA TrackEnd ==
  ASSUME NEW J \in Logs, NEW r \in Nat, NEW rs, NEW st, NEW ph, NEW vd, NEW rw, NEW o,
         Track(J, r, rs, st, ph, vd, rw, o),
         ph \in {"opened", "running"}, o.usd \in Nat, NEW vd2 \in {"ok", "notOk"}, NEW o2
  PROVE  Track(J, r, rs, st, "settled", vd2, rw, o2)
BY DEF Track, Waiting

LEMMA TrackSettled ==
  ASSUME NEW J \in Logs, NEW r \in Nat, NEW rs, NEW st, NEW ph, NEW vd, NEW rw, NEW o,
         Track(J, r, rs, st, ph, vd, rw, o),
         ph = "settled",
         NEW J2, NEW e \in Event, Extends(J2, J, e), e.run = r, e.type = "settled"
  PROVE  Track(J2, r, rs, st, "finished", vd, rw, o)
<1>1. PICK usd \in Nat : InFlight(J, r, usd)
  BY DEF Track
<1>2. /\ Log(J, r) /\ st = "dispatching" /\ vd \in {"ok", "notOk"}
      /\ rw \notin {"quarantined", "done"} /\ Clean(J, r)
      /\ rs => TakenBack(J)
  BY DEF Track
<1>3. /\ \E i \in Entries(J, "opened") : J[i].run = r
      /\ AllSettled(J2, r) /\ FreshSettle(J2)
  BY <1>1, Settles
<1>4. /\ Log(J2, r) /\ Clean(J2, r)
      /\ rs => TakenBack(J2)
  BY <1>2, <1>3, LogExtends, CleanExtends
<1> QED
  BY <1>2, <1>3, <1>4 DEF Track, Waiting

LEMMA TrackReject ==
  ASSUME NEW J \in Logs, NEW r \in Nat, NEW rs, NEW st, NEW ph, NEW vd, NEW rw, NEW o,
         Track(J, r, rs, st, ph, vd, rw, o),
         ph = "settled"
  PROVE  Track(J, r, rs, st, "finished", "rejected", rw, o)
BY DEF Track, Waiting

LEMMA TrackLeave ==
  ASSUME NEW J \in Logs, NEW r \in Nat, NEW rs, NEW st, NEW ph, NEW vd, NEW rw, NEW o,
         Track(J, r, rs, st, ph, vd, rw, o),
         ph = "refused", NEW vd2, vd2 = IF vd = "rejected" THEN vd ELSE "notOk"
  PROVE  Track(J, r, rs, st, "finished", vd2, rw, o)
<1>1. vd = "none" => AllSettled(J, r)
  BY NotYetSettled DEF Track
<1> QED
  BY <1>1 DEF Track, Waiting

LEMMA TrackQuit ==
  ASSUME NEW J \in Logs, NEW r \in Nat, NEW rs, NEW st, NEW ph, NEW vd, NEW rw, NEW o,
         Track(J, r, rs, st, ph, vd, rw, o),
         ph = "finished"
  PROVE  Track(J, r, rs, "returned", ph, vd, rw, o)
BY DEF Track, Waiting

LEMMA TrackFinish ==
  ASSUME NEW J \in Logs, NEW r \in Nat, NEW rs, NEW st, NEW ph, NEW vd, NEW rw, NEW o,
         Track(J, r, rs, st, ph, vd, rw, o),
         ph = "finished", st = "dispatching", vd # "rejected",
         NEW J2, NEW e \in Event, Extends(J2, J, e), e.run = r, e.type = "finished",
         e.ok <=> vd = "ok",
         NEW rw2, rw2 = IF vd = "ok" THEN "done" ELSE "notOk"
  PROVE  Track(J2, r, rs, "returned", ph, vd, rw2, o)
<1>1. /\ Log(J, r) /\ AllSettled(J, r) /\ (vd = "ok" => FreshSettle(J))
      /\ rw # "quarantined" /\ Clean(J, r)
  BY DEF Track
<1>2. Log(J2, r) /\ Clean(J2, r)
  BY <1>1, LogExtends, CleanExtends
<1>3. vd = "ok" => FreshSettle(J2)
  BY <1>1, FreshExtends
<1> QED
  BY <1>1, <1>2, <1>3 DEF Track, Waiting
-----------------------------------------------------------------------------
(* The governor's steps: what they do to the other jobs is a drift.        *)

Drifts(k) == Drift(phase[k], phase'[k], open[k], open'[k])

LEMMA TripEffect ==
  ASSUME Inv, NEW kind, NEW ph, TripWith(kind, ph), NEW k \in Jobs
  PROVE  phase'[k] = ph[k] \/ (phase[k] = "parked" /\ phase'[k] = "refused")
<1>1. \A i \in WaitingIn(reserveWaiters) : phase[i] = "parked"
  BY DEF Inv, Queued, WaitingIn
<1> QED
  BY <1>1 DEF TripWith

LEMMA DrainEffect ==
  ASSUME Inv, NEW o, NEW spent, NEW ph, Drain(o, spent, ph), NEW k \in Jobs
  PROVE  \/ phase'[k] = ph[k] /\ open'[k] = o[k]
         \/ phase[k] = "parked" /\ phase'[k] = "refused" /\ open'[k] = o[k]
         \/ phase[k] = "parked" /\ phase'[k] = "reserved" /\ open'[k].foldedUsd = 0
<1>1. CASE Tripped \/ Exhausted(o, spent)
  BY <1>1, TripEffect DEF Drain
<1>2. CASE ~(Tripped \/ Exhausted(o, spent))
  <2>1. PICK n \in 0 .. Len(reserveWaiters) :
          /\ open' = [j \in Jobs |->
                       IF j \in WaitingIn(SubSeq(reserveWaiters, 1, n))
                         THEN [usd |-> GrantUsd(o, spent), foldedUsd |-> 0] ELSE o[j]]
          /\ phase' = [j \in Jobs |->
                        IF j \in WaitingIn(SubSeq(reserveWaiters, 1, n)) THEN "reserved"
                                                                         ELSE ph[j]]
    BY <1>2 DEF Drain, Wakes
  <2>2. reserveWaiters \in Seq(Jobs) /\ Len(reserveWaiters) \in Nat
    BY DEF Inv, Queued
  <2>3. /\ Len(SubSeq(reserveWaiters, 1, n)) = n
        /\ \A i \in 1 .. n : SubSeq(reserveWaiters, 1, n)[i] = reserveWaiters[i]
    BY <2>2
  <2>4. \A i \in WaitingIn(SubSeq(reserveWaiters, 1, n)) : phase[i] = "parked"
    BY <2>2, <2>3 DEF Inv, Queued, WaitingIn
  <2> QED
    BY <2>1, <2>4
<1> QED
  BY <1>1, <1>2

LEMMA OpenReservation ==
  ASSUME Money, NEW j \in Jobs, phase[j] \in OpenPhases
  PROVE  open[j] \in Reservation /\ open[j].usd \in Nat \ {0} /\ open[j].foldedUsd \in Nat
<1>1. open[j] \in Reservation \union {NoReservation} /\ open[j] # NoReservation
  BY DEF Money, Gate, Shape, OpenType
<1> QED
  BY <1>1 DEF Reservation

LEMMA ReserveDrift ==
  ASSUME Money, NEW j \in Jobs, Reserve(j), NEW k \in Jobs
  PROVE  Drifts(k)
<1>1. Inv /\ phase[j] = "slotted" /\ phase \in [Jobs -> Phases]
      /\ open \in OpenType
  BY DEF Money, Inv, Reserve, Gate, Shape
<1>2. CASE NoTrip([phase EXCEPT ![j] = "refused"]) /\ UNCHANGED open
  BY <1>1, <1>2 DEF NoTrip, Drifts, Drift, Waiting
<1>3. CASE /\ open' = Granted(open, usdSpent, j)
           /\ NoTrip([phase EXCEPT ![j] = "reserved"])
  BY <1>1, <1>3 DEF Granted, OpenType, NoTrip, Drifts, Drift, Waiting
<1>4. CASE TripWith("exhausted", [phase EXCEPT ![j] = "refused"]) /\ UNCHANGED open
  <2>1. \/ phase'[k] = [phase EXCEPT ![j] = "refused"][k]
        \/ phase[k] = "parked" /\ phase'[k] = "refused"
    BY <1>1, <1>4, TripEffect
  <2> QED
    BY <1>1, <1>4, <2>1 DEF Drifts, Drift, Waiting
<1>5. CASE phase' = [phase EXCEPT ![j] = "parked"] /\ UNCHANGED open
  BY <1>1, <1>5 DEF Drifts, Drift, Waiting
<1> QED
  BY <1>2, <1>3, <1>4, <1>5 DEF Reserve

LEMMA SettleDrift ==
  ASSUME Money, NEW j \in Jobs, NEW basis, Settle(j, basis)
  PROVE  phase'[j] = "settled" /\ \A k \in Jobs \ {j} : Drifts(k)
<1> DEFINE o  == [open EXCEPT ![j] = NoReservation]
           ph == [phase EXCEPT ![j] = "settled"]
<1>1. /\ Inv /\ phase[j] # "parked" /\ phase \in [Jobs -> Phases] /\ open \in OpenType
  BY DEF Money, Inv, Settle, Gate, Shape
<1>2. /\ o[j] = NoReservation /\ ph[j] = "settled"
      /\ \A k \in Jobs \ {j} : o[k] = open[k] /\ ph[k] = phase[k]
  BY <1>1 DEF OpenType
<1>3. \/ \E kind : TripWith(kind, ph) /\ open' = o
      \/ \E spent : Drain(o, spent, ph)
  BY DEF Settle, SettleGate
<1> HIDE DEF o, ph
<1>4. \A k \in Jobs : \/ phase'[k] = ph[k] /\ open'[k] = o[k]
                      \/ phase[k] = "parked" /\ phase'[k] \in {"refused", "reserved"}
  BY <1>1, <1>3, TripEffect, DrainEffect
<1> QED
  BY <1>1, <1>2, <1>4 DEF Drifts, Drift, Waiting

LEMMA AbandonDrift ==
  ASSUME Money, NEW j \in Jobs, AbandonReservation(j)
  PROVE  phase'[j] = "refused" /\ \A k \in Jobs \ {j} : Drifts(k)
<1> DEFINE o  == [open EXCEPT ![j] = NoReservation]
           ph == [phase EXCEPT ![j] = "refused"]
<1>1. /\ Inv /\ phase[j] # "parked" /\ phase \in [Jobs -> Phases] /\ open \in OpenType
  BY DEF Money, Inv, AbandonReservation, Gate, Shape
<1>2. /\ o[j] = NoReservation /\ ph[j] = "refused"
      /\ \A k \in Jobs \ {j} : o[k] = open[k] /\ ph[k] = phase[k]
  BY <1>1 DEF OpenType
<1>3. Drain(o, usdSpent, ph)
  BY DEF AbandonReservation
<1> HIDE DEF o, ph
<1>4. \A k \in Jobs : \/ phase'[k] = ph[k] /\ open'[k] = o[k]
                      \/ phase[k] = "parked" /\ phase'[k] \in {"refused", "reserved"}
  BY <1>1, <1>3, DrainEffect
<1> QED
  BY <1>1, <1>2, <1>4 DEF Drifts, Drift, Waiting

LEMMA ReleaseDrift ==
  ASSUME Money, NEW j \in Jobs, ReleaseSlot(j)
  PROVE  phase'[j] = "finished" /\ \A k \in Jobs \ {j} : Drifts(k)
<1>1. /\ phase \in [Jobs -> Phases] /\ phase[j] # "slotWait" /\ UNCHANGED open
  BY DEF Money, Inv, ReleaseSlot
<1>2. CASE slotWaiters # <<>>
  <2>1. Head(slotWaiters) \in Jobs /\ phase[Head(slotWaiters)] = "slotWait"
    BY <1>2 DEF Money, Inv, Queued
  <2>2. phase' = [phase EXCEPT ![j] = "finished", ![Head(slotWaiters)] = "slotted"]
    BY <1>2 DEF ReleaseSlot
  <2> QED
    BY <1>1, <2>1, <2>2 DEF Drifts, Drift, Waiting
<1>3. CASE slotWaiters = <<>>
  BY <1>1, <1>3 DEF ReleaseSlot, Drifts, Drift
<1> QED
  BY <1>2, <1>3

LEMMA ObserveDrift ==
  ASSUME Money, NEW j \in Jobs, NEW usage, NEW cost, Observe(j, usage, cost), NEW k \in Jobs
  PROVE  Drifts(k)
<1>1. /\ Inv /\ phase \in [Jobs -> Phases] /\ open \in OpenType
      /\ open[j] \in Reservation
  BY OpenReservation DEF Money, Inv, Gate, Shape, Observe, OpenPhases
<1>2. open'[k] = open[k] \/ open'[k].usd = open[k].usd
  BY <1>1 DEF Observe, OpenType, Reservation
<1>3. phase'[k] = phase[k] \/ (phase[k] = "parked" /\ phase'[k] = "refused")
  BY <1>1, TripEffect DEF Observe, NoTrip
<1> QED
  BY <1>2, <1>3 DEF Drifts, Drift, Waiting

LEMMA SignalDrift ==
  ASSUME Money, TripSignal, NEW k \in Jobs
  PROVE  Drifts(k)
<1>1. phase'[k] = phase[k] \/ (phase[k] = "parked" /\ phase'[k] = "refused")
  BY TripEffect DEF Money, TripSignal
<1> QED
  BY <1>1 DEF Drifts, Drift, Waiting, TripSignal

LEMMA QuietDrift ==
  ASSUME Money, NEW j \in Jobs, AcquireSlot(j) \/ EnterBody(j), NEW k \in Jobs
  PROVE  Drifts(k)
<1>1. phase \in [Jobs -> Phases]
  BY DEF Money, Inv
<1> QED
  BY <1>1 DEF AcquireSlot, EnterBody, NoTrip, Drifts, Drift, Waiting
-----------------------------------------------------------------------------
(* The run.                                                                *)

RunTypes ==
  /\ journal \in [Jobs -> Logs] /\ unsynced \in Seq(Jobs)
  /\ run \in Nat /\ up \in BOOLEAN /\ resume \in BOOLEAN
  /\ stage \in [Jobs -> Stages] /\ row \in [Jobs -> Rows] /\ verdict \in [Jobs -> Verdicts]
  /\ stop \in BOOLEAN /\ runFailed \in BOOLEAN
  /\ spentEver \in Nat /\ lost \in Nat

Tracked(j) ==
  Track(journal[j], run, resume, stage[j], phase[j], verdict[j], row[j], open[j])

(* Nothing of a job whose reservation is written ahead is left to sync.    *)
Synced(j) ==
  phase[j] \in {"opened", "running"} => \A i \in 1 .. Len(unsynced) : unsynced[i] # j

RunInv ==
  /\ RunTypes
  /\ Money
  /\ \A j \in Jobs : IF up THEN Tracked(j) /\ Synced(j)
                       ELSE /\ Log(journal[j], run)
                            /\ row[j] = "none" /\ phase[j] = "idle"

(* The rest of a job's run stays; the governor may move it.                *)
Stays(k) ==
  /\ journal'[k] = journal[k] /\ stage'[k] = stage[k]
  /\ verdict'[k] = verdict[k] /\ row'[k] = row[k]

LEMMA StaysTracked ==
  ASSUME RunInv, NEW k \in Jobs, Tracked(k), UNCHANGED <<run, resume>>, Stays(k), Drifts(k)
  PROVE  Tracked(k)'
<1>1. Track(journal[k], run, resume, stage[k], phase'[k], verdict[k], row[k], open'[k])
  BY TrackDrift DEF Tracked, Drifts, RunInv, RunTypes
<1> QED
  BY <1>1 DEF Tracked, Stays

(* Whose place is not ahead of its body, or whose events are synced.       *)
LEMMA StaysSynced ==
  ASSUME RunInv, NEW k \in Jobs, Synced(k), Drifts(k),
         \/ unsynced' = unsynced \/ unsynced' = <<>>
         \/ \E j \in Jobs \ {k} : unsynced' = Append(unsynced, j)
  PROVE  Synced(k)'
<1>1. phase'[k] \in {"opened", "running"} => phase[k] \in {"opened", "running"}
  BY DEF Drifts, Drift, Waiting
<1>2. ASSUME NEW i \in 1 .. Len(unsynced'), unsynced'[i] = k
      PROVE  \E m \in 1 .. Len(unsynced) : unsynced[m] = k
  <2>1. CASE unsynced' = unsynced \/ unsynced' = <<>>
    BY <1>2, <2>1
  <2>2. ASSUME NEW j \in Jobs \ {k}, unsynced' = Append(unsynced, j)
        PROVE  \E m \in 1 .. Len(unsynced) : unsynced[m] = k
    <3>1. unsynced \in Seq(Jobs)
      BY DEF RunInv, RunTypes
    <3>2. /\ Len(unsynced') = Len(unsynced) + 1 /\ unsynced'[Len(unsynced) + 1] = j
          /\ \A m \in 1 .. Len(unsynced) : unsynced'[m] = unsynced[m]
      BY <2>2, <3>1
    <3>3. i \in 1 .. Len(unsynced)
      BY <1>2, <3>1, <3>2
    <3> QED
      BY <1>2, <3>2, <3>3
  <2> QED
    BY <2>1, <2>2
<1> QED
  BY <1>1, <1>2 DEF Synced

(* A step of one job j in a run that goes on.                              *)
LEMMA OneJob ==
  ASSUME RunInv, up, NEW j \in Jobs, RunTypes', Money', UNCHANGED <<run, up, resume>>,
         \A k \in Jobs \ {j} : Stays(k) /\ Drifts(k),
         unsynced' = unsynced \/ unsynced' = <<>> \/ unsynced' = Append(unsynced, j),
         Tracked(j)', Synced(j)'
  PROVE  RunInv'
<1>1. \A k \in Jobs \ {j} : Tracked(k)' /\ Synced(k)'
  BY StaysTracked, StaysSynced DEF RunInv
<1> QED
  BY <1>1 DEF RunInv

(* A step of the governor that the run does not notice.                    *)
LEMMA AllDrift ==
  ASSUME RunInv, up, RunTypes', Money', UNCHANGED <<run, up, resume, unsynced>>,
         \A k \in Jobs : Stays(k) /\ Drifts(k)
  PROVE  RunInv'
<1>1. \A k \in Jobs : Tracked(k)' /\ Synced(k)'
  BY StaysTracked, StaysSynced DEF RunInv
<1> QED
  BY <1>1 DEF RunInv

(* Every step of a run in progress is a step of its governor, or none.     *)
LEMMA GovernorStep ==
  ASSUME Money, RunNext, up, up'
  PROVE  Money'
<1>1. [Next]_govVars
  <2>1. ASSUME NEW j \in Jobs, JobStep(j) PROVE [Next]_govVars
    BY <2>1 DEF JobStep, Submit, Withdraw, Dispatch, TakeSlot, AskReservation, WriteOpened,
       Abandon, Invoke, End, WriteSettled, LeaveRefused, Finish, Next, Step
  <2>2. ASSUME NEW j \in Jobs, NEW cost \in Costs, Report(j, cost) PROVE [Next]_govVars
    BY <2>2 DEF Report, Next
  <2>3. CASE FailRun \/ Cancel
    BY <2>3 DEF FailRun, Cancel, Next
  <2> QED
    BY <2>1, <2>2, <2>3 DEF RunNext, StartRun, EndRun, Crash, Forget
<1> QED
  BY <1>1, KeepsMoney
-----------------------------------------------------------------------------
(* The steps of the run.                                                   *)

LEMMA Emitted ==
  ASSUME RunTypes, NEW j \in Jobs, NEW type \in EventTypes, NEW usd \in Nat, NEW ok \in BOOLEAN,
         Appended(j, type, usd, ok)
  PROVE  /\ journal' \in [Jobs -> Logs]
         /\ \A k \in Jobs \ {j} : journal'[k] = journal[k]
         /\ \E e \in Event : /\ e.type = type /\ e.run = run /\ e.usd = usd /\ e.ok = ok
                             /\ Extends(journal'[j], journal[j], e)
<1> DEFINE e == [type |-> type, run |-> run, usd |-> usd, ok |-> ok]
<1>1. e \in Event /\ journal[j] \in Logs
  BY DEF RunTypes, Event
<1>2. /\ journal'[j] = Append(journal[j], e)
      /\ \A k \in Jobs \ {j} : journal'[k] = journal[k]
  BY DEF RunTypes, Appended
<1>3. Append(journal[j], e) \in Logs
  BY <1>1 DEF Logs
<1>4. journal' \in [Jobs -> Logs]
  BY <1>2, <1>3 DEF RunTypes, Appended
<1>5. Extends(journal'[j], journal[j], e)
  BY <1>1, <1>2, AppendExtends
<1> QED
  BY <1>1, <1>2, <1>4, <1>5

LEMMA AppendUnsynced ==
  ASSUME RunTypes, NEW j \in Jobs, unsynced' = Append(unsynced, j)
  PROVE  unsynced' \in Seq(Jobs)
<1>1. unsynced \in Seq(Jobs)
  BY DEF RunTypes
<1> QED
  BY <1>1

LEMMA SubmitInv == ASSUME RunInv, NEW j \in Jobs, Submit(j), Money' PROVE RunInv'
<1>1. /\ up /\ stage[j] = "none" /\ RunTypes /\ Tracked(j) /\ Synced(j)
      /\ UNCHANGED <<run, up, resume, verdict, phase, open>>
      /\ UNCHANGED <<stop, runFailed, spentEver, lost>>
  BY DEF RunInv, Submit, CanSubmit, govVars
<1>2. /\ Log(journal[j], run) /\ NotYet(journal[j], run) /\ Clean(journal[j], run)
      /\ phase[j] = "idle" /\ journal[j] \in Logs /\ run \in Nat
  BY <1>1 DEF Tracked, Track, Waiting, RunTypes
<1>3. \A k \in Jobs : Drifts(k)
  BY <1>1 DEF Drifts, Drift
<1>4. CASE Return(j) /\ UNCHANGED <<journal, unsynced>> /\ (row' = row \/ Classify(j, "blocked"))
  <2>1. RunTypes' /\ \A k \in Jobs \ {j} : Stays(k)
    BY <1>1, <1>4 DEF RunTypes, Return, Classify, Stages, Rows, Stays
  <2>2. stage'[j] = "returned" /\ row'[j] \in {row[j], "blocked"}
    BY <1>1, <1>4 DEF RunTypes, Return, Classify
  <2>3. Tracked(j)'
    BY <1>1, <1>2, <1>4, <2>2, TrackReturn DEF Tracked
  <2>4. Synced(j)'
    BY <1>1, <1>4 DEF Synced
  <2> QED
    BY <1>1, <1>3, <1>4, <2>1, <2>3, <2>4, OneJob
<1>5. CASE Replays(j) /\ Emit(j, "finished", TRUE) /\ Return(j) /\ Classify(j, "done")
  <2>1. PICK e \in Event : /\ e.type = "finished" /\ e.run = run /\ e.ok = TRUE
                           /\ Extends(journal'[j], journal[j], e)
    BY <1>1, <1>5, Emitted DEF Emit, EventTypes
  <2>2. journal' \in [Jobs -> Logs] /\ \A k \in Jobs \ {j} : journal'[k] = journal[k]
    BY <1>1, <1>5, Emitted DEF Emit, EventTypes
  <2>3. unsynced' = Append(unsynced, j)
    BY <1>5 DEF Emit
  <2>4. unsynced' \in Seq(Jobs)
    BY <1>1, <2>3, AppendUnsynced
  <2>5. RunTypes'
    BY <1>1, <1>5, <2>2, <2>4 DEF RunTypes, Return, Classify, Stages, Rows
  <2>6. \A k \in Jobs \ {j} : Stays(k)
    BY <1>1, <1>5, <2>2 DEF Return, Classify, Stays, RunTypes
  <2>7. stage'[j] = "returned" /\ row'[j] = "done"
    BY <1>1, <1>5 DEF RunTypes, Return, Classify
  <2>8. FreshSettle(journal[j])
    BY <1>2, <1>5, ReplayFresh DEF Replays
  <2>9. Track(journal'[j], run, resume, "returned", phase[j], verdict[j], "done", open[j])
    BY <1>1, <1>2, <2>1, <2>8, TrackReplay DEF Tracked
  <2>10. Tracked(j)' /\ Synced(j)'
    BY <1>1, <1>2, <2>7, <2>9 DEF Tracked, Synced
  <2> QED
    BY <1>1, <1>3, <2>3, <2>5, <2>6, <2>10, OneJob
<1>6. CASE /\ ~Replays(j) /\ stage' = [stage EXCEPT ![j] = "submitted"]
           /\ UNCHANGED <<journal, unsynced, row>>
  <2>1. RunTypes' /\ \A k \in Jobs \ {j} : Stays(k)
    BY <1>1, <1>6 DEF RunTypes, Stages, Stays
  <2>2. stage'[j] = "submitted"
    BY <1>1, <1>6 DEF RunTypes
  <2>3. resume => TakenBack(journal[j])
    BY <1>2, <1>6, NotReplayed DEF Replays
  <2>4. Tracked(j)'
    BY <1>1, <1>2, <1>6, <2>2, <2>3, TrackSubmit DEF Tracked
  <2>5. Synced(j)'
    BY <1>1, <1>6 DEF Synced
  <2> QED
    BY <1>1, <1>3, <1>6, <2>1, <2>4, <2>5, OneJob
<1> QED
  BY <1>4, <1>5, <1>6 DEF Submit

LEMMA WithdrawInv == ASSUME RunInv, NEW j \in Jobs, Withdraw(j), Money' PROVE RunInv'
<1>1. /\ up /\ stage[j] = "submitted" /\ RunTypes /\ Tracked(j) /\ Synced(j) /\ Return(j)
      /\ UNCHANGED <<run, up, resume, verdict, phase, open, journal, unsynced, row>>
      /\ UNCHANGED <<stop, runFailed, spentEver, lost>>
  BY DEF RunInv, Withdraw, govVars
<1>2. \A k \in Jobs : Drifts(k)
  BY <1>1 DEF Drifts, Drift
<1>3. RunTypes' /\ \A k \in Jobs \ {j} : Stays(k)
  BY <1>1 DEF RunTypes, Return, Stages, Stays
<1>4. stage'[j] = "returned" /\ journal[j] \in Logs /\ run \in Nat
  BY <1>1 DEF RunTypes, Return
<1>5. Tracked(j)'
  BY <1>1, <1>4, TrackReturn DEF Tracked
<1>6. Synced(j)'
  BY <1>1 DEF Synced
<1> QED
  BY <1>1, <1>2, <1>3, <1>5, <1>6, OneJob

LEMMA DispatchInv == ASSUME RunInv, NEW j \in Jobs, Dispatch(j), Money' PROVE RunInv'
<1>1. /\ up /\ stage[j] = "submitted" /\ RunTypes /\ Tracked(j) /\ Synced(j) /\ Admit(j)
      /\ UNCHANGED <<run, up, resume, verdict, open>>
      /\ UNCHANGED <<runFailed, spentEver, lost>> /\ phase[j] = "idle"
      /\ phase \in [Jobs -> Phases]
  BY DEF RunInv, Dispatch, Admit, Money, Inv
<1>2. journal[j] \in Logs /\ run \in Nat
  BY <1>1 DEF RunTypes
<1>3. /\ \A k \in Jobs \ {j} : phase'[k] = phase[k]
      /\ phase'[j] = IF Admissible(j) THEN "admitted" ELSE "finished"
  BY <1>1 DEF Admit
<1>4. \A k \in Jobs \ {j} : Drifts(k)
  BY <1>1, <1>3 DEF Drifts, Drift
<1>5. Synced(j)'
  BY <1>3 DEF Synced
<1>6. CASE /\ Admissible(j) /\ Emit(j, "started", FALSE)
           /\ stage' = [stage EXCEPT ![j] = "dispatching"] /\ UNCHANGED <<row, stop>>
  <2>1. PICK e \in Event : /\ e.type = "started" /\ e.run = run
                           /\ Extends(journal'[j], journal[j], e)
    BY <1>1, <1>6, Emitted DEF Emit, EventTypes
  <2>2. journal' \in [Jobs -> Logs] /\ \A k \in Jobs \ {j} : journal'[k] = journal[k]
    BY <1>1, <1>6, Emitted DEF Emit, EventTypes
  <2>3. unsynced' = Append(unsynced, j)
    BY <1>6 DEF Emit
  <2>4. unsynced' \in Seq(Jobs)
    BY <1>1, <2>3, AppendUnsynced
  <2>5. RunTypes'
    BY <1>1, <1>6, <2>2, <2>4 DEF RunTypes, Stages
  <2>6. \A k \in Jobs \ {j} : Stays(k)
    BY <1>1, <1>6, <2>2 DEF Stays, RunTypes
  <2>7. stage'[j] = "dispatching" /\ phase'[j] = "admitted"
    BY <1>1, <1>3, <1>6 DEF RunTypes
  <2>8. Track(journal'[j], run, resume, "dispatching", "admitted", verdict[j], row[j], open[j])
    BY <1>1, <1>2, <2>1, TrackAdmit DEF Tracked
  <2>9. Tracked(j)'
    BY <1>1, <1>6, <2>7, <2>8 DEF Tracked
  <2> QED
    BY <1>1, <1>4, <1>5, <2>3, <2>9, <2>5, <2>6, OneJob
<1>7. CASE ~Admissible(j) /\ Return(j) /\ UNCHANGED <<row, journal, unsynced, stop>>
  <2>1. RunTypes' /\ \A k \in Jobs \ {j} : Stays(k)
    BY <1>1, <1>7 DEF RunTypes, Return, Stages, Stays
  <2>2. stage'[j] = "returned" /\ phase'[j] = "finished"
    BY <1>1, <1>3, <1>7 DEF RunTypes, Return
  <2>3. Track(journal[j], run, resume, "returned", "finished", verdict[j], row[j], open[j])
    BY <1>1, <1>2, TrackRefuse DEF Tracked
  <2>4. Tracked(j)'
    BY <1>1, <1>7, <2>2, <2>3 DEF Tracked
  <2> QED
    BY <1>1, <1>4, <1>5, <1>7, <2>1, <2>4, OneJob
<1>8. CASE /\ ~Admissible(j) /\ Emit(j, "finished", FALSE) /\ Return(j) /\ Classify(j, "notOk")
           /\ stop' = (stop \/ StopOnError)
  <2>1. PICK e \in Event : /\ e.type = "finished" /\ e.run = run /\ e.ok = FALSE
                           /\ Extends(journal'[j], journal[j], e)
    BY <1>1, <1>8, Emitted DEF Emit, EventTypes
  <2>2. journal' \in [Jobs -> Logs] /\ \A k \in Jobs \ {j} : journal'[k] = journal[k]
    BY <1>1, <1>8, Emitted DEF Emit, EventTypes
  <2>3. unsynced' = Append(unsynced, j)
    BY <1>8 DEF Emit
  <2>4. unsynced' \in Seq(Jobs)
    BY <1>1, <2>3, AppendUnsynced
  <2>5. stop' \in BOOLEAN
    BY <1>8, Zenon DEF RunTypes
  <2>6. RunTypes'
    BY <1>1, <1>8, <2>2, <2>4, <2>5 DEF RunTypes, Return, Classify, Stages, Rows
  <2>7. \A k \in Jobs \ {j} : Stays(k)
    BY <1>1, <1>8, <2>2 DEF Return, Classify, Stays, RunTypes
  <2>8. stage'[j] = "returned" /\ phase'[j] = "finished" /\ row'[j] = "notOk"
    BY <1>1, <1>3, <1>8 DEF RunTypes, Return, Classify
  <2>9. Track(journal'[j], run, resume, "returned", "finished", verdict[j], "notOk", open[j])
    BY <1>1, <1>2, <2>1, TrackRefuse DEF Tracked
  <2>10. Tracked(j)'
    BY <1>1, <2>8, <2>9 DEF Tracked
  <2> QED
    BY <1>1, <1>4, <1>5, <2>3, <2>10, <2>6, <2>7, OneJob
<1> QED
  BY <1>6, <1>7, <1>8 DEF Dispatch

(* The governor moves jobs, and nothing else of the run.                   *)
LEMMA QuietInv ==
  ASSUME RunInv, NEW j \in Jobs, TakeSlot(j) \/ AskReservation(j) \/ Invoke(j), Money'
  PROVE  RunInv'
<1>1. up /\ Money /\ RunTypes /\ UNCHANGED runVars
  BY DEF RunInv, TakeSlot, AskReservation, Invoke, OnlyGovernor
<1>2. \A k \in Jobs : Drifts(k)
  BY <1>1, QuietDrift, ReserveDrift DEF TakeSlot, AskReservation, Invoke
<1>3. RunTypes' /\ \A k \in Jobs : Stays(k)
  BY <1>1 DEF runVars, RunTypes, Stays
<1> QED
  BY <1>1, <1>2, <1>3, AllDrift DEF runVars

LEMMA SignalInv == ASSUME RunInv, FailRun \/ Cancel, Money' PROVE RunInv'
<1>1. /\ up /\ Money /\ RunTypes
      /\ UNCHANGED <<journal, unsynced, run, up, resume, stage, row, verdict, stop>>
      /\ UNCHANGED <<spentEver, lost>>
      /\ runFailed' = runFailed \/ runFailed' = TRUE
  BY DEF RunInv, FailRun, Cancel, OnlyGovernor, runVars
<1>2. TripSignal \/ UNCHANGED govVars
  BY DEF FailRun, Cancel
<1>3. \A k \in Jobs : Drifts(k)
  <2>1. CASE TripSignal
    BY <1>1, <2>1, SignalDrift
  <2>2. CASE UNCHANGED govVars
    BY <2>2 DEF govVars, Drifts, Drift
  <2> QED
    BY <1>2, <2>1, <2>2
<1>4. RunTypes' /\ \A k \in Jobs : Stays(k)
  BY <1>1 DEF RunTypes, Stays
<1> QED
  BY <1>1, <1>3, <1>4, AllDrift

LEMMA ReportInv ==
  ASSUME RunInv, NEW j \in Jobs, NEW cost \in Costs, Report(j, cost), Money'
  PROVE  RunInv'
<1>1. /\ up /\ Money /\ RunTypes
      /\ UNCHANGED <<journal, unsynced, run, up, resume, stage, row, verdict, stop>>
      /\ UNCHANGED <<runFailed, lost>> /\ spentEver' = spentEver + cost
  BY DEF RunInv, Report
<1>2. \A k \in Jobs : Drifts(k)
  BY <1>1, ObserveDrift DEF Report
<1>3. spentEver' \in Nat
  BY <1>1, GovernorAssumption DEF RunTypes
<1>4. RunTypes' /\ \A k \in Jobs : Stays(k)
  BY <1>1, <1>3 DEF RunTypes, Stays
<1> QED
  BY <1>1, <1>2, <1>4, AllDrift

LEMMA WriteOpenedInv == ASSUME RunInv, NEW j \in Jobs, WriteOpened(j), Money' PROVE RunInv'
<1>1. /\ up /\ Money /\ RunTypes /\ Tracked(j)
      /\ UNCHANGED <<run, up, resume, stage, row, verdict, stop, open>>
      /\ UNCHANGED <<runFailed, spentEver, lost>>
      /\ phase[j] = "reserved" /\ phase \in [Jobs -> Phases]
      /\ phase' = [phase EXCEPT ![j] = "opened"]
  BY DEF RunInv, WriteOpened, OpenDurable, NoTrip, Money, Inv
<1>2. journal[j] \in Logs /\ run \in Nat /\ open[j].usd \in Nat
  BY <1>1, OpenReservation DEF RunTypes, OpenPhases
<1>3. Appended(j, "opened", open[j].usd, FALSE) /\ unsynced' = <<>>
  BY DEF WriteOpened, EmitDurable
<1>4. /\ journal' \in [Jobs -> Logs] /\ \A k \in Jobs \ {j} : journal'[k] = journal[k]
      /\ \E e \in Event : /\ e.type = "opened" /\ e.run = run /\ e.usd = open[j].usd
                          /\ Extends(journal'[j], journal[j], e)
  <2> DEFINE e == [type |-> "opened", run |-> run, usd |-> open[j].usd, ok |-> FALSE]
  <2>1. e \in Event /\ e.type = "opened" /\ e.run = run /\ e.usd = open[j].usd
    BY <1>2 DEF Event, EventTypes
  <2>2. /\ journal'[j] = Append(journal[j], e)
        /\ \A k \in Jobs \ {j} : journal'[k] = journal[k]
    BY <1>1, <1>3 DEF RunTypes, Appended
  <2>3. Append(journal[j], e) \in Logs
    BY <1>2, <2>1 DEF Logs
  <2>4. journal' \in [Jobs -> Logs]
    BY <1>1, <1>3, <2>3 DEF RunTypes, Appended
  <2>5. Extends(journal'[j], journal[j], e)
    BY <1>2, <2>1, <2>2, AppendExtends
  <2> QED
    BY <2>1, <2>2, <2>4, <2>5
<1>5. \A k \in Jobs \ {j} : Drifts(k)
  BY <1>1 DEF Drifts, Drift
<1>6. RunTypes' /\ \A k \in Jobs \ {j} : Stays(k)
  <2>1. unsynced' \in Seq(Jobs)
    BY <1>3
  <2>2. RunTypes'
    BY <1>1, <2>1, <1>4 DEF RunTypes
  <2> QED
    BY <1>1, <1>4, <2>2 DEF Stays
<1>7. phase'[j] = "opened"
  BY <1>1
<1>8. Track(journal'[j], run, resume, stage[j], "opened", verdict[j], row[j], open[j])
  BY <1>1, <1>2, <1>4, TrackOpened DEF Tracked
<1>9. Tracked(j)'
  BY <1>1, <1>7, <1>8 DEF Tracked
<1>10. Synced(j)'
  BY <1>3 DEF Synced
<1> QED
  BY <1>1, <1>3, <1>5, <1>6, <1>9, <1>10, OneJob

LEMMA AbandonInv == ASSUME RunInv, NEW j \in Jobs, Abandon(j), Money' PROVE RunInv'
<1>1. /\ up /\ Money /\ RunTypes /\ Tracked(j) /\ AbandonReservation(j)
      /\ UNCHANGED <<journal, unsynced, run, up, resume, stage, row, stop>>
      /\ UNCHANGED <<runFailed, spentEver, lost>>
      /\ phase[j] \in {"reserved", "opened"}
      /\ verdict' = [verdict EXCEPT ![j] = "rejected"]
  BY DEF RunInv, Abandon, AbandonReservation
<1>2. journal[j] \in Logs /\ run \in Nat
  BY <1>1 DEF RunTypes
<1>3. phase'[j] = "refused" /\ \A k \in Jobs \ {j} : Drifts(k)
  BY <1>1, AbandonDrift
<1>4. RunTypes' /\ \A k \in Jobs \ {j} : Stays(k)
  BY <1>1 DEF RunTypes, Stays, Verdicts
<1>5. verdict'[j] = "rejected"
  BY <1>1 DEF RunTypes
<1>6. \A o2 : Track(journal[j], run, resume, stage[j], "refused", "rejected", row[j], o2)
  BY <1>1, <1>2, TrackAbandon DEF Tracked
<1>7. Tracked(j)'
  BY <1>1, <1>3, <1>5, <1>6 DEF Tracked
<1>8. Synced(j)'
  BY <1>3 DEF Synced
<1> QED
  BY <1>1, <1>3, <1>4, <1>7, <1>8, OneJob

LEMMA EndInv ==
  ASSUME RunInv, NEW j \in Jobs, NEW basis \in {"observed", "full"}, NEW v \in {"ok", "notOk"},
         End(j, basis, v), Money'
  PROVE  RunInv'
<1>1. /\ up /\ Money /\ RunTypes /\ Tracked(j) /\ Settle(j, basis)
      /\ UNCHANGED <<journal, unsynced, run, up, resume, stage, row, stop>>
      /\ UNCHANGED <<runFailed, spentEver, lost>>
      /\ phase[j] \in {"opened", "running"}
      /\ verdict' = [verdict EXCEPT ![j] = v]
  BY DEF RunInv, End, Settle
<1>2. journal[j] \in Logs /\ run \in Nat /\ open[j].usd \in Nat
  BY <1>1, OpenReservation DEF RunTypes, OpenPhases
<1>3. phase'[j] = "settled" /\ \A k \in Jobs \ {j} : Drifts(k)
  BY <1>1, SettleDrift
<1>4. RunTypes' /\ \A k \in Jobs \ {j} : Stays(k)
  BY <1>1 DEF RunTypes, Stays, Verdicts
<1>5. verdict'[j] = v
  BY <1>1 DEF RunTypes
<1>6. \A o2 : Track(journal[j], run, resume, stage[j], "settled", v, row[j], o2)
  BY <1>1, <1>2, TrackEnd DEF Tracked
<1>7. Tracked(j)'
  BY <1>1, <1>3, <1>5, <1>6 DEF Tracked
<1>8. Synced(j)'
  BY <1>3 DEF Synced
<1> QED
  BY <1>1, <1>3, <1>4, <1>7, <1>8, OneJob

(* Overshoot reads the reservation's own opened event. *)
LEMMA OvershootNat ==
  ASSUME RunInv, up, NEW j \in Jobs, phase[j] = "settled" \/ open[j] # NoReservation
  PROVE  Overshoot(j) \in Nat
<1>1. Money /\ RunTypes /\ Tracked(j) /\ journal[j] \in Logs /\ run \in Nat
  BY DEF RunInv, RunTypes
<1>2. CASE phase[j] = "settled"
  <2>1. PICK usd \in Nat : InFlight(journal[j], run, usd)
    BY <1>1, <1>2 DEF Tracked, Track
  <2>2. \E i \in Unresolved(journal[j]) : journal[j][i].run = run
    BY <2>1 DEF InFlight, Unresolved, Entries
  <2> DEFINE opened == CHOOSE i \in Unresolved(journal[j]) : journal[j][i].run = run
  <2>3. opened \in 1 .. Len(journal[j])
    BY <2>2 DEF Unresolved, Entries
  <2>4. journal[j][opened].usd \in Nat
    BY <1>1, <2>3, EventAt
  <2>5. charged[j] \in Nat
    BY <1>1 DEF Money, Ledger
  <2>6. Overshoot(j) = IF charged[j] > journal[j][opened].usd
                         THEN charged[j] - journal[j][opened].usd ELSE 0
    BY <1>2 DEF Overshoot
  <2> HIDE DEF opened
  <2> QED
    BY <2>4, <2>5, <2>6
<1>3. CASE phase[j] # "settled" /\ open[j] # NoReservation
  <2>1. open[j] \in Reservation
    BY <1>1, <1>3 DEF Money, Gate, Shape, OpenType
  <2> QED
    BY <1>3, <2>1 DEF Overshoot, Reservation
<1> QED
  BY <1>2, <1>3

LEMMA WriteSettledInv == ASSUME RunInv, NEW j \in Jobs, WriteSettled(j), Money' PROVE RunInv'
<1>1. /\ up /\ Money /\ RunTypes /\ Tracked(j) /\ ReleaseSlot(j)
      /\ UNCHANGED <<run, up, resume, stage, row, stop, open>>
      /\ UNCHANGED <<runFailed, spentEver>> /\ phase[j] = "settled"
  BY DEF RunInv, WriteSettled, ReleaseSlot
<1>2. journal[j] \in Logs /\ run \in Nat
  BY <1>1 DEF RunTypes
<1>3. phase'[j] = "finished" /\ \A k \in Jobs \ {j} : Drifts(k)
  BY <1>1, ReleaseDrift
<1>4. Synced(j)'
  BY <1>3 DEF Synced
<1>5. CASE EmitDurable(j, "settled", charged[j]) /\ UNCHANGED <<verdict, lost>>
  <2>1. PICK usd \in Nat : usd = charged[j]
    BY <1>1 DEF Money, Ledger
  <2>2. Appended(j, "settled", usd, FALSE) /\ unsynced' = <<>>
    BY <1>5, <2>1 DEF EmitDurable
  <2>3. /\ journal' \in [Jobs -> Logs] /\ \A k \in Jobs \ {j} : journal'[k] = journal[k]
        /\ \E e \in Event : /\ e.type = "settled" /\ e.run = run
                            /\ Extends(journal'[j], journal[j], e)
    BY <1>1, <2>2, Emitted DEF EventTypes
  <2>4. unsynced' \in Seq(Jobs)
    BY <2>2
  <2>5. RunTypes'
    BY <1>1, <1>5, <2>3, <2>4 DEF RunTypes
  <2>6. \A k \in Jobs \ {j} : Stays(k)
    BY <1>1, <1>5, <2>3 DEF Stays
  <2>7. Track(journal'[j], run, resume, stage[j], "finished", verdict[j], row[j], open[j])
    BY <1>1, <1>2, <2>3, TrackSettled DEF Tracked
  <2>8. Tracked(j)'
    BY <1>1, <1>3, <1>5, <2>7 DEF Tracked
  <2> QED
    BY <1>1, <1>3, <1>4, <2>2, <2>5, <2>6, <2>8, OneJob
<1>6. CASE /\ verdict' = [verdict EXCEPT ![j] = "rejected"] /\ lost' = lost + Overshoot(j)
           /\ UNCHANGED <<journal, unsynced>>
  <2>1. lost' \in Nat
    BY <1>1, <1>6, OvershootNat DEF RunTypes
  <2>2. RunTypes'
    BY <1>1, <1>6, <2>1 DEF RunTypes, Verdicts
  <2>3. (\A k \in Jobs \ {j} : Stays(k)) /\ verdict'[j] = "rejected"
    BY <1>1, <1>6 DEF Stays, RunTypes
  <2>4. Track(journal[j], run, resume, stage[j], "finished", "rejected", row[j], open[j])
    BY <1>1, <1>2, TrackReject DEF Tracked
  <2>5. Tracked(j)'
    BY <1>1, <1>3, <1>6, <2>3, <2>4 DEF Tracked
  <2> QED
    BY <1>1, <1>3, <1>4, <1>6, <2>2, <2>3, <2>5, OneJob
<1> QED
  BY <1>5, <1>6 DEF WriteSettled

LEMMA LeaveRefusedInv == ASSUME RunInv, NEW j \in Jobs, LeaveRefused(j), Money' PROVE RunInv'
<1>1. /\ up /\ Money /\ RunTypes /\ Tracked(j) /\ ReleaseSlot(j)
      /\ UNCHANGED <<journal, unsynced, run, up, resume, stage, row, stop, open>>
      /\ UNCHANGED <<runFailed, spentEver, lost>> /\ phase[j] = "refused"
      /\ verdict' = [verdict EXCEPT ![j] = IF @ = "rejected" THEN @ ELSE "notOk"]
  BY DEF RunInv, LeaveRefused, ReleaseSlot
<1>2. journal[j] \in Logs /\ run \in Nat
  BY <1>1 DEF RunTypes
<1>3. phase'[j] = "finished" /\ \A k \in Jobs \ {j} : Drifts(k)
  BY <1>1, ReleaseDrift
<1>4. verdict'[j] = IF verdict[j] = "rejected" THEN verdict[j] ELSE "notOk"
  BY <1>1 DEF RunTypes
<1>5. RunTypes' /\ \A k \in Jobs \ {j} : Stays(k)
  BY <1>1 DEF RunTypes, Stays, Verdicts
<1>6. \A vd : vd = (IF verdict[j] = "rejected" THEN verdict[j] ELSE "notOk") =>
        Track(journal[j], run, resume, stage[j], "finished", vd, row[j], open[j])
  BY <1>1, <1>2, TrackLeave DEF Tracked
<1>7. Tracked(j)'
  BY <1>1, <1>3, <1>4, <1>6 DEF Tracked
<1>8. Synced(j)'
  BY <1>3 DEF Synced
<1> QED
  BY <1>1, <1>3, <1>5, <1>7, <1>8, OneJob

LEMMA FinishInv == ASSUME RunInv, NEW j \in Jobs, Finish(j), Money' PROVE RunInv'
<1>1. /\ up /\ Money /\ RunTypes /\ Tracked(j) /\ Return(j)
      /\ stage[j] = "dispatching" /\ phase[j] = "finished"
      /\ UNCHANGED <<run, up, resume, verdict, open, phase>>
      /\ UNCHANGED <<runFailed, spentEver, lost>>
  BY DEF RunInv, Finish, govVars
<1>2. /\ journal[j] \in Logs /\ run \in Nat /\ stage'[j] = "returned"
      /\ stage' \in [Jobs -> Stages]
  BY <1>1 DEF RunTypes, Return, Stages
<1>3. \A k \in Jobs \ {j} : Drifts(k)
  BY <1>1 DEF Drifts, Drift
<1>4. Synced(j)'
  BY <1>1 DEF Synced
<1>5. CASE UNCHANGED <<journal, unsynced, row, stop>>
  <2>1. RunTypes' /\ \A k \in Jobs \ {j} : Stays(k)
    BY <1>1, <1>2, <1>5 DEF RunTypes, Return, Stays
  <2>2. Track(journal[j], run, resume, "returned", phase[j], verdict[j], row[j], open[j])
    BY <1>1, <1>2, TrackQuit DEF Tracked
  <2>3. Tracked(j)'
    BY <1>1, <1>2, <1>5, <2>2 DEF Tracked
  <2> QED
    BY <1>1, <1>3, <1>4, <1>5, <2>1, <2>3, OneJob
<1>6. CASE /\ verdict[j] # "rejected" /\ Emit(j, "finished", verdict[j] = "ok")
           /\ Classify(j, IF verdict[j] = "ok" THEN "done" ELSE "notOk")
           /\ stop' = (stop \/ (StopOnError /\ verdict[j] # "ok"))
  <2>1. PICK ok \in BOOLEAN : ok <=> verdict[j] = "ok"
    OBVIOUS
  <2>2. Appended(j, "finished", 0, ok) /\ unsynced' = Append(unsynced, j)
    BY <1>6, <2>1 DEF Emit, Appended
  <2>3. /\ journal' \in [Jobs -> Logs] /\ \A k \in Jobs \ {j} : journal'[k] = journal[k]
        /\ \E e \in Event : /\ e.type = "finished" /\ e.run = run /\ e.ok = ok
                            /\ Extends(journal'[j], journal[j], e)
    BY <1>1, <2>2, Emitted DEF EventTypes
  <2>4. unsynced' \in Seq(Jobs)
    BY <1>1, <2>2, AppendUnsynced
  <2>5. stop' \in BOOLEAN
    BY <1>6, Zenon
  <2>6. row' \in [Jobs -> Rows] /\ row'[j] = IF verdict[j] = "ok" THEN "done" ELSE "notOk"
    BY <1>1, <1>6 DEF RunTypes, Classify, Rows
  <2>7. RunTypes'
    BY <1>1, <1>2, <2>3, <2>4, <2>5, <2>6 DEF RunTypes
  <2>8. \A k \in Jobs \ {j} : Stays(k)
    BY <1>1, <1>6, <2>3 DEF Stays, RunTypes, Return, Classify
  <2>9. \A rw2 : rw2 = (IF verdict[j] = "ok" THEN "done" ELSE "notOk") =>
          Track(journal'[j], run, resume, "returned", phase[j], verdict[j], rw2, open[j])
    <3>1. PICK e \in Event : /\ e.type = "finished" /\ e.run = run /\ (e.ok <=> verdict[j] = "ok")
                             /\ Extends(journal'[j], journal[j], e)
      BY <2>1, <2>3
    <3> QED
      BY <1>1, <1>2, <1>6, <3>1, TrackFinish DEF Tracked
  <2>10. Tracked(j)'
    BY <1>1, <1>2, <2>6, <2>9 DEF Tracked
  <2> QED
    BY <1>1, <1>3, <1>4, <2>2, <2>7, <2>8, <2>10, OneJob
<1> QED
  BY <1>5, <1>6 DEF Finish
-----------------------------------------------------------------------------
(* Where a run starts, ends, and dies.                                     *)

LEMMA EntriesFinite ==
  ASSUME NEW J \in Logs, NEW S, S \subseteq 1 .. Len(J)
  PROVE  /\ IsFiniteSet(S) /\ Cardinality(S) \in Nat
         /\ SumOf([i \in 1 .. Len(J) |-> J[i].usd], S) \in Nat
<1>1. Len(J) \in Nat
  BY DEF Logs
<1>2. IsFiniteSet(S) /\ Cardinality(S) \in Nat
  <2>1. IsFiniteSet(1 .. Len(J))
    BY <1>1, FS_Interval
  <2>2. IsFiniteSet(S)
    BY <2>1, FS_Subset
  <2> QED
    BY <2>2, FS_CardinalityType
<1> DEFINE f == [i \in 1 .. Len(J) |-> J[i].usd]
<1>3. \A i \in S : f[i] \in Nat
  BY EventAt
<1> HIDE DEF f
<1>4. SumOf(f, S) \in Nat
  BY <1>2, <1>3, SumNat
<1> QED
  BY <1>2, <1>4 DEF f

LEMMA SeedNat == ASSUME NEW J \in Logs PROVE StartsOf(J) \in Nat /\ SeedUsdOf(J) \in Nat
<1>1. /\ Entries(J, "started") \subseteq 1 .. Len(J)
      /\ Entries(J, "settled") \union Unresolved(J) \subseteq 1 .. Len(J)
  BY DEF Entries, Unresolved
<1>2. StartsOf(J) \in Nat
  BY <1>1, EntriesFinite DEF StartsOf
<1>3. SeedUsdOf(J) \in Nat
  BY <1>1, EntriesFinite DEF SeedUsdOf
<1> QED
  BY <1>2, <1>3

LEMMA Seeded == ASSUME NEW J \in [Jobs -> Logs], SeedGovernor(J) PROVE Fresh'
<1> DEFINE f == [j \in Jobs |-> SeedUsdOf(J[j])]
<1>1. \A j \in Jobs : StartsOf(J[j]) \in Nat /\ f[j] \in Nat
  BY SeedNat
<1>2. /\ attempts' = [j \in Jobs |-> StartsOf(J[j])]
      /\ dispatchedCount' = SumOf(attempts', Jobs)
      /\ usdSpent' = SumOf(f, Jobs) /\ seed' = SumOf(f, Jobs)
      /\ tripKind' = IF SumOf(f, Jobs) > Cap THEN "exhausted" ELSE "none"
      /\ tokens' = 0 /\ active' = 0
      /\ slotWaiters' = <<>> /\ reserveWaiters' = <<>>
      /\ open' = [j \in Jobs |-> NoReservation]
      /\ phase' = [j \in Jobs |-> "idle"]
      /\ reports' = [j \in Jobs |-> 0]
      /\ charged' = [j \in Jobs |-> 0]
  BY DEF SeedGovernor
<1> HIDE DEF f
<1>3. SumOf(f, Jobs) \in Nat
  BY <1>1, GovernorAssumption, SumNat
<1>4. attempts' \in [Jobs -> Nat]
  BY <1>1, <1>2
<1> QED
  BY <1>2, <1>3, <1>4 DEF Fresh

LEMMA SeededMoney == ASSUME NEW J \in [Jobs -> Logs], SeedGovernor(J) PROVE Money'
<1>1. Fresh'
  BY Seeded
<1> QED
  BY <1>1, FreshMoney, PTL

LEMMA ForgetTypes ==
  ASSUME Forget
  PROVE  /\ Money' /\ up' = FALSE /\ resume' \in BOOLEAN /\ stop' \in BOOLEAN
         /\ runFailed' \in BOOLEAN /\ unsynced' \in Seq(Jobs)
         /\ stage' \in [Jobs -> Stages] /\ row' \in [Jobs -> Rows]
         /\ verdict' \in [Jobs -> Verdicts]
         /\ \A j \in Jobs : row'[j] = "none" /\ phase'[j] = "idle"
<1>1. [j \in Jobs |-> <<>>] \in [Jobs -> Logs]
  BY DEF Logs
<1>2. Money'
  BY <1>1, SeededMoney DEF Forget
<1>3. /\ up' = FALSE /\ resume' = FALSE /\ stop' = FALSE /\ runFailed' = FALSE
      /\ unsynced' = <<>> /\ stage' = [j \in Jobs |-> "none"]
      /\ row' = [j \in Jobs |-> "none"] /\ verdict' = [j \in Jobs |-> "none"]
      /\ phase' = [j \in Jobs |-> "idle"]
  BY DEF Forget, SeedGovernor
<1>4. unsynced' \in Seq(Jobs)
  BY <1>3
<1>5. /\ stage' \in [Jobs -> Stages] /\ row' \in [Jobs -> Rows]
      /\ verdict' \in [Jobs -> Verdicts]
  BY <1>3 DEF Stages, Rows, Verdicts
<1> QED
  BY <1>2, <1>3, <1>4, <1>5

LEMMA EndRunInv == ASSUME RunInv, EndRun PROVE RunInv'
<1>1. /\ up /\ RunTypes /\ Forget /\ UNCHANGED <<journal, run, failures, spentEver, lost>>
  BY DEF RunInv, EndRun
<1>2. \A j \in Jobs : Log(journal[j], run)
  BY <1>1 DEF RunInv, Tracked, Track
<1>3. RunTypes' /\ Money' /\ up' = FALSE
      /\ \A j \in Jobs : row'[j] = "none" /\ phase'[j] = "idle"
  BY <1>1, ForgetTypes DEF RunTypes
<1> QED
  BY <1>1, <1>2, <1>3 DEF RunInv

LEMMA CrashInv == ASSUME RunInv, Crash PROVE RunInv'
<1>1. up /\ RunTypes /\ Forget /\ UNCHANGED <<run, failures, spentEver>>
  BY DEF RunInv, Crash
<1>2. \A j \in Jobs : Log(journal[j], run) /\ journal[j] \in Logs /\ run \in Nat
  BY <1>1 DEF RunInv, Tracked, Track, RunTypes
<1>3. PICK n \in 0 .. Len(unsynced) :
        journal' = [j \in Jobs |-> SubSeq(journal[j], 1, Len(journal[j])
                     - Cardinality({i \in n + 1 .. Len(unsynced) : unsynced[i] = j}))]
  BY DEF Crash
<1>4. \A j \in Jobs : \E m \in Int :
        m <= Len(journal[j]) /\ journal'[j] = SubSeq(journal[j], 1, m)
  <2> TAKE j \in Jobs
  <2> DEFINE S == {i \in n + 1 .. Len(unsynced) : unsynced[i] = j}
  <2>1. Len(unsynced) \in Nat /\ Len(journal[j]) \in Nat
    BY <1>1, <1>2 DEF RunTypes, Logs
  <2>2. Cardinality(S) \in Nat
    <3>1. IsFiniteSet(n + 1 .. Len(unsynced))
      BY <2>1, FS_Interval
    <3>2. IsFiniteSet(S)
      BY <3>1, FS_Subset
    <3> QED
      BY <3>2, FS_CardinalityType
  <2>3. journal'[j] = SubSeq(journal[j], 1, Len(journal[j]) - Cardinality(S))
    BY <1>3
  <2> HIDE DEF S
  <2>4. /\ Len(journal[j]) - Cardinality(S) \in Int
        /\ Len(journal[j]) - Cardinality(S) <= Len(journal[j])
    BY <2>1, <2>2
  <2> QED
    BY <2>3, <2>4
<1>5. \A j \in Jobs : journal'[j] \in Logs /\ Log(journal'[j], run)
  <2> TAKE j \in Jobs
  <2>1. PICK m \in Int : m <= Len(journal[j]) /\ journal'[j] = SubSeq(journal[j], 1, m)
    BY <1>4
  <2>2. PICK J2 : J2 = journal'[j]
    OBVIOUS
  <2>3. J2 \in Logs /\ Log(J2, run)
    BY <1>2, <2>1, <2>2, LogPrefix
  <2> QED
    BY <2>2, <2>3
<1>6. journal' \in [Jobs -> Logs]
  BY <1>3, <1>5
<1>7. lost' \in Nat
  <2> DEFINE f == [j \in Jobs |->
       IF open[j] # NoReservation \/ phase[j] = "settled" THEN Overshoot(j) ELSE 0]
  <2>1. \A j \in Jobs : f[j] \in Nat
    BY <1>1, OvershootNat
  <2>2. lost' = lost + SumOf(f, Jobs)
    BY DEF Crash
  <2> HIDE DEF f
  <2>3. SumOf(f, Jobs) \in Nat
    BY <2>1, GovernorAssumption, SumNat
  <2> QED
    BY <1>1, <2>2, <2>3 DEF RunTypes
<1>8. RunTypes' /\ Money' /\ up' = FALSE
      /\ \A j \in Jobs : row'[j] = "none" /\ phase'[j] = "idle"
  BY <1>1, <1>6, <1>7, ForgetTypes DEF RunTypes
<1> QED
  BY <1>1, <1>5, <1>8 DEF RunInv

LEMMA ToSeq ==
  ASSUME NEW S, IsFiniteSet(S)
  PROVE  /\ SetToSeq(S) \in Seq(S)
         /\ \A i, k \in 1 .. Len(SetToSeq(S)) : SetToSeq(S)[i] = SetToSeq(S)[k] => i = k
<1>1. Cardinality(S) \in Nat /\ ExistsBijection(1 .. Cardinality(S), S)
  BY FS_CardinalityType
<1>2. \E f \in [1 .. Cardinality(S) -> S] : IsInjective(f)
  BY <1>1 DEF ExistsBijection, Bijection, Injection
<1>3. SetToSeq(S) \in [1 .. Cardinality(S) -> S] /\ IsInjective(SetToSeq(S))
  BY <1>2 DEF SetToSeq
<1>4. SetToSeq(S) \in Seq(S) /\ Len(SetToSeq(S)) = Cardinality(S)
  BY <1>1, <1>3
<1> QED
  BY <1>3, <1>4 DEF IsInjective

(* A run opens with what the fold saw of the job, held back or not.        *)
LEMMA TrackFresh ==
  ASSUME NEW J \in Logs, NEW r \in Nat, Log(J, r), NEW J2, NEW rs, NEW st, NEW rw, NEW o,
         \/ J2 = J /\ ~Quarantined(J) /\ st = "none" /\ rw = "none"
         \/ J2 = J /\ st = "returned" /\ rw = "quarantined"
         \/ /\ \E e \in Event : Extends(J2, J, e) /\ e.run = r + 1 /\ e.type = "released"
            /\ st = "none" /\ rw = "none"
  PROVE  Track(J2, r + 1, rs, st, "idle", "none", rw, o)
<1>1. \A i \in 1 .. Len(J) : J[i].run \in Nat /\ J[i].run <= r
  BY EventAt DEF Log
<1>2. Log(J, r + 1) /\ NotYet(J, r + 1)
  BY <1>1 DEF Log, NotYet
<1>3. ~Quarantined(J) => Clean(J, r + 1)
  BY DEF Quarantined, Clean
<1>4. ASSUME NEW e \in Event, Extends(J2, J, e), e.run = r + 1, e.type = "released"
      PROVE  Log(J2, r + 1) /\ NotYet(J2, r + 1) /\ Clean(J2, r + 1)
  <2>1. Log(J2, r + 1) /\ NotYet(J2, r + 1)
    BY <1>2, <1>4, LogExtends, CleanExtends
  <2>2. Len(J) \in Nat /\ Len(J2) = Len(J) + 1 /\ J2[Len(J) + 1] = e
    BY <1>4 DEF Extends, Logs
  <2>3. Len(J) + 1 \in Entries(J2, "released")
    BY <1>4, <2>2 DEF Entries
  <2>4. \A i \in Unresolved(J2) : i \in 1 .. Len(J) + 1 /\ i # Len(J) + 1
    BY <1>4, <2>2 DEF Unresolved, Entries
  <2>5. Clean(J2, r + 1)
    BY <2>2, <2>3, <2>4 DEF Clean
  <2> QED
    BY <2>1, <2>5
<1> QED
  BY <1>2, <1>3, <1>4 DEF Track, Waiting

LEMMA StartRunInv ==
  ASSUME RunInv, NEW resumes \in BOOLEAN, NEW releases \in SUBSET Jobs,
         StartRun(resumes, releases)
  PROVE  RunInv'
<1>1. /\ ~up /\ RunTypes /\ up' = TRUE /\ run' = run + 1 /\ resume' = resumes
      /\ SeedGovernor(journal) /\ unsynced' = SetToSeq(releases)
      /\ verdict' = [j \in Jobs |-> "none"] /\ stop' = FALSE /\ runFailed' = FALSE
      /\ UNCHANGED <<failures, spentEver, lost>>
  BY DEF RunInv, StartRun
<1> DEFINE held == {j \in Jobs : Quarantined(journal[j])} \ releases
           e == [type |-> "released", run |-> run + 1, usd |-> 0, ok |-> FALSE]
<1>2. /\ row' = [j \in Jobs |-> IF j \in held THEN "quarantined" ELSE "none"]
      /\ stage' = [j \in Jobs |-> IF j \in held THEN "returned" ELSE "none"]
      /\ journal' = [j \in Jobs |-> journal[j] \o IF j \in releases THEN <<e>> ELSE <<>>]
  BY <1>1 DEF StartRun
<1>3. e \in Event /\ e.run = run + 1 /\ e.type = "released"
  BY <1>1 DEF Event, EventTypes, RunTypes
<1>4. \A j \in Jobs : journal[j] \in Logs /\ Log(journal[j], run)
  BY <1>1 DEF RunInv, RunTypes
<1>5. \A j \in Jobs : held \cap {j} = {} /\ j \notin releases => ~Quarantined(journal[j])
  OBVIOUS
<1>6. \A j \in held : j \notin releases
  OBVIOUS
<1> HIDE DEF held, e
<1>7. ASSUME NEW j \in Jobs
      PROVE  /\ j \in releases => Extends(journal'[j], journal[j], e)
             /\ j \notin releases => journal'[j] = journal[j]
  <2>1. CASE j \in releases
    <3>1. journal'[j] = Append(journal[j], e)
      BY <1>2, <1>4, <2>1 DEF Logs
    <3> QED
      BY <1>3, <1>4, <2>1, <3>1, AppendExtends
  <2>2. CASE j \notin releases
    BY <1>2, <1>4, <2>2 DEF Logs
  <2> QED
    BY <2>1, <2>2
<1>8. \A j \in Jobs : journal'[j] \in Logs
  BY <1>4, <1>7 DEF Extends
<1>9. unsynced' \in Seq(Jobs)
  <2>1. IsFiniteSet(releases)
    BY GovernorAssumption, FS_Subset
  <2>2. SetToSeq(releases) \in Seq(releases)
    BY <2>1, ToSeq
  <2> QED
    BY <1>1, <2>2
<1>10. RunTypes'
  <2>1. journal' \in [Jobs -> Logs]
    BY <1>2, <1>8
  <2>2. stage' \in [Jobs -> Stages] /\ row' \in [Jobs -> Rows] /\ verdict' \in [Jobs -> Verdicts]
    BY <1>1, <1>2 DEF Stages, Rows, Verdicts
  <2>3. run' \in Nat /\ spentEver' \in Nat /\ lost' \in Nat
    BY <1>1 DEF RunTypes
  <2> QED
    BY <1>1, <1>9, <2>1, <2>2, <2>3 DEF RunTypes
<1>11. Money'
  BY <1>1, SeededMoney DEF RunTypes
<1>12. ASSUME NEW j \in Jobs PROVE Tracked(j)' /\ Synced(j)'
  <2>1. phase'[j] = "idle" /\ verdict'[j] = "none" /\ run \in Nat
    BY <1>1 DEF SeedGovernor, RunTypes
  <2>2. PICK J2, st, rw, o :
          J2 = journal'[j] /\ st = stage'[j] /\ rw = row'[j] /\ o = open'[j]
    OBVIOUS
  <2>3. \/ J2 = journal[j] /\ ~Quarantined(journal[j]) /\ st = "none" /\ rw = "none"
        \/ J2 = journal[j] /\ st = "returned" /\ rw = "quarantined"
        \/ Extends(J2, journal[j], e) /\ st = "none" /\ rw = "none"
    BY <1>2, <1>5, <1>6, <1>7, <2>2
  <2>4. Track(J2, run + 1, resumes, st, "idle", "none", rw, o)
    BY <1>3, <1>4, <2>1, <2>3, TrackFresh
  <2>5. Tracked(j)'
    BY <1>1, <2>1, <2>2, <2>4 DEF Tracked
  <2>6. Synced(j)'
    BY <2>1 DEF Synced
  <2> QED
    BY <2>5, <2>6
<1> QED
  BY <1>1, <1>10, <1>11, <1>12 DEF RunInv

LEMMA RunInitInv == RunInit => RunInv
<1> SUFFICES ASSUME RunInit PROVE RunInv
  OBVIOUS
<1>1. Money
  BY FreshMoney, GovernorAssumption DEF RunInit, Init, Fresh
<1>2. \A j \in Jobs : journal[j] = <<>>
  BY DEF RunInit
<1>3. journal \in [Jobs -> Logs]
  BY DEF RunInit, Logs
<1>4. RunTypes
  <2>1. unsynced \in Seq(Jobs)
    BY DEF RunInit
  <2>2. stage \in [Jobs -> Stages] /\ row \in [Jobs -> Rows] /\ verdict \in [Jobs -> Verdicts]
    BY DEF RunInit, Stages, Rows, Verdicts
  <2> QED
    BY <1>3, <2>1, <2>2 DEF RunInit, RunTypes
<1>5. Log(<<>>, 0)
  BY DEF Log, Corrupt, FinishFresh, Entries
<1>6. \A j \in Jobs : phase[j] = "idle" /\ row[j] = "none"
  BY DEF RunInit, Init
<1> QED
  BY <1>1, <1>2, <1>4, <1>5, <1>6 DEF RunInv, RunInit

LEMMA RunInductive == RunInv /\ [RunNext]_vars => RunInv'
<1> SUFFICES ASSUME RunInv, [RunNext]_vars PROVE RunInv'
  OBVIOUS
<1>1. CASE UNCHANGED vars
  <2>1. Money'
    BY <1>1, KeepsMoney DEF vars, RunInv
  <2>2. RunTypes' /\ up' = up /\ run' = run
    BY <1>1 DEF vars, runVars, RunInv, RunTypes
  <2>3. \A j \in Jobs : IF up THEN Tracked(j)' /\ Synced(j)'
                            ELSE /\ Log(journal'[j], run')
                                 /\ row'[j] = "none" /\ phase'[j] = "idle"
    BY <1>1 DEF vars, runVars, govVars, RunInv, Tracked, Synced
  <2> QED
    BY <2>1, <2>2, <2>3 DEF RunInv
<1>2. ASSUME NEW j \in Jobs, JobStep(j) PROVE RunInv'
  <2>1. up /\ up' = up /\ Money
    <3>1. CASE TakeSlot(j) \/ AskReservation(j) \/ Invoke(j)
      BY <3>1 DEF TakeSlot, AskReservation, Invoke, OnlyGovernor, runVars, RunInv
    <3>2. CASE Submit(j) \/ Withdraw(j) \/ Dispatch(j) \/ WriteOpened(j) \/ Abandon(j)
      BY <3>2 DEF Submit, Withdraw, Dispatch, WriteOpened, Abandon, RunInv
    <3>3. CASE WriteSettled(j) \/ LeaveRefused(j) \/ Finish(j)
      BY <3>3 DEF WriteSettled, LeaveRefused, Finish, RunInv
    <3>4. ASSUME NEW basis, NEW v, End(j, basis, v) PROVE up /\ up' = up /\ Money
      BY <3>4 DEF End, RunInv
    <3> QED
      BY <1>2, <3>1, <3>2, <3>3, <3>4 DEF JobStep
  <2>2. RunNext
    BY <1>2 DEF RunNext
  <2>3. Money'
    BY <2>1, <2>2, GovernorStep
  <2> QED
    BY <1>2, <2>3, SubmitInv, WithdrawInv, DispatchInv, QuietInv, WriteOpenedInv, AbandonInv,
       EndInv, WriteSettledInv, LeaveRefusedInv, FinishInv DEF JobStep
<1>3. ASSUME NEW j \in Jobs, NEW cost \in Costs, Report(j, cost) PROVE RunInv'
  <2>1. up /\ up' /\ Money /\ RunNext
    BY <1>3 DEF Report, RunInv, RunNext
  <2> QED
    BY <1>3, <2>1, GovernorStep, ReportInv
<1>4. CASE FailRun \/ Cancel
  <2>1. up /\ up' /\ Money /\ RunNext
    BY <1>4 DEF FailRun, Cancel, OnlyGovernor, runVars, RunInv, RunNext
  <2> QED
    BY <1>4, <2>1, GovernorStep, SignalInv
<1> QED
  BY <1>1, <1>2, <1>3, <1>4, StartRunInv, EndRunInv, CrashInv DEF RunNext

(* The invariant of the runs: every log is one a fold accepts, and tied to *)
(* the place of its job in the run in progress.                            *)
THEOREM RunInvariance == RunSpec => []RunInv
BY RunInitInv, RunInductive, PTL DEF RunSpec

(* The write-ahead of runPlanUnderLease: whatever prefix of its log a dead *)
(* run leaves, seedFromJournal does not throw on it.                       *)
THEOREM FoldNeverThrows == RunSpec => []NeverCorrupt
<1>1. RunInv => NeverCorrupt
  BY DEF RunInv, Tracked, Track, Log, NeverCorrupt
<1> QED
  BY <1>1, RunInvariance, PTL

(* A body runs only behind a durable reservation-opened of its amount.     *)
THEOREM WriteAhead == RunSpec => []BodyBehindOpened
<1>1. RunInv => BodyBehindOpened
  <2> SUFFICES ASSUME RunInv, NEW j \in Jobs, InBody(j)
               PROVE  /\ j \notin Range(unsynced)
                      /\ \E i \in Unresolved(journal[j]) :
                           journal[j][i].run = run /\ journal[j][i].usd = open[j].usd
    BY DEF BodyBehindOpened
  <2>1. Tracked(j) /\ Synced(j) /\ phase[j] = "running" /\ unsynced \in Seq(Jobs)
    BY DEF RunInv, InBody, RunTypes
  <2>2. j \notin Range(unsynced)
    BY <2>1 DEF Synced, Range
  <2>3. InFlight(journal[j], run, open[j].usd)
    BY <2>1 DEF Tracked, Track
  <2> QED
    BY <2>2, <2>3 DEF InFlight, Unresolved, Entries
<1> QED
  BY <1>1, RunInvariance, PTL

(* quarantineUnresolved: a job whose dispatch died in an earlier run runs  *)
(* again only behind a release.                                            *)
THEOREM Quarantine == RunSpec => []QuarantineHolds
<1>1. RunInv => QuarantineHolds
  BY DEF RunInv, InBody, Tracked, Track, Clean, QuarantineHolds
<1> QED
  BY <1>1, RunInvariance, PTL

(* The replay map of a resumed run: what an earlier run finished ok is not *)
(* invoked again unless that verdict was taken back.                       *)
THEOREM InvokedOnce == RunSpec => []NoSecondInvocation
<1>1. RunInv => NoSecondInvocation
  <2> SUFFICES ASSUME RunInv, NEW j \in Jobs, InBody(j), resume
               PROVE  TakenBack(journal[j])
    BY DEF NoSecondInvocation, TakenBack
  <2>1. Tracked(j) /\ phase[j] = "running"
    BY DEF RunInv, InBody
  <2> QED
    BY <2>1 DEF Tracked, Track
<1> QED
  BY <1>1, RunInvariance, PTL

(* A job reported done was settled after whatever quarantined or released  *)
(* it, in this run or in the one it is replayed from.                      *)
THEOREM Freshness == RunSpec => []DoneIsFresh
<1>1. RunInv => DoneIsFresh
  <2> SUFFICES ASSUME RunInv, NEW j \in Jobs, row[j] = "done" PROVE FreshSettle(journal[j])
    BY DEF DoneIsFresh, FreshSettle
  <2>1. up
    BY DEF RunInv
  <2> QED
    BY <2>1 DEF RunInv, Tracked, Track
<1> QED
  BY <1>1, RunInvariance, PTL

(* The governor of a run keeps within its cap and wakes whom it parks,     *)
(* whatever journal it was seeded from.                                    *)
THEOREM GovernedWithinCap == RunSpec => [](CommittedWithinCap /\ NoLostWakeup /\ SlotsExact)
<1>1. RunInv => CommittedWithinCap /\ NoLostWakeup /\ SlotsExact
  BY DEF RunInv, Money, Gate, Fits, CommittedWithinCap, Inv
<1> QED
  BY <1>1, RunInvariance, PTL
-----------------------------------------------------------------------------
(* The money.  What a fold would count of a job, and what the runs before  *)
(* r contribute to it.                                                     *)

Counted(J) == Entries(J, "settled") \union Unresolved(J)
CountedBefore(J, r) == {i \in Counted(J) : J[i].run < r}
UsdIn(J, S) == SumOf([i \in 1 .. Len(J) |-> J[i].usd], S)
PriorUsd(J, r) == UsdIn(J, CountedBefore(J, r))

LEMMA CountedIn ==
  ASSUME NEW J \in Logs, NEW r
  PROVE  /\ Counted(J) \subseteq 1 .. Len(J) /\ CountedBefore(J, r) \subseteq Counted(J)
         /\ IsFiniteSet(Counted(J)) /\ IsFiniteSet(CountedBefore(J, r))
         /\ SeedUsdOf(J) = UsdIn(J, Counted(J))
         /\ SeedUsdOf(J) \in Nat /\ PriorUsd(J, r) \in Nat
<1>1. Counted(J) \subseteq 1 .. Len(J) /\ CountedBefore(J, r) \subseteq Counted(J)
  BY DEF Counted, CountedBefore, Entries, Unresolved
<1>2. SeedUsdOf(J) = UsdIn(J, Counted(J))
  BY DEF SeedUsdOf, UsdIn, Counted
<1>3. CountedBefore(J, r) \subseteq 1 .. Len(J)
  BY <1>1
<1>4. /\ IsFiniteSet(Counted(J)) /\ UsdIn(J, Counted(J)) \in Nat
      /\ IsFiniteSet(CountedBefore(J, r)) /\ PriorUsd(J, r) \in Nat
  BY <1>1, <1>3, EntriesFinite DEF UsdIn, PriorUsd
<1> QED
  BY <1>1, <1>2, <1>4

LEMMA UsdAgree ==
  ASSUME NEW J \in Logs, NEW J2, NEW S, S \subseteq 1 .. Len(J), S \subseteq 1 .. Len(J2),
         \A i \in S : J2[i] = J[i]
  PROVE  UsdIn(J2, S) = UsdIn(J, S)
<1> DEFINE f == [i \in 1 .. Len(J) |-> J[i].usd]
           g == [i \in 1 .. Len(J2) |-> J2[i].usd]
<1>1. IsFiniteSet(S)
  BY EntriesFinite
<1>2. \A i \in S : g[i] = f[i]
  OBVIOUS
<1> HIDE DEF f, g
<1>3. SumOf(g, S) = SumOf(f, S)
  BY <1>1, <1>2, SumSame
<1> QED
  BY <1>3 DEF UsdIn, f, g

(* A part of what is counted sums to no more, and one event more adds its  *)
(* own amount.                                                             *)
LEMMA UsdPart ==
  ASSUME NEW J \in Logs, NEW T, T \subseteq 1 .. Len(J), NEW S, S \subseteq T
  PROVE  /\ UsdIn(J, S) \in Nat /\ UsdIn(J, T) \in Nat
         /\ UsdIn(J, S) <= UsdIn(J, T)
         /\ \A i \in T \ S : UsdIn(J, S) + J[i].usd <= UsdIn(J, T)
<1> DEFINE f == [i \in 1 .. Len(J) |-> J[i].usd]
<1>1. \A U : U \subseteq 1 .. Len(J) => IsFiniteSet(U) /\ SumOf(f, U) \in Nat
  BY EntriesFinite
<1>2. \A i \in 1 .. Len(J) : f[i] \in Nat /\ f[i] = J[i].usd
  BY EventAt
<1> HIDE DEF f
<1>3. ASSUME NEW U, U \subseteq T PROVE SumOf(f, U) <= SumOf(f, T)
  <2> DEFINE R == T \ U
  <2>1. U \cap R = {} /\ U \union R = T /\ R \subseteq 1 .. Len(J) /\ U \subseteq 1 .. Len(J)
    BY <1>3
  <2> HIDE DEF R
  <2>2. IsFiniteSet(U) /\ IsFiniteSet(R) /\ SumOf(f, U) \in Nat /\ SumOf(f, R) \in Nat
    BY <1>1, <2>1
  <2>3. \A x \in U \union R : f[x] \in Nat
    BY <1>2, <2>1
  <2>4. SumOf(f, U \union R) = SumOf(f, U) + SumOf(f, R)
    BY <2>1, <2>2, <2>3, SumUnion
  <2>5. SumOf(f, T) = SumOf(f, U) + SumOf(f, R)
    BY <2>1, <2>4, Zenon
  <2> QED
    BY <2>2, <2>5
<1>4. ASSUME NEW i \in T \ S PROVE SumOf(f, S) + f[i] <= SumOf(f, T)
  <2>1. IsFiniteSet(S) /\ (\A x \in S : f[x] \in Nat) /\ f[i] \in Nat /\ i \notin S
    BY <1>1, <1>2
  <2>2. SumOf(f, S \union {i}) = SumOf(f, S) + f[i]
    BY <2>1, SumAdd
  <2>3. SumOf(f, S \union {i}) <= SumOf(f, T)
    BY <1>3
  <2> QED
    BY <2>2, <2>3
<1>5. \A U : UsdIn(J, U) = SumOf(f, U)
  BY DEF UsdIn, f
<1>6. SumOf(f, S) \in Nat /\ SumOf(f, T) \in Nat /\ SumOf(f, S) <= SumOf(f, T)
  BY <1>1, <1>3
<1>7. \A i \in T \ S : SumOf(f, S) + J[i].usd <= SumOf(f, T)
  BY <1>2, <1>4
<1> QED
  BY <1>5, <1>6, <1>7

(* What the earlier runs contribute no event of this run changes, and an   *)
(* event that is neither an opening nor a settle changes nothing.          *)
LEMMA PriorExtends ==
  ASSUME NEW J \in Logs, NEW J2, NEW e \in Event, Extends(J2, J, e), NEW r \in Nat, e.run = r
  PROVE  /\ PriorUsd(J2, r) = PriorUsd(J, r)
         /\ e.type \notin {"opened", "settled"} => SeedUsdOf(J2) = SeedUsdOf(J)
<1>1. Len(J) \in Nat /\ Len(J2) = Len(J) + 1 /\ J2[Len(J) + 1] = e /\ J2 \in Logs
  BY DEF Extends, Logs
<1>2. \A t : Entries(J2, t) = Entries(J, t) \union IF e.type = t THEN {Len(J) + 1} ELSE {}
  BY EntriesExtend
<1>3. /\ Entries(J2, "opened") =
           Entries(J, "opened") \union IF e.type = "opened" THEN {Len(J) + 1} ELSE {}
      /\ Entries(J2, "settled") =
           Entries(J, "settled") \union IF e.type = "settled" THEN {Len(J) + 1} ELSE {}
  BY <1>2
<1>4. \A i \in 1 .. Len(J) : J2[i] = J[i]
  BY DEF Extends
<1>5. \A t : Entries(J, t) \subseteq 1 .. Len(J)
  BY DEF Entries
<1>6. Unresolved(J2) \subseteq Unresolved(J) \union {Len(J) + 1}
  BY UnresolvedExtend
<1>7. \A i \in Unresolved(J) : J[i].run # r => i \in Unresolved(J2)
  BY <1>1, <1>3, <1>4, <1>5 DEF Unresolved
<1>8. CountedBefore(J2, r) = CountedBefore(J, r)
  <2>1. ASSUME NEW i \in CountedBefore(J2, r) PROVE i \in CountedBefore(J, r)
    <3>1. i \in Counted(J2) /\ J2[i].run < r
      BY DEF CountedBefore
    <3>2. i # Len(J) + 1
      BY <3>1, <1>1
    <3>3. i \in Counted(J)
      BY <3>1, <3>2, <1>3, <1>6 DEF Counted
    <3>4. i \in 1 .. Len(J)
      BY <3>3, CountedIn
    <3> QED
      BY <3>1, <3>3, <3>4, <1>4 DEF CountedBefore
  <2>2. ASSUME NEW i \in CountedBefore(J, r) PROVE i \in CountedBefore(J2, r)
    <3>1. i \in Counted(J) /\ J[i].run < r
      BY DEF CountedBefore
    <3>2. i \in 1 .. Len(J)
      BY <3>1, CountedIn
    <3>3. J[i].run # r
      BY <3>1, <3>2, EventAt
    <3>4. i \in Counted(J2)
      BY <3>1, <3>3, <1>3, <1>7 DEF Counted
    <3> QED
      BY <3>1, <3>2, <3>4, <1>4 DEF CountedBefore
  <2> QED
    BY <2>1, <2>2
<1>9. ASSUME NEW S, S \subseteq Counted(J) PROVE UsdIn(J2, S) = UsdIn(J, S)
  <2>1. S \subseteq 1 .. Len(J) /\ S \subseteq 1 .. Len(J2)
    BY <1>1, <1>9, CountedIn
  <2> QED
    BY <2>1, <1>4, UsdAgree
<1>10. PriorUsd(J2, r) = PriorUsd(J, r)
  BY <1>8, <1>9, CountedIn DEF PriorUsd
<1>11. ASSUME e.type \notin {"opened", "settled"} PROVE SeedUsdOf(J2) = SeedUsdOf(J)
  <2>1. Counted(J2) = Counted(J)
    <3>1. Unresolved(J2) = Unresolved(J)
      BY <1>11, UnresolvedExtend
    <3> QED
      BY <1>3, <1>11, <3>1 DEF Counted
  <2> QED
    BY <1>1, <1>9, <2>1, CountedIn
<1> QED
  BY <1>10, <1>11

(* Before this run's dispatch everything counted is from earlier runs.     *)
LEMMA PriorIsAll ==
  ASSUME NEW J \in Logs, NEW r \in Nat, Log(J, r), NotYet(J, r)
  PROVE  PriorUsd(J, r) = SeedUsdOf(J)
<1>1. \A i \in Counted(J) : J[i].run < r
  <2> TAKE i \in Counted(J)
  <2>1. i \in 1 .. Len(J) /\ J[i].type \in {"opened", "settled"}
    BY DEF Counted, Unresolved, Entries
  <2> QED
    BY <2>1, EventAt DEF NotYet, Log
<1>2. CountedBefore(J, r) = Counted(J)
  BY <1>1 DEF CountedBefore
<1> QED
  BY <1>2, CountedIn DEF PriorUsd

(* An event of this run that is counted adds its own amount.               *)
LEMMA PriorAnd ==
  ASSUME NEW J \in Logs, NEW r \in Nat
  PROVE  /\ PriorUsd(J, r) <= SeedUsdOf(J)
         /\ \A i \in Counted(J) : J[i].run = r => PriorUsd(J, r) + J[i].usd <= SeedUsdOf(J)
<1>1. Counted(J) \subseteq 1 .. Len(J) /\ CountedBefore(J, r) \subseteq Counted(J)
  BY CountedIn
<1>2. \A i \in Counted(J) : J[i].run = r => i \notin CountedBefore(J, r)
  BY DEF CountedBefore
<1> QED
  BY <1>1, <1>2, CountedIn, UsdPart DEF PriorUsd

(* A prefix that lost nothing counted.                                     *)
LEMMA PrefixUsd ==
  ASSUME NEW J \in Logs, NEW n \in Int, n <= Len(J), NEW J2, J2 = SubSeq(J, 1, n),
         \A i \in 1 .. Len(J) : i > n => J[i].type \notin {"opened", "settled"}
  PROVE  SeedUsdOf(J2) = SeedUsdOf(J)
<1>1. /\ J2 \in Logs /\ Len(J2) <= Len(J) /\ Len(J2) \in Nat
      /\ \A i \in 1 .. Len(J2) : J2[i] = J[i]
      /\ \A i \in 1 .. Len(J) : i > n \/ i <= Len(J2)
  BY DEF Logs
<1>2. \A i \in 1 .. Len(J2) : i \in 1 .. Len(J)
  BY <1>1 DEF Logs
<1>3. \A t \in {"opened", "settled"} : Entries(J2, t) = Entries(J, t)
  <2> TAKE t \in {"opened", "settled"}
  <2>1. \A i : i \in Entries(J2, t) <=> i \in Entries(J, t)
    BY <1>1, <1>2 DEF Entries, Logs
  <2> QED
    BY <2>1 DEF Entries
<1>4. \A i \in Entries(J, "opened") \union Entries(J, "settled") : J2[i] = J[i]
  BY <1>1, <1>3 DEF Entries
<1>5. Counted(J2) = Counted(J)
  BY <1>3, <1>4 DEF Counted, Unresolved
<1>6. Counted(J) \subseteq 1 .. Len(J) /\ Counted(J) \subseteq 1 .. Len(J2)
  BY <1>1, <1>5, CountedIn
<1>7. UsdIn(J2, Counted(J)) = UsdIn(J, Counted(J))
  BY <1>1, <1>6, UsdAgree
<1> QED
  BY <1>1, <1>5, <1>7, CountedIn
-----------------------------------------------------------------------------
(* What a job's dispatch has behind it in the ledger of the next run: what *)
(* it has folded or been charged while that is not in its log yet, and its *)
(* log otherwise.                                                          *)
Cover(J, r, ph, o, c) ==
  IF o # NoReservation THEN PriorUsd(J, r) + o.foldedUsd
  ELSE IF ph = "settled" THEN PriorUsd(J, r) + c ELSE SeedUsdOf(J)

Covering(j) == Cover(journal[j], run, phase[j], open[j], charged[j])

(* A governor's step leaves the job k covered as it was.                   *)
Keeps(k) ==
  /\ charged'[k] = charged[k]
  /\ phase'[k] = "settled" <=> phase[k] = "settled"
  /\ \/ open'[k] = open[k]
     \/ /\ open[k] = NoReservation /\ phase[k] \in {"slotted", "parked"}
        /\ open'[k].foldedUsd = 0

LEMMA CoverNat ==
  ASSUME NEW J \in Logs, NEW r, NEW ph, NEW o \in Reservation \union {NoReservation},
         NEW c \in Nat
  PROVE  Cover(J, r, ph, o, c) \in Nat
<1>1. SeedUsdOf(J) \in Nat /\ PriorUsd(J, r) \in Nat
  BY CountedIn
<1>2. o # NoReservation => o.foldedUsd \in Nat
  BY DEF Reservation
<1> QED
  BY <1>1, <1>2 DEF Cover

LEMMA CoverKept ==
  ASSUME NEW J \in Logs, NEW r \in Nat, NEW rs, NEW st, NEW ph, NEW vd, NEW rw,
         NEW o \in Reservation \union {NoReservation}, NEW c \in Nat,
         Track(J, r, rs, st, ph, vd, rw, o),
         NEW ph2, NEW o2, ph2 = "settled" <=> ph = "settled",
         \/ o2 = o
         \/ o = NoReservation /\ ph \in {"slotted", "parked"} /\ o2.foldedUsd = 0
  PROVE  Cover(J, r, ph, o, c) <= Cover(J, r, ph2, o2, c)
<1>1. Cover(J, r, ph, o, c) \in Nat /\ SeedUsdOf(J) \in Nat /\ PriorUsd(J, r) \in Nat
  BY CoverNat, CountedIn
<1>2. CASE o2 = o
  BY <1>1, <1>2 DEF Cover
<1>3. CASE o = NoReservation /\ ph \in {"slotted", "parked"} /\ o2.foldedUsd = 0
  <2>1. Log(J, r) /\ NotYet(J, r)
    BY <1>3 DEF Track, Waiting
  <2>2. PriorUsd(J, r) = SeedUsdOf(J)
    BY <2>1, PriorIsAll
  <2>3. Cover(J, r, ph, o, c) = SeedUsdOf(J)
    BY <1>3 DEF Cover
  <2>4. o2 # NoReservation => Cover(J, r, ph2, o2, c) = SeedUsdOf(J)
    BY <1>1, <1>3, <2>2 DEF Cover
  <2>5. o2 = NoReservation => Cover(J, r, ph2, o2, c) = SeedUsdOf(J)
    BY <1>3 DEF Cover
  <2> QED
    BY <1>1, <2>3, <2>4, <2>5
<1> QED
  BY <1>2, <1>3

LEMMA MoneyAt ==
  ASSUME Money, NEW k \in Jobs
  PROVE  /\ Inv /\ phase \in [Jobs -> Phases] /\ usdSpent \in Nat /\ open \in OpenType
         /\ open[k] \in Reservation \union {NoReservation} /\ charged[k] \in Nat
         /\ charged \in [Jobs -> Nat]
         /\ open[k] # NoReservation <=> phase[k] \in OpenPhases
         /\ phase[k] \in {"reserved", "opened"} => open[k].foldedUsd = 0
BY DEF Money, Inv, Gate, Ledger, Shape, OpenType

LEMMA ReserveKeeps ==
  ASSUME Money, NEW j \in Jobs, Reserve(j), NEW k \in Jobs
  PROVE  Keeps(k) /\ usdSpent' = usdSpent
<1>1. /\ Inv /\ phase[j] = "slotted" /\ phase \in [Jobs -> Phases] /\ open \in OpenType
      /\ open[j] = NoReservation
      /\ UNCHANGED <<charged, usdSpent>>
  BY MoneyAt DEF Reserve, OpenPhases
<1>2. CASE NoTrip([phase EXCEPT ![j] = "refused"]) /\ UNCHANGED open
  BY <1>1, <1>2 DEF NoTrip, Keeps
<1>3. CASE /\ open' = Granted(open, usdSpent, j)
           /\ NoTrip([phase EXCEPT ![j] = "reserved"])
  BY <1>1, <1>3 DEF Granted, OpenType, NoTrip, Keeps
<1>4. CASE TripWith("exhausted", [phase EXCEPT ![j] = "refused"]) /\ UNCHANGED open
  <2>1. \/ phase'[k] = [phase EXCEPT ![j] = "refused"][k]
        \/ phase[k] = "parked" /\ phase'[k] = "refused"
    BY <1>1, <1>4, TripEffect
  <2> QED
    BY <1>1, <1>4, <2>1 DEF Keeps
<1>5. CASE phase' = [phase EXCEPT ![j] = "parked"] /\ UNCHANGED open
  BY <1>1, <1>5 DEF Keeps
<1> QED
  BY <1>1, <1>2, <1>3, <1>4, <1>5 DEF Reserve

LEMMA QuietKeeps ==
  ASSUME Money, NEW k \in Jobs,
         \/ \E j \in Jobs : Admit(j) \/ AcquireSlot(j) \/ OpenDurable(j) \/ EnterBody(j)
         \/ TripSignal
         \/ UNCHANGED govVars
  PROVE  Keeps(k) /\ usdSpent' = usdSpent
<1>1. phase \in [Jobs -> Phases] /\ Inv
  BY MoneyAt
<1>2. ASSUME NEW j \in Jobs, Admit(j) \/ AcquireSlot(j) \/ OpenDurable(j) \/ EnterBody(j)
      PROVE  Keeps(k) /\ usdSpent' = usdSpent
  <2>1. UNCHANGED <<open, charged, usdSpent>>
    BY <1>2 DEF Admit, AcquireSlot, OpenDurable, EnterBody
  <2>2. phase'[k] = "settled" <=> phase[k] = "settled"
    BY <1>1, <1>2 DEF Admit, AcquireSlot, OpenDurable, EnterBody, NoTrip
  <2> QED
    BY <2>1, <2>2 DEF Keeps
<1>3. CASE TripSignal
  <2>1. phase'[k] = phase[k] \/ (phase[k] = "parked" /\ phase'[k] = "refused")
    BY <1>1, <1>3, TripEffect DEF TripSignal
  <2> QED
    BY <1>3, <2>1 DEF Keeps, TripSignal
<1>4. CASE UNCHANGED govVars
  BY <1>4 DEF govVars, Keeps
<1> QED
  BY <1>2, <1>3, <1>4

LEMMA ReleaseKeeps ==
  ASSUME Money, NEW j \in Jobs, ReleaseSlot(j)
  PROVE  /\ \A k \in Jobs \ {j} : Keeps(k)
         /\ phase'[j] = "finished" /\ UNCHANGED <<open, charged, usdSpent>>
<1>1. /\ phase \in [Jobs -> Phases] /\ UNCHANGED <<open, charged, usdSpent>>
      /\ Queued(slotWaiters, phase, "slotWait") /\ phase'[j] = "finished"
  BY MoneyAt, ReleaseDrift DEF ReleaseSlot, Inv
<1>2. \A k \in Jobs \ {j} : phase'[k] = "settled" <=> phase[k] = "settled"
  <2>1. CASE slotWaiters # <<>>
    <3>1. Head(slotWaiters) \in Jobs /\ phase[Head(slotWaiters)] = "slotWait"
      BY <1>1, <2>1 DEF Queued
    <3>2. phase' = [phase EXCEPT ![j] = "finished", ![Head(slotWaiters)] = "slotted"]
      BY <2>1 DEF ReleaseSlot
    <3> QED
      BY <1>1, <3>1, <3>2
  <2>2. CASE slotWaiters = <<>>
    BY <1>1, <2>2 DEF ReleaseSlot
  <2> QED
    BY <2>1, <2>2
<1> QED
  BY <1>1, <1>2 DEF Keeps

LEMMA AbandonKeeps ==
  ASSUME Money, NEW j \in Jobs, AbandonReservation(j)
  PROVE  /\ \A k \in Jobs \ {j} : Keeps(k)
         /\ phase'[j] = "refused" /\ open'[j] = NoReservation
         /\ UNCHANGED <<charged, usdSpent>>
<1> DEFINE o  == [open EXCEPT ![j] = NoReservation]
           ph == [phase EXCEPT ![j] = "refused"]
<1>1. /\ Inv /\ phase[j] # "parked" /\ phase \in [Jobs -> Phases] /\ open \in OpenType
      /\ \A k \in Jobs : phase[k] = "parked" => open[k] = NoReservation
  BY MoneyAt DEF AbandonReservation, OpenPhases
<1>2. /\ o[j] = NoReservation /\ ph[j] = "refused"
      /\ \A k \in Jobs \ {j} : o[k] = open[k] /\ ph[k] = phase[k]
  BY <1>1 DEF OpenType
<1>3. Drain(o, usdSpent, ph) /\ UNCHANGED <<charged, usdSpent>>
  BY DEF AbandonReservation, Drain, TripWith
<1> HIDE DEF o, ph
<1>4. \A k \in Jobs :
        \/ phase'[k] = ph[k] /\ open'[k] = o[k]
        \/ phase[k] = "parked" /\ phase'[k] = "refused" /\ open'[k] = o[k]
        \/ phase[k] = "parked" /\ phase'[k] = "reserved" /\ open'[k].foldedUsd = 0
  BY <1>1, <1>3, DrainEffect
<1> QED
  BY <1>1, <1>2, <1>3, <1>4 DEF Keeps

LEMMA ObserveKeeps ==
  ASSUME Money, NEW j \in Jobs, NEW cost \in Costs, Observe(j, 0, cost)
  PROVE  /\ \A k \in Jobs \ {j} : Keeps(k)
         /\ UNCHANGED charged /\ usdSpent' = usdSpent + cost
         /\ open[j] # NoReservation /\ open[j].foldedUsd \in Nat
         /\ open'[j] # NoReservation /\ open'[j].foldedUsd = open[j].foldedUsd + cost
<1>1. /\ Inv /\ phase \in [Jobs -> Phases] /\ open \in OpenType /\ phase[j] = "running"
      /\ open[j] \in Reservation /\ open[j] # NoReservation
  BY MoneyAt, OpenReservation DEF Observe, OpenPhases
<1>2. cost # NoCost /\ cost \in Nat
  BY GovernorAssumption
<1>3. /\ open' = [open EXCEPT ![j].foldedUsd = @ + cost] /\ usdSpent' = usdSpent + cost
      /\ UNCHANGED charged
  BY <1>2 DEF Observe
<1>4. /\ open'[j] = [usd |-> open[j].usd, foldedUsd |-> open[j].foldedUsd + cost]
      /\ open[j].foldedUsd \in Nat /\ open[j].usd \in Nat
      /\ \A k \in Jobs \ {j} : open'[k] = open[k]
  BY <1>1, <1>3 DEF OpenType, Reservation
<1>5. open'[j] \in [usd : Nat, foldedUsd : Nat]
  BY <1>2, <1>4
<1>6. \A k \in Jobs : phase'[k] = phase[k] \/ (phase[k] = "parked" /\ phase'[k] = "refused")
  BY <1>1, TripEffect DEF Observe, NoTrip
<1> QED
  BY <1>3, <1>4, <1>5, <1>6, <1>1, GovernorAssumption DEF Keeps

LEMMA SettleKeeps ==
  ASSUME Money, NEW j \in Jobs, NEW basis, Settle(j, basis)
  PROVE  /\ \A k \in Jobs \ {j} : Keeps(k)
         /\ phase'[j] = "settled" /\ open'[j] = NoReservation
         /\ open[j] # NoReservation /\ open[j].foldedUsd \in Nat
         /\ charged'[j] \in Nat /\ open[j].foldedUsd <= charged'[j]
         /\ usdSpent' \in Nat /\ usdSpent <= usdSpent'
<1> DEFINE c  == Charge(open[j], basis)
           o  == [open EXCEPT ![j] = NoReservation]
           ph == [phase EXCEPT ![j] = "settled"]
<1>1. /\ Inv /\ phase[j] \in {"opened", "running"} /\ phase \in [Jobs -> Phases]
      /\ open \in OpenType /\ charged \in [Jobs -> Nat] /\ usdSpent \in Nat
      /\ \A k \in Jobs : phase[k] = "parked" => open[k] = NoReservation
  BY MoneyAt DEF Settle, OpenPhases
<1>2. /\ open[j] # NoReservation /\ open[j].usd \in Nat /\ open[j].foldedUsd \in Nat
  BY <1>1, OpenReservation, MoneyAt DEF OpenPhases
<1>3. /\ o[j] = NoReservation /\ ph[j] = "settled"
      /\ \A k \in Jobs \ {j} : o[k] = open[k] /\ ph[k] = phase[k]
  BY <1>1 DEF OpenType
<1>4. c \in Nat /\ open[j].foldedUsd <= c
  BY <1>2 DEF Charge
<1>5. /\ charged' = [charged EXCEPT ![j] = c]
      /\ usdSpent' = usdSpent + Remainder(c, open[j].foldedUsd)
      /\ \/ \E kind : TripWith(kind, ph) /\ open' = o
         \/ \E spent : Drain(o, spent, ph)
  BY DEF Settle, SettleGate
<1> HIDE DEF c, o, ph
<1>6. /\ charged'[j] = c /\ \A k \in Jobs \ {j} : charged'[k] = charged[k]
  BY <1>1, <1>5
<1>7. usdSpent' \in Nat /\ usdSpent <= usdSpent'
  BY <1>1, <1>2, <1>4, <1>5 DEF Remainder
<1>8. \A k \in Jobs :
        \/ phase'[k] = ph[k] /\ open'[k] = o[k]
        \/ phase[k] = "parked" /\ phase'[k] = "refused" /\ open'[k] = o[k]
        \/ phase[k] = "parked" /\ phase'[k] = "reserved" /\ open'[k].foldedUsd = 0
  BY <1>1, <1>5, TripEffect, DrainEffect
<1> QED
  BY <1>1, <1>2, <1>3, <1>4, <1>6, <1>7, <1>8 DEF Keeps
-----------------------------------------------------------------------------
(* What operations reported, in all runs, is covered.                      *)

LEMMA SumMono ==
  ASSUME NEW f, NEW g, NEW S, IsFiniteSet(S),
         \A x \in S : f[x] \in Nat /\ g[x] \in Nat /\ f[x] <= g[x]
  PROVE  SumOf(f, S) \in Nat /\ SumOf(g, S) \in Nat /\ SumOf(f, S) <= SumOf(g, S)
<1> DEFINE h == [x \in S |-> 0]
<1>1. \A x \in S : h[x] = 0
  OBVIOUS
<1> HIDE DEF h
<1>2. \A x \in S : h[x] \in Nat /\ f[x] <= g[x] + h[x]
  BY <1>1
<1>3. SumOf(f, S) <= SumOf(g, S) + SumOf(h, S)
  BY <1>2, SumBelow
<1>4. SumOf(h, S) = Cardinality(S) * 0 /\ Cardinality(S) \in Nat
  BY <1>1, SumConstant, FS_CardinalityType
<1>5. SumOf(f, S) \in Nat /\ SumOf(g, S) \in Nat
  BY SumNat
<1> QED
  BY <1>3, <1>4, <1>5

LEMMA SumShift ==
  ASSUME NEW f, NEW g, NEW S, IsFiniteSet(S), NEW j \in S, NEW a \in Nat, NEW b \in Nat,
         \A x \in S : f[x] \in Nat /\ g[x] \in Nat,
         \A x \in S \ {j} : f[x] <= g[x],
         f[j] + a <= g[j] + b
  PROVE  /\ SumOf(f, S) \in Nat /\ SumOf(g, S) \in Nat
         /\ SumOf(f, S) + a <= SumOf(g, S) + b
<1>1. IsFiniteSet(S \ {j})
  BY FS_Subset
<1>2. /\ SumOf(f, S \ {j}) \in Nat /\ SumOf(g, S \ {j}) \in Nat
      /\ SumOf(f, S \ {j}) <= SumOf(g, S \ {j})
  BY <1>1, SumMono
<1>3. SumOf(f, S) = f[j] + SumOf(f, S \ {j}) /\ SumOf(g, S) = g[j] + SumOf(g, S \ {j})
  BY SumRemove
<1>4. f[j] \in Nat /\ g[j] \in Nat
  OBVIOUS
<1> QED
  BY <1>2, <1>3, <1>4

(* What a crash may take back of J is nothing a fold counts.               *)
Pending(us, j) == Cardinality({m \in 1 .. Len(us) : us[m] = j})

Quietly(J, n) ==
  \A i \in 1 .. Len(J) : i > Len(J) - n => J[i].type \notin {"opened", "settled"}

CoveredUsd == SumOf([j \in Jobs |-> Covering(j)], Jobs)

CoverInv ==
  /\ \A j \in Jobs : Quietly(journal[j], Pending(unsynced, j))
  /\ spentEver <= CoveredUsd + lost
  /\ LedgerCoversSpend

LEMMA PendingNat == ASSUME NEW us \in Seq(Jobs), NEW j PROVE Pending(us, j) \in Nat
<1>1. IsFiniteSet(1 .. Len(us))
  BY FS_Interval
<1>2. IsFiniteSet({m \in 1 .. Len(us) : us[m] = j})
  BY <1>1, FS_Subset
<1> QED
  BY <1>2, FS_CardinalityType DEF Pending

LEMMA PendingAppend ==
  ASSUME NEW us \in Seq(Jobs), NEW j \in Jobs, NEW k \in Jobs
  PROVE  Pending(Append(us, j), k) = Pending(us, k) + IF j = k THEN 1 ELSE 0
<1> DEFINE S == {m \in 1 .. Len(us) : us[m] = k}
           S2 == {m \in 1 .. Len(Append(us, j)) : Append(us, j)[m] = k}
<1>1. /\ Len(us) \in Nat /\ Len(Append(us, j)) = Len(us) + 1
      /\ Append(us, j)[Len(us) + 1] = j
      /\ \A m \in 1 .. Len(us) : Append(us, j)[m] = us[m]
  OBVIOUS
<1>2. \A m : m \in 1 .. Len(us) + 1 <=> m \in 1 .. Len(us) \/ m = Len(us) + 1
  BY <1>1
<1>3. S2 = S \union IF j = k THEN {Len(us) + 1} ELSE {}
  BY <1>1, <1>2
<1>4. IsFiniteSet(S) /\ Len(us) + 1 \notin S
  <2>1. IsFiniteSet(1 .. Len(us))
    BY <1>1, FS_Interval
  <2> QED
    BY <1>1, <2>1, FS_Subset
<1>5. Pending(us, k) = Cardinality(S) /\ Pending(Append(us, j), k) = Cardinality(S2)
  BY DEF Pending
<1> HIDE DEF S, S2
<1>6. Cardinality(S) \in Nat
  BY <1>4, FS_CardinalityType
<1>7. CASE j = k
  <2>1. S2 = S \union {Len(us) + 1}
    BY <1>3, <1>7
  <2>2. Cardinality(S2) = Cardinality(S) + 1
    BY <1>4, <2>1, FS_AddElement
  <2> QED
    BY <1>5, <1>7, <2>2
<1>8. CASE j # k
  BY <1>3, <1>5, <1>6, <1>8
<1> QED
  BY <1>7, <1>8

LEMMA QuietlyExtends ==
  ASSUME NEW J \in Logs, NEW J2, NEW e \in Event, Extends(J2, J, e),
         e.type \notin {"opened", "settled"}, NEW n \in Nat, Quietly(J, n)
  PROVE  Quietly(J2, n + 1)
<1>1. Len(J) \in Nat /\ Len(J2) = Len(J) + 1 /\ J2[Len(J) + 1] = e
  BY DEF Extends, Logs
<1>2. \A i \in 1 .. Len(J) : J2[i] = J[i]
  BY DEF Extends
<1> QED
  BY <1>1, <1>2 DEF Quietly

(* The events of k stay, or one that a fold does not count is added.       *)
Plain(k) ==
  \/ journal'[k] = journal[k]
  \/ \E e \in Event : /\ Extends(journal'[k], journal[k], e) /\ e.run = run
                      /\ e.type \notin {"opened", "settled"}

LEMMA CoveringNat == RunInv => \A k \in Jobs : Covering(k) \in Nat
<1> SUFFICES ASSUME RunInv, NEW k \in Jobs PROVE Covering(k) \in Nat
  OBVIOUS
<1>1. journal[k] \in Logs /\ Money
  BY DEF RunInv, RunTypes
<1> QED
  BY <1>1, MoneyAt, CoverNat DEF Covering

LEMMA KeptCovering ==
  ASSUME RunInv, up, NEW k \in Jobs, run' = run, Keeps(k), Plain(k)
  PROVE  Covering(k) <= Covering(k)'
<1>1. /\ journal[k] \in Logs /\ run \in Nat /\ Tracked(k) /\ charged[k] \in Nat
      /\ open[k] \in Reservation \union {NoReservation}
  BY MoneyAt DEF RunInv, RunTypes
<1>2. PICK J2, o2, ph2 : J2 = journal'[k] /\ o2 = open'[k] /\ ph2 = phase'[k]
  OBVIOUS
<1>3. Cover(journal[k], run, phase[k], open[k], charged[k])
        <= Cover(journal[k], run, ph2, o2, charged[k])
  BY <1>1, <1>2, CoverKept DEF Tracked, Keeps
<1>4. Cover(J2, run, ph2, o2, charged[k]) = Cover(journal[k], run, ph2, o2, charged[k])
  <2>1. CASE J2 = journal[k]
    BY <2>1
  <2>2. ASSUME NEW e \in Event, Extends(J2, journal[k], e), e.run = run,
               e.type \notin {"opened", "settled"}
        PROVE  PriorUsd(J2, run) = PriorUsd(journal[k], run)
               /\ SeedUsdOf(J2) = SeedUsdOf(journal[k])
    BY <1>1, <2>2, PriorExtends
  <2> QED
    BY <1>2, <2>1, <2>2 DEF Plain, Cover
<1>5. Covering(k)' = Cover(J2, run, ph2, o2, charged[k])
  BY <1>2 DEF Covering, Keeps
<1> QED
  BY <1>3, <1>4, <1>5 DEF Covering

(* A step that changes what one job j is covered by, and what it reported. *)
LEMMA CoverStep ==
  ASSUME RunInv, RunInv', CoverInv, NEW j \in Jobs, up, up', run' = run,
         \A k \in Jobs \ {j} : Keeps(k) /\ journal'[k] = journal[k],
         NEW a \in Nat, NEW b \in Nat, Covering(j) + a <= Covering(j)' + b,
         spentEver' = spentEver + a, lost' = lost + b,
         usdSpent' \in Nat, usdSpent + a <= usdSpent',
         \A k \in Jobs : Quietly(journal'[k], Pending(unsynced', k))
  PROVE  CoverInv'
<1> DEFINE f == [k \in Jobs |-> Covering(k)]
           g == [k \in Jobs |-> Covering(k)']
<1>1. \A k \in Jobs \ {j} : Covering(k) <= Covering(k)'
  BY KeptCovering DEF Plain
<1>2. \A k \in Jobs : Covering(k) \in Nat /\ Covering(k)' \in Nat
  <2>1. \A k \in Jobs : Covering(k) \in Nat
    BY CoveringNat
  <2>2. (\A k \in Jobs : Covering(k) \in Nat)'
    BY CoveringNat, PTL
  <2> QED
    BY <2>1, <2>2
<1>3. /\ \A k \in Jobs : f[k] \in Nat /\ g[k] \in Nat
      /\ \A k \in Jobs \ {j} : f[k] <= g[k]
      /\ f[j] + a <= g[j] + b
  BY <1>1, <1>2
<1>4. CoveredUsd = SumOf(f, Jobs) /\ CoveredUsd' = SumOf(g, Jobs)
  BY DEF CoveredUsd
<1> HIDE DEF f, g
<1>5. /\ SumOf(f, Jobs) \in Nat /\ SumOf(g, Jobs) \in Nat
      /\ SumOf(f, Jobs) + a <= SumOf(g, Jobs) + b
  BY <1>3, GovernorAssumption, SumShift
<1>6. /\ spentEver \in Nat /\ lost \in Nat /\ usdSpent \in Nat
      /\ spentEver <= CoveredUsd + lost /\ usdSpent + lost >= spentEver
  BY MoneyAt DEF RunInv, RunTypes, CoverInv, LedgerCoversSpend, Money, Gate, Shape
<1>7. spentEver' <= CoveredUsd' + lost' /\ usdSpent' + lost' >= spentEver'
  BY <1>4, <1>5, <1>6
<1> QED
  BY <1>7 DEF CoverInv, LedgerCoversSpend

(* A step that changes nothing counted. *)
LEMMA CoverSame ==
  ASSUME RunInv, RunInv', CoverInv, up, run' = run, UNCHANGED <<spentEver, lost, usdSpent>>,
         \A k \in Jobs : Keeps(k) /\ Plain(k),
         \A k \in Jobs : Quietly(journal'[k], Pending(unsynced', k))
  PROVE  CoverInv'
<1> DEFINE f == [k \in Jobs |-> Covering(k)]
           g == [k \in Jobs |-> Covering(k)']
<1>1. \A k \in Jobs : Covering(k) <= Covering(k)'
  BY KeptCovering
<1>2. \A k \in Jobs : Covering(k) \in Nat
  BY CoveringNat
<1>3. (\A k \in Jobs : Covering(k) \in Nat)'
  BY CoveringNat, PTL
<1>4. \A k \in Jobs : f[k] \in Nat /\ g[k] \in Nat /\ f[k] <= g[k]
  BY <1>1, <1>2, <1>3
<1>5. CoveredUsd = SumOf(f, Jobs) /\ CoveredUsd' = SumOf(g, Jobs)
  BY DEF CoveredUsd
<1> HIDE DEF f, g
<1>6. SumOf(f, Jobs) \in Nat /\ SumOf(g, Jobs) \in Nat /\ SumOf(f, Jobs) <= SumOf(g, Jobs)
  BY <1>4, GovernorAssumption, SumMono
<1>7. spentEver' <= CoveredUsd' + lost'
  BY <1>5, <1>6 DEF RunInv, RunTypes, CoverInv
<1> QED
  BY <1>7 DEF CoverInv, LedgerCoversSpend

LEMMA QuietlyEmit ==
  ASSUME RunInv, CoverInv, NEW j \in Jobs, NEW type \in {"started", "finished"},
         NEW ok \in BOOLEAN, Emit(j, type, ok)
  PROVE  \A k \in Jobs : Plain(k) /\ Quietly(journal'[k], Pending(unsynced', k))
<1>1. RunTypes /\ unsynced \in Seq(Jobs)
  BY DEF RunInv, RunTypes
<1>2. /\ \A k \in Jobs \ {j} : journal'[k] = journal[k]
      /\ \E e \in Event : /\ e.type = type /\ e.run = run
                          /\ Extends(journal'[j], journal[j], e)
  BY <1>1, Emitted DEF Emit, EventTypes
<1>3. PICK e \in Event : e.type = type /\ e.run = run /\ Extends(journal'[j], journal[j], e)
  BY <1>2
<1>4. PICK us : us = unsynced'
  OBVIOUS
<1>5. /\ us = Append(unsynced, j)
      /\ \A k \in Jobs : Pending(us, k) = Pending(unsynced, k) + IF j = k THEN 1 ELSE 0
  BY <1>1, <1>4, PendingAppend DEF Emit
<1>6. ASSUME NEW k \in Jobs \ {j} PROVE Plain(k) /\ Quietly(journal'[k], Pending(us, k))
  <2>1. Pending(us, k) = Pending(unsynced, k)
    BY <1>1, <1>5, PendingNat
  <2> QED
    BY <1>2, <2>1 DEF Plain, CoverInv
<1>7. Plain(j)
  BY <1>3 DEF Plain
<1>8. Quietly(journal'[j], Pending(us, j))
  <2>1. Pending(unsynced, j) \in Nat
    BY <1>1, PendingNat
  <2>2. Quietly(journal[j], Pending(unsynced, j)) /\ journal[j] \in Logs
    BY <1>1 DEF CoverInv, RunTypes
  <2>3. PICK J2 : J2 = journal'[j]
    OBVIOUS
  <2>4. Extends(J2, journal[j], e) /\ e.type \notin {"opened", "settled"}
    BY <1>3, <2>3
  <2>5. Quietly(J2, Pending(unsynced, j) + 1)
    BY <2>1, <2>2, <2>4, QuietlyExtends
  <2> QED
    BY <1>5, <2>3, <2>5
<1> QED
  BY <1>4, <1>6, <1>7, <1>8

LEMMA QuietlyStays ==
  ASSUME RunInv, CoverInv, UNCHANGED <<journal, unsynced>>
  PROVE  \A k \in Jobs : Plain(k) /\ Quietly(journal'[k], Pending(unsynced', k))
BY DEF CoverInv, Plain

LEMMA QuietlySynced ==
  ASSUME unsynced' = <<>>, NEW k, journal'[k] \in Logs
  PROVE  Quietly(journal'[k], Pending(unsynced', k))
<1>1. Pending(<<>>, k) = 0
  <2>1. {m \in 1 .. Len(<<>>) : <<>>[m] = k} = {}
    OBVIOUS
  <2> QED
    BY <2>1, FS_EmptySet DEF Pending
<1>2. Quietly(journal'[k], 0)
  BY DEF Quietly, Logs
<1> QED
  BY <1>1, <1>2

LEMMA PlainCover ==
  ASSUME RunInv, RunInv', CoverInv, NEW j \in Jobs,
         \/ Submit(j) \/ Withdraw(j) \/ Dispatch(j) \/ Finish(j) \/ LeaveRefused(j)
         \/ TakeSlot(j) \/ AskReservation(j) \/ Invoke(j)
  PROVE  CoverInv'
<1>1. Money
  BY DEF RunInv
<1>2. CASE Submit(j) \/ Withdraw(j) \/ Dispatch(j) \/ Finish(j)
  <2>1. /\ up /\ run' = run /\ UNCHANGED <<spentEver, lost>>
        /\ UNCHANGED govVars \/ Admit(j)
    BY <1>2 DEF Submit, Withdraw, Dispatch, Finish
  <2>2. \A k \in Jobs : Keeps(k) /\ usdSpent' = usdSpent
    BY <1>1, <2>1, QuietKeeps
  <2>3. \/ UNCHANGED <<journal, unsynced>>
        \/ \E type \in {"started", "finished"}, ok \in BOOLEAN : Emit(j, type, ok)
    BY <1>2 DEF Submit, Withdraw, Dispatch, Finish
  <2>4. \A k \in Jobs : Plain(k) /\ Quietly(journal'[k], Pending(unsynced', k))
    BY <2>3, QuietlyEmit, QuietlyStays
  <2> QED
    BY <2>1, <2>2, <2>4, CoverSame
<1>3. CASE LeaveRefused(j)
  <2>1. /\ up /\ run' = run /\ UNCHANGED <<spentEver, lost, journal, unsynced>>
        /\ phase[j] = "refused" /\ ReleaseSlot(j)
    BY <1>3 DEF LeaveRefused
  <2>2. UNCHANGED usdSpent /\ \A k \in Jobs : Keeps(k)
    BY <1>1, <2>1, ReleaseKeeps DEF Keeps
  <2>3. \A k \in Jobs : Plain(k) /\ Quietly(journal'[k], Pending(unsynced', k))
    BY <2>1, QuietlyStays
  <2> QED
    BY <2>1, <2>2, <2>3, CoverSame
<1>4. CASE TakeSlot(j) \/ AskReservation(j) \/ Invoke(j)
  <2>1. up /\ run' = run /\ UNCHANGED <<spentEver, lost, journal, unsynced>>
    BY <1>4 DEF TakeSlot, AskReservation, Invoke, OnlyGovernor, runVars
  <2>2. \A k \in Jobs : Keeps(k) /\ usdSpent' = usdSpent
    BY <1>1, <1>4, QuietKeeps, ReserveKeeps DEF TakeSlot, AskReservation, Invoke
  <2>3. \A k \in Jobs : Plain(k) /\ Quietly(journal'[k], Pending(unsynced', k))
    BY <2>1, QuietlyStays
  <2> QED
    BY <2>1, <2>2, <2>3, CoverSame
<1> QED
  BY <1>2, <1>3, <1>4

LEMMA SignalCover == ASSUME RunInv, RunInv', CoverInv, FailRun \/ Cancel PROVE CoverInv'
<1>1. /\ up /\ run' = run /\ UNCHANGED <<spentEver, lost, journal, unsynced>>
      /\ TripSignal \/ UNCHANGED govVars
  BY DEF FailRun, Cancel, OnlyGovernor, runVars
<1>2. (\A k \in Jobs : Keeps(k)) /\ usdSpent' = usdSpent
  <2>1. \A k \in Jobs : Keeps(k)
    BY <1>1, QuietKeeps DEF RunInv
  <2>2. usdSpent' = usdSpent
    BY <1>1 DEF TripSignal, govVars
  <2> QED
    BY <2>1, <2>2
<1>3. \A k \in Jobs : Plain(k) /\ Quietly(journal'[k], Pending(unsynced', k))
  BY <1>1, QuietlyStays
<1> QED
  BY <1>1, <1>2, <1>3, CoverSame

LEMMA WriteOpenedCover ==
  ASSUME RunInv, RunInv', CoverInv, NEW j \in Jobs, WriteOpened(j)
  PROVE  CoverInv'
<1>1. /\ Money /\ RunTypes /\ RunTypes' /\ up /\ up' = up /\ run' = run
      /\ OpenDurable(j) /\ phase[j] = "reserved" /\ UNCHANGED <<open, charged>>
      /\ Appended(j, "opened", open[j].usd, FALSE) /\ unsynced' = <<>>
      /\ UNCHANGED <<spentEver, lost, usdSpent>>
  BY DEF RunInv, WriteOpened, OpenDurable, EmitDurable
<1>2. /\ open[j] # NoReservation /\ open[j].usd \in Nat /\ open[j].foldedUsd \in Nat
      /\ usdSpent \in Nat /\ journal[j] \in Logs /\ run \in Nat
  BY <1>1, MoneyAt, OpenReservation DEF OpenPhases, RunTypes
<1>3. \A k \in Jobs : Keeps(k)
  BY <1>1, QuietKeeps
<1> DEFINE e == [type |-> "opened", run |-> run, usd |-> open[j].usd, ok |-> FALSE]
<1>4. /\ journal'[j] = Append(journal[j], e)
      /\ \A k \in Jobs \ {j} : journal'[k] = journal[k]
  BY <1>1 DEF RunTypes, Appended
<1>5. e \in Event /\ e.run = run
  BY <1>2 DEF Event, EventTypes
<1>6. Extends(Append(journal[j], e), journal[j], e)
  BY <1>2, <1>5, AppendExtends
<1>7. PriorUsd(journal'[j], run) = PriorUsd(journal[j], run)
  <2>1. PriorUsd(Append(journal[j], e), run) = PriorUsd(journal[j], run)
    BY <1>2, <1>5, <1>6, PriorExtends
  <2> QED
    BY <1>4, <2>1
<1> HIDE DEF e
<1>8. Covering(j)' = Covering(j) /\ Covering(j) \in Nat
  BY <1>1, <1>2, <1>7, CoveringNat DEF Covering, Cover
<1>9. \A k \in Jobs : Quietly(journal'[k], Pending(unsynced', k))
  BY <1>1, QuietlySynced DEF RunTypes
<1>10. /\ Covering(j) + 0 <= Covering(j)' + 0 /\ spentEver' = spentEver + 0 /\ lost' = lost + 0
       /\ usdSpent' \in Nat /\ usdSpent + 0 <= usdSpent'
  BY <1>1, <1>2, <1>8 DEF RunTypes
<1> QED
  BY <1>1, <1>3, <1>4, <1>9, <1>10, CoverStep

LEMMA AbandonCover ==
  ASSUME RunInv, RunInv', CoverInv, NEW j \in Jobs, Abandon(j)
  PROVE  CoverInv'
<1>1. /\ Money /\ RunTypes /\ up /\ up' = up /\ run' = run /\ AbandonReservation(j)
      /\ phase[j] \in {"reserved", "opened"}
      /\ UNCHANGED <<journal, unsynced, spentEver, lost>>
  BY DEF RunInv, Abandon, AbandonReservation
<1>2. /\ open[j] # NoReservation /\ open[j].foldedUsd = 0 /\ usdSpent \in Nat
      /\ journal[j] \in Logs /\ run \in Nat
  BY <1>1, MoneyAt DEF OpenPhases, RunTypes
<1>3. /\ \A k \in Jobs \ {j} : Keeps(k)
      /\ phase'[j] = "refused" /\ open'[j] = NoReservation /\ usdSpent' = usdSpent
  BY <1>1, AbandonKeeps
<1>4. /\ PriorUsd(journal[j], run) \in Nat /\ SeedUsdOf(journal[j]) \in Nat
      /\ PriorUsd(journal[j], run) <= SeedUsdOf(journal[j])
  BY <1>2, CountedIn, PriorAnd
<1>5. Covering(j) = PriorUsd(journal[j], run) /\ Covering(j)' = SeedUsdOf(journal[j])
  BY <1>1, <1>2, <1>3, <1>4 DEF Covering, Cover
<1>6. \A k \in Jobs : Quietly(journal'[k], Pending(unsynced', k))
  BY <1>1, QuietlyStays
<1>7. /\ Covering(j) + 0 <= Covering(j)' + 0 /\ spentEver' = spentEver + 0 /\ lost' = lost + 0
      /\ usdSpent' \in Nat /\ usdSpent + 0 <= usdSpent'
  BY <1>1, <1>2, <1>3, <1>4, <1>5 DEF RunTypes
<1> QED
  BY <1>1, <1>3, <1>6, <1>7, CoverStep

LEMMA ReportCover ==
  ASSUME RunInv, RunInv', CoverInv, NEW j \in Jobs, NEW cost \in Costs, Report(j, cost)
  PROVE  CoverInv'
<1>1. /\ Money /\ RunTypes /\ up /\ up' = up /\ run' = run /\ Observe(j, 0, cost)
      /\ UNCHANGED <<journal, unsynced, lost>> /\ spentEver' = spentEver + cost
  BY DEF RunInv, Report
<1>2. journal[j] \in Logs /\ run \in Nat /\ usdSpent \in Nat /\ cost \in Nat
  BY <1>1, MoneyAt, GovernorAssumption DEF RunTypes
<1>3. /\ \A k \in Jobs \ {j} : Keeps(k)
      /\ usdSpent' = usdSpent + cost
      /\ open[j] # NoReservation /\ open[j].foldedUsd \in Nat
      /\ open'[j] # NoReservation /\ open'[j].foldedUsd = open[j].foldedUsd + cost
  BY <1>1, ObserveKeeps
<1>4. PriorUsd(journal[j], run) \in Nat
  BY <1>2, CountedIn
<1>5. /\ Covering(j) = PriorUsd(journal[j], run) + open[j].foldedUsd
      /\ Covering(j)' = PriorUsd(journal[j], run) + open'[j].foldedUsd
  BY <1>1, <1>3 DEF Covering, Cover
<1>6. \A k \in Jobs : Quietly(journal'[k], Pending(unsynced', k))
  BY <1>1, QuietlyStays
<1>7. /\ Covering(j) + cost <= Covering(j)' + 0 /\ lost' = lost + 0
      /\ usdSpent' \in Nat /\ usdSpent + cost <= usdSpent'
  BY <1>1, <1>2, <1>3, <1>4, <1>5 DEF RunTypes
<1> QED
  BY <1>1, <1>2, <1>3, <1>6, <1>7, CoverStep

LEMMA EndCover ==
  ASSUME RunInv, RunInv', CoverInv, NEW j \in Jobs, NEW basis, NEW v, End(j, basis, v)
  PROVE  CoverInv'
<1>1. /\ Money /\ RunTypes /\ up /\ up' = up /\ run' = run /\ Settle(j, basis)
      /\ UNCHANGED <<journal, unsynced, spentEver, lost>>
  BY DEF RunInv, End
<1>2. journal[j] \in Logs /\ run \in Nat /\ usdSpent \in Nat
  BY <1>1, MoneyAt DEF RunTypes
<1>3. /\ \A k \in Jobs \ {j} : Keeps(k)
      /\ phase'[j] = "settled" /\ open'[j] = NoReservation
      /\ open[j] # NoReservation /\ open[j].foldedUsd \in Nat
      /\ charged'[j] \in Nat /\ open[j].foldedUsd <= charged'[j]
      /\ usdSpent' \in Nat /\ usdSpent <= usdSpent'
  BY <1>1, SettleKeeps
<1>4. PriorUsd(journal[j], run) \in Nat
  BY <1>2, CountedIn
<1>5. /\ Covering(j) = PriorUsd(journal[j], run) + open[j].foldedUsd
      /\ Covering(j)' = PriorUsd(journal[j], run) + charged'[j]
  BY <1>1, <1>3 DEF Covering, Cover
<1>6. \A k \in Jobs : Quietly(journal'[k], Pending(unsynced', k))
  BY <1>1, QuietlyStays
<1>7. /\ Covering(j) + 0 <= Covering(j)' + 0 /\ spentEver' = spentEver + 0 /\ lost' = lost + 0
      /\ usdSpent + 0 <= usdSpent'
  BY <1>1, <1>2, <1>3, <1>4, <1>5 DEF RunTypes
<1> QED
  BY <1>1, <1>3, <1>6, <1>7, CoverStep

(* What a dispatch leaves behind that its settle does not reach the log:   *)
(* its reservation in full, and whatever it overshot is counted as lost.   *)
LEMMA OvershootCovers ==
  ASSUME RunInv, up, NEW j \in Jobs
  PROVE  IF open[j] # NoReservation \/ phase[j] = "settled"
           THEN Covering(j) <= SeedUsdOf(journal[j]) + Overshoot(j)
           ELSE Covering(j) = SeedUsdOf(journal[j])
<1>1. /\ Money /\ RunTypes /\ Tracked(j) /\ journal[j] \in Logs /\ run \in Nat
      /\ open[j] \in Reservation \union {NoReservation} /\ charged[j] \in Nat
      /\ open[j] # NoReservation <=> phase[j] \in OpenPhases
      /\ phase[j] \in {"reserved", "opened"} => open[j].foldedUsd = 0
  BY MoneyAt DEF RunInv, RunTypes
<1>2. PICK prior \in Nat, all \in Nat :
        prior = PriorUsd(journal[j], run) /\ all = SeedUsdOf(journal[j])
  BY <1>1, CountedIn
<1>3. /\ prior <= all
      /\ \A i \in Counted(journal[j]) :
           journal[j][i].run = run => prior + journal[j][i].usd <= all
  BY <1>1, <1>2, PriorAnd
<1>4. \A i \in Unresolved(journal[j]) : i \in Counted(journal[j]) /\ journal[j][i].usd \in Nat
  BY <1>1, EventAt DEF Counted, Unresolved, Entries
<1>5. \A usd : InFlight(journal[j], run, usd) =>
        \E i \in Unresolved(journal[j]) : journal[j][i].run = run /\ journal[j][i].usd = usd
  BY DEF InFlight, Unresolved, Entries
<1>6. CASE open[j] # NoReservation
  <2>1. open[j].usd \in Nat /\ open[j].foldedUsd \in Nat /\ phase[j] \in OpenPhases
    BY <1>1, <1>6 DEF Reservation
  <2>2. Covering(j) = prior + open[j].foldedUsd
    BY <1>2, <1>6 DEF Covering, Cover
  <2>3. Overshoot(j) = IF open[j].foldedUsd > open[j].usd
                         THEN open[j].foldedUsd - open[j].usd ELSE 0
    BY <2>1 DEF Overshoot, OpenPhases
  <2>4. open[j].foldedUsd = 0 \/ prior + open[j].usd <= all
    <3>1. CASE phase[j] = "reserved"
      BY <1>1, <3>1
    <3>2. CASE phase[j] \in {"opened", "running"}
      BY <1>1, <1>3, <1>4, <1>5, <3>2 DEF Tracked, Track
    <3> QED
      BY <2>1, <3>1, <3>2 DEF OpenPhases
  <2> QED
    BY <1>2, <1>3, <1>6, <2>1, <2>2, <2>3, <2>4
<1>7. CASE open[j] = NoReservation /\ phase[j] = "settled"
  <2>1. \E i \in Unresolved(journal[j]) : journal[j][i].run = run
    BY <1>1, <1>5, <1>7 DEF Tracked, Track
  <2> DEFINE opened == CHOOSE i \in Unresolved(journal[j]) : journal[j][i].run = run
  <2>2. opened \in Unresolved(journal[j]) /\ journal[j][opened].run = run
    BY <2>1
  <2>3. Overshoot(j) = IF charged[j] > journal[j][opened].usd
                         THEN charged[j] - journal[j][opened].usd ELSE 0
    BY <1>7 DEF Overshoot
  <2> HIDE DEF opened
  <2>4. PICK held \in Nat : held = journal[j][opened].usd /\ prior + held <= all
    BY <1>3, <1>4, <2>2
  <2>5. Covering(j) = prior + charged[j]
    BY <1>2, <1>7 DEF Covering, Cover
  <2> QED
    BY <1>1, <1>2, <1>7, <2>3, <2>4, <2>5
<1>8. CASE open[j] = NoReservation /\ phase[j] # "settled"
  BY <1>8 DEF Covering, Cover
<1> QED
  BY <1>6, <1>7, <1>8

LEMMA WriteSettledCover ==
  ASSUME RunInv, RunInv', CoverInv, NEW j \in Jobs, WriteSettled(j)
  PROVE  CoverInv'
<1>1. /\ Money /\ RunTypes /\ RunTypes' /\ up /\ up' = up /\ run' = run /\ ReleaseSlot(j)
      /\ phase[j] = "settled" /\ spentEver' = spentEver
  BY DEF RunInv, WriteSettled
<1>2. /\ open[j] = NoReservation /\ charged[j] \in Nat
      /\ usdSpent \in Nat /\ journal[j] \in Logs /\ run \in Nat
  BY <1>1, MoneyAt DEF OpenPhases, RunTypes
<1>3. /\ \A k \in Jobs \ {j} : Keeps(k)
      /\ phase'[j] = "finished" /\ UNCHANGED <<open, charged, usdSpent>>
  BY <1>1, ReleaseKeeps
<1>4. Covering(j) = PriorUsd(journal[j], run) + charged[j]
  BY <1>1, <1>2 DEF Covering, Cover
<1>5. PICK J2 : J2 = journal'[j] /\ J2 \in Logs
  BY <1>1 DEF RunTypes
<1>6. Covering(j)' = SeedUsdOf(J2)
  BY <1>1, <1>2, <1>3, <1>5 DEF Covering, Cover
<1>7. SeedUsdOf(J2) \in Nat /\ PriorUsd(journal[j], run) \in Nat
  BY <1>2, <1>5, CountedIn
<1>8. CASE Appended(j, "settled", charged[j], FALSE) /\ unsynced' = <<>> /\ lost' = lost
  <2> DEFINE e == [type |-> "settled", run |-> run, usd |-> charged[j], ok |-> FALSE]
  <2>1. J2 = Append(journal[j], e) /\ \A k \in Jobs \ {j} : journal'[k] = journal[k]
    BY <1>1, <1>5, <1>8 DEF RunTypes, Appended
  <2>2. e \in Event /\ e.run = run /\ e.type = "settled" /\ e.usd = charged[j]
    BY <1>2 DEF Event, EventTypes
  <2>3. Extends(J2, journal[j], e)
    BY <1>2, <2>1, <2>2, AppendExtends
  <2>4. PriorUsd(J2, run) = PriorUsd(journal[j], run)
    BY <1>2, <2>2, <2>3, PriorExtends
  <2>5. J2[Len(J2)] = e /\ Len(J2) \in 1 .. Len(J2)
    BY <1>2, <2>3 DEF Extends, Logs
  <2>6. Len(J2) \in Counted(J2) /\ J2[Len(J2)].run = run /\ J2[Len(J2)].usd = charged[j]
    BY <2>2, <2>5 DEF Counted, Entries
  <2> HIDE DEF e
  <2>7. PriorUsd(J2, run) + charged[j] <= SeedUsdOf(J2)
    BY <1>2, <1>5, <2>6, PriorAnd
  <2>8. \A k \in Jobs : Quietly(journal'[k], Pending(unsynced', k))
    BY <1>1, <1>8, QuietlySynced DEF RunTypes
  <2>9. /\ Covering(j) + 0 <= Covering(j)' + 0 /\ spentEver' = spentEver + 0 /\ lost' = lost + 0
        /\ usdSpent' \in Nat /\ usdSpent + 0 <= usdSpent'
    BY <1>1, <1>2, <1>3, <1>4, <1>6, <1>7, <1>8, <2>4, <2>7 DEF RunTypes
  <2> QED
    BY <1>1, <1>3, <2>1, <2>8, <2>9, CoverStep
<1>9. CASE lost' = lost + Overshoot(j) /\ UNCHANGED <<journal, unsynced>>
  <2>1. Overshoot(j) \in Nat
    BY <1>1, OvershootNat
  <2>2. Covering(j) <= SeedUsdOf(journal[j]) + Overshoot(j)
    BY <1>1, OvershootCovers
  <2>3. \A k \in Jobs : Quietly(journal'[k], Pending(unsynced', k))
    BY <1>9, QuietlyStays
  <2>4. /\ Covering(j) + 0 <= Covering(j)' + Overshoot(j) /\ spentEver' = spentEver + 0
        /\ usdSpent' \in Nat /\ usdSpent + 0 <= usdSpent'
    BY <1>1, <1>2, <1>3, <1>4, <1>5, <1>6, <1>7, <1>9, <2>1, <2>2 DEF RunTypes
  <2> QED
    BY <1>1, <1>3, <1>9, <2>1, <2>3, <2>4, CoverStep
<1> QED
  BY <1>8, <1>9 DEF WriteSettled, EmitDurable

(* The end of a run, orderly or not: what its log counts of each job, and  *)
(* what is booked as lost, covers what covered the job before.             *)
LEMMA ForgetCover ==
  ASSUME RunInv, RunInv', CoverInv, Forget, spentEver' = spentEver, NEW h,
         \A k \in Jobs : /\ h[k] \in Nat
                         /\ Covering(k) <= SeedUsdOf(journal'[k]) + h[k],
         lost' = lost + SumOf(h, Jobs)
  PROVE  CoverInv'
<1> DEFINE f == [k \in Jobs |-> Covering(k)]
           g == [k \in Jobs |-> Covering(k)']
<1>1. /\ unsynced' = <<>> /\ up' = FALSE /\ RunTypes'
      /\ \A k \in Jobs : open'[k] = NoReservation /\ phase'[k] = "idle"
  BY DEF Forget, SeedGovernor, RunInv
<1>2. \A k \in Jobs : Covering(k)' = SeedUsdOf(journal'[k])
  BY <1>1 DEF Covering, Cover
<1>3. \A k \in Jobs : Covering(k) \in Nat
  BY CoveringNat
<1>4. (\A k \in Jobs : Covering(k) \in Nat)'
  BY CoveringNat, PTL
<1>5. \A k \in Jobs : f[k] \in Nat /\ g[k] \in Nat /\ h[k] \in Nat /\ f[k] <= g[k] + h[k]
  BY <1>2, <1>3, <1>4
<1>6. CoveredUsd = SumOf(f, Jobs) /\ CoveredUsd' = SumOf(g, Jobs)
  BY DEF CoveredUsd
<1> HIDE DEF f, g
<1>7. SumOf(f, Jobs) <= SumOf(g, Jobs) + SumOf(h, Jobs)
  BY <1>5, GovernorAssumption, SumBelow
<1>8. SumOf(f, Jobs) \in Nat /\ SumOf(g, Jobs) \in Nat /\ SumOf(h, Jobs) \in Nat
  BY <1>5, GovernorAssumption, SumNat
<1>9. spentEver' <= CoveredUsd' + lost'
  BY <1>6, <1>7, <1>8 DEF RunInv, RunTypes, CoverInv
<1>10. \A k \in Jobs : Quietly(journal'[k], Pending(unsynced', k))
  BY <1>1, QuietlySynced DEF RunTypes
<1> QED
  BY <1>1, <1>9, <1>10 DEF CoverInv, LedgerCoversSpend

LEMMA EndRunCover == ASSUME RunInv, RunInv', CoverInv, EndRun PROVE CoverInv'
<1> DEFINE h == [k \in Jobs |-> 0]
<1>1. /\ up /\ Forget /\ UNCHANGED <<journal, spentEver, lost>> /\ lost \in Nat
      /\ \A k \in Jobs : stage[k] \in {"none", "returned"}
  BY DEF RunInv, RunTypes, EndRun
<1>2. \A k \in Jobs : h[k] = 0
  OBVIOUS
<1> HIDE DEF h
<1>3. ASSUME NEW k \in Jobs PROVE Covering(k) <= SeedUsdOf(journal'[k]) + h[k]
  <2>1. phase[k] \in {"idle", "finished"}
    BY <1>1 DEF RunInv, Tracked, Track
  <2>2. open[k] = NoReservation
    BY <2>1, MoneyAt DEF RunInv, OpenPhases
  <2>3. Covering(k) = SeedUsdOf(journal[k]) /\ Covering(k) \in Nat
    BY <1>1, <2>1, <2>2, OvershootCovers, CoveringNat
  <2> QED
    BY <1>1, <1>2, <2>3
<1>4. SumOf(h, Jobs) = 0
  <2>1. SumOf(h, Jobs) = Cardinality(Jobs) * 0 /\ Cardinality(Jobs) \in Nat
    BY <1>2, GovernorAssumption, SumConstant, FS_CardinalityType
  <2> QED
    BY <2>1
<1>5. lost' = lost + SumOf(h, Jobs)
  BY <1>1, <1>4
<1> QED
  BY <1>1, <1>2, <1>3, <1>5, ForgetCover

LEMMA CrashCover == ASSUME RunInv, RunInv', CoverInv, Crash PROVE CoverInv'
<1> DEFINE h == [j \in Jobs |->
      IF open[j] # NoReservation \/ phase[j] = "settled" THEN Overshoot(j) ELSE 0]
<1>1. /\ up /\ Forget /\ spentEver' = spentEver /\ RunTypes
      /\ lost' = lost + SumOf(h, Jobs)
  BY DEF RunInv, Crash
<1>2. \A k \in Jobs : h[k] \in Nat /\ Covering(k) <= SeedUsdOf(journal[k]) + h[k]
  <2> TAKE k \in Jobs
  <2>1. SeedUsdOf(journal[k]) \in Nat
    BY <1>1, CountedIn DEF RunTypes
  <2>2. CASE open[k] # NoReservation \/ phase[k] = "settled"
    BY <1>1, <2>2, OvershootNat, OvershootCovers
  <2>3. CASE ~(open[k] # NoReservation \/ phase[k] = "settled")
    BY <1>1, <2>1, <2>3, OvershootCovers
  <2> QED
    BY <2>2, <2>3
<1> HIDE DEF h
<1>3. PICK n \in 0 .. Len(unsynced) :
        journal' = [j \in Jobs |-> SubSeq(journal[j], 1, Len(journal[j])
                     - Cardinality({i \in n + 1 .. Len(unsynced) : unsynced[i] = j}))]
  BY DEF Crash
<1>4. ASSUME NEW k \in Jobs PROVE SeedUsdOf(journal'[k]) = SeedUsdOf(journal[k])
  <2> DEFINE C == {i \in n + 1 .. Len(unsynced) : unsynced[i] = k}
             T == {m \in 1 .. Len(unsynced) : unsynced[m] = k}
  <2>1. journal[k] \in Logs /\ Len(journal[k]) \in Nat /\ Len(unsynced) \in Nat
    BY <1>1 DEF RunTypes, Logs
  <2>2. C \subseteq T /\ Pending(unsynced, k) = Cardinality(T)
    BY <2>1 DEF Pending
  <2>3. IsFiniteSet(T)
    <3>1. IsFiniteSet(1 .. Len(unsynced))
      BY <2>1, FS_Interval
    <3> QED
      BY <3>1, FS_Subset
  <2>4. journal'[k] = SubSeq(journal[k], 1, Len(journal[k]) - Cardinality(C))
    BY <1>3
  <2> HIDE DEF C, T
  <2>5. IsFiniteSet(C) /\ Cardinality(C) <= Cardinality(T)
    BY <2>2, <2>3, FS_Subset
  <2>6. Cardinality(C) \in Nat /\ Cardinality(T) \in Nat
    BY <2>3, <2>5, FS_CardinalityType
  <2>7. PICK m \in Int : m = Len(journal[k]) - Cardinality(C) /\ m <= Len(journal[k])
    BY <2>1, <2>6
  <2>8. \A i \in 1 .. Len(journal[k]) : i > m => journal[k][i].type \notin {"opened", "settled"}
    BY <2>1, <2>2, <2>5, <2>6, <2>7 DEF CoverInv, Quietly
  <2>9. PICK J2 : J2 = journal'[k]
    OBVIOUS
  <2>10. SeedUsdOf(J2) = SeedUsdOf(journal[k])
    BY <2>1, <2>4, <2>7, <2>8, <2>9, PrefixUsd
  <2> QED
    BY <2>9, <2>10
<1> QED
  BY <1>1, <1>2, <1>4, ForgetCover

(* The seed of a run is all its predecessors reported but what was lost.   *)
LEMMA StartRunCover ==
  ASSUME RunInv, RunInv', CoverInv, NEW resumes \in BOOLEAN, NEW releases \in SUBSET Jobs,
         StartRun(resumes, releases)
  PROVE  CoverInv'
<1> DEFINE e == [type |-> "released", run |-> run + 1, usd |-> 0, ok |-> FALSE]
           f == [k \in Jobs |-> Covering(k)]
           g == [k \in Jobs |-> Covering(k)']
           s == [k \in Jobs |-> SeedUsdOf(journal[k])]
<1>1. /\ ~up /\ RunTypes /\ RunTypes' /\ run' = run + 1 /\ UNCHANGED <<spentEver, lost>>
      /\ unsynced' = SetToSeq(releases)
      /\ usdSpent' = SumOf(s, Jobs)
      /\ \A k \in Jobs : open'[k] = NoReservation /\ phase'[k] = "idle"
      /\ journal' = [j \in Jobs |-> journal[j] \o IF j \in releases THEN <<e>> ELSE <<>>]
  BY DEF RunInv, StartRun, SeedGovernor
<1>2. e \in Event /\ e.run = run + 1 /\ e.type = "released" /\ run + 1 \in Nat
  BY <1>1 DEF Event, EventTypes, RunTypes
<1> HIDE DEF e
<1>3. ASSUME NEW k \in Jobs
      PROVE  /\ k \in releases => Extends(journal'[k], journal[k], e)
             /\ k \notin releases => journal'[k] = journal[k]
  <2>0. journal[k] \in Logs
    BY <1>1 DEF RunTypes
  <2>1. CASE k \in releases
    <3>1. journal'[k] = Append(journal[k], e)
      BY <1>1, <2>0, <2>1 DEF Logs
    <3> QED
      BY <1>2, <2>0, <2>1, <3>1, AppendExtends
  <2>2. CASE k \notin releases
    BY <1>1, <2>0, <2>2 DEF Logs
  <2> QED
    BY <2>1, <2>2
<1>4. ASSUME NEW k \in Jobs PROVE SeedUsdOf(journal'[k]) = SeedUsdOf(journal[k])
  <2>1. PICK J2 : J2 = journal'[k]
    OBVIOUS
  <2>2. CASE k \in releases
    <3>1. journal[k] \in Logs /\ Extends(J2, journal[k], e)
      BY <1>1, <1>3, <2>1, <2>2 DEF RunTypes
    <3>2. SeedUsdOf(J2) = SeedUsdOf(journal[k])
      BY <1>2, <3>1, PriorExtends
    <3> QED
      BY <2>1, <3>2
  <2>3. CASE k \notin releases
    BY <1>3, <2>3
  <2> QED
    BY <2>2, <2>3
<1>5. ASSUME NEW k \in Jobs
      PROVE  /\ Covering(k) = SeedUsdOf(journal[k]) /\ Covering(k)' = SeedUsdOf(journal[k])
             /\ SeedUsdOf(journal[k]) \in Nat
  <2>1. phase[k] = "idle" /\ open[k] = NoReservation
    BY <1>1, MoneyAt DEF RunInv, OpenPhases
  <2>2. SeedUsdOf(journal[k]) \in Nat
    BY <1>1, CountedIn DEF RunTypes
  <2> QED
    BY <1>1, <1>4, <2>1, <2>2 DEF Covering, Cover
<1>6. CoveredUsd = SumOf(f, Jobs) /\ CoveredUsd' = SumOf(g, Jobs)
  BY DEF CoveredUsd
<1>7. \A k \in Jobs : f[k] = s[k] /\ g[k] = s[k] /\ s[k] \in Nat
  BY <1>5
<1> HIDE DEF f, g, s
<1>8. SumOf(f, Jobs) = SumOf(s, Jobs) /\ SumOf(g, Jobs) = SumOf(s, Jobs)
  BY <1>7, GovernorAssumption, SumSame
<1>9. SumOf(s, Jobs) \in Nat
  BY <1>7, GovernorAssumption, SumNat
<1>10. spentEver' <= CoveredUsd' + lost' /\ usdSpent' + lost' >= spentEver'
  BY <1>1, <1>6, <1>8, <1>9 DEF RunTypes, CoverInv
<1>11. ASSUME NEW k \in Jobs PROVE Quietly(journal'[k], Pending(unsynced', k))
  <2> DEFINE us == SetToSeq(releases)
             T == {m \in 1 .. Len(us) : us[m] = k}
  <2>1. IsFiniteSet(releases)
    BY GovernorAssumption, FS_Subset
  <2>2. /\ us \in Seq(releases)
        /\ \A i, m \in 1 .. Len(us) : us[i] = us[m] => i = m
    BY <2>1, ToSeq
  <2>3. Pending(unsynced', k) = Cardinality(T)
    BY <1>1 DEF Pending
  <2>4. T = {} \/ \E m \in 1 .. Len(us) : us[m] = k /\ T = {m}
    BY <2>2
  <2>5. k \notin releases => T = {}
    BY <2>2
  <2> HIDE DEF us, T
  <2>6. T = {} \/ \E m : T = {m}
    BY <2>4
  <2>7. Cardinality(T) \in {0, 1} /\ (T = {} => Cardinality(T) = 0)
    BY <2>6, FS_EmptySet, FS_Singleton
  <2>8. journal'[k] \in Logs /\ journal[k] \in Logs
    BY <1>1 DEF RunTypes
  <2>9. CASE k \in releases
    <3>1. /\ Len(journal'[k]) = Len(journal[k]) + 1 /\ Len(journal[k]) \in Nat
          /\ journal'[k][Len(journal'[k])] = e
      BY <1>3, <2>8, <2>9 DEF Extends, Logs
    <3>2. \A i \in 1 .. Len(journal'[k]) :
            i > Len(journal'[k]) - Cardinality(T) => i = Len(journal'[k])
      BY <2>7, <3>1
    <3> QED
      BY <1>2, <2>3, <3>1, <3>2 DEF Quietly
  <2>10. CASE k \notin releases
    BY <2>3, <2>5, <2>7, <2>8, <2>10 DEF Quietly, Logs
  <2> QED
    BY <2>9, <2>10
<1> QED
  BY <1>10, <1>11 DEF CoverInv, LedgerCoversSpend

LEMMA InitCover == RunInit => CoverInv
<1> SUFFICES ASSUME RunInit PROVE CoverInv
  OBVIOUS
<1>1. /\ ~up /\ spentEver = 0 /\ lost = 0 /\ RunInv
      /\ \A k \in Jobs : journal[k] = <<>>
  BY RunInitInv DEF RunInit
<1>2. \A k \in Jobs : Quietly(journal[k], Pending(unsynced, k))
  BY <1>1 DEF Quietly
<1> DEFINE f == [k \in Jobs |-> Covering(k)]
<1>3. \A k \in Jobs : f[k] \in Nat
  BY <1>1, CoveringNat
<1>4. CoveredUsd = SumOf(f, Jobs)
  BY DEF CoveredUsd
<1> HIDE DEF f
<1>5. SumOf(f, Jobs) \in Nat
  BY <1>3, GovernorAssumption, SumNat
<1> QED
  BY <1>1, <1>2, <1>4, <1>5 DEF CoverInv, LedgerCoversSpend

LEMMA CoverInductive == RunInv /\ RunInv' /\ CoverInv /\ [RunNext]_vars => CoverInv'
<1> SUFFICES ASSUME RunInv, RunInv', CoverInv, [RunNext]_vars PROVE CoverInv'
  OBVIOUS
<1>1. CASE UNCHANGED vars
  <2>1. UNCHANGED <<journal, unsynced, spentEver, lost, up, usdSpent>>
    BY <1>1 DEF vars, runVars, govVars
  <2>2. CoveredUsd' = CoveredUsd
    BY <1>1 DEF vars, runVars, govVars, CoveredUsd, Covering
  <2> QED
    BY <2>1, <2>2 DEF CoverInv, LedgerCoversSpend
<1>2. ASSUME NEW j \in Jobs, JobStep(j) PROVE CoverInv'
  BY <1>2, PlainCover, WriteOpenedCover, AbandonCover, EndCover, WriteSettledCover DEF JobStep
<1>3. ASSUME NEW j \in Jobs, NEW cost \in Costs, Report(j, cost) PROVE CoverInv'
  BY <1>3, ReportCover
<1>4. CASE FailRun \/ Cancel
  BY <1>4, SignalCover
<1> QED
  BY <1>1, <1>2, <1>3, <1>4, StartRunCover, EndRunCover, CrashCover DEF RunNext

(* seedFromJournal: the seeded ledger of a run, and its settles and folds  *)
(* since, carry whatever operations reported in any run, except what a     *)
(* dying dispatch had reported beyond its own reservation.                 *)
THEOREM LedgerCovers == RunSpec => []LedgerCoversSpend
<1>1. CoverInv => LedgerCoversSpend
  BY DEF CoverInv
<1> QED
  BY <1>1, RunInvariance, RunInductive, RunInitInv, InitCover, CoverInductive, PTL DEF RunSpec

(* The cap holds over all runs of the plan: what operations have reported  *)
(* and may still spend behind their reservations fits it while nothing     *)
(* trips, but for what a crash made the ledger forget.                     *)
THEOREM CapHolds == RunSpec => []SpendWithinCap
<1>1. RunInv /\ LedgerCoversSpend => SpendWithinCap
  <2> SUFFICES ASSUME RunInv, LedgerCoversSpend, up, ~Tripped
               PROVE  spentEver + (ReservedUsd(open) - FoldedUsd(open)) <= Cap + lost
    BY DEF SpendWithinCap
  <2>1. /\ usdSpent + lost >= spentEver
        /\ (usdSpent - FoldedUsd(open)) + ReservedUsd(open) <= Cap
    BY DEF LedgerCoversSpend, RunInv, Money, Gate, Fits
  <2>2. /\ usdSpent \in Nat /\ lost \in Nat /\ spentEver \in Nat /\ Cap \in Nat
        /\ FoldedUsd(open) \in Nat /\ ReservedUsd(open) \in Nat
    BY GovernorAssumption, SumTypes DEF RunInv, RunTypes, Money, Gate, Shape
  <2> QED
    BY <2>1, <2>2
<1> QED
  BY <1>1, LedgerCovers, RunInvariance, PTL
=============================================================================
