------------------------------- MODULE RunLog -------------------------------
(***************************************************************************)
(* The journal directory of one plan as the file system shows and keeps    *)
(* it: openRunLog, claimSeq, assertNoSeqGap and foldOrderRuns of           *)
(* src/src/kernel/journal.ts.  Each run appends lines to a file of its     *)
(* own; a line can be cut short by a crash or a failing call, and the next *)
(* line then continues it.                                                 *)
(***************************************************************************)
EXTENDS Integers, Sequences, FiniteSets, SequencesExt

CONSTANTS
  Jobs,           \* the jobs of the plan
  NoJob,          \* the job of a line about the whole run
  MaxRuns         \* bound: runs of the plan

ASSUME RunLogAssumption ==
  IsFiniteSet(Jobs) /\ NoJob \notin Jobs /\ MaxRuns \in Nat \ {0}

Runs == 1 .. MaxRuns

VARIABLES
  file,           \* the lines of each run's file
  synced,         \* how many of them are on the disk
  named,          \* the runs whose file's directory entry is on the disk
  claimed,        \* the ordinals with a claim tombstone
  kept            \* those whose directory entry is on the disk

logVars == <<file, synced, named, claimed, kept>>

(* form is "whole" for a complete line that parses, "open" for one that     *)
(* parses but lacks its newline, "torn" for an unterminated fragment, "bad" *)
(* for a complete line that does not parse.  num is the seq, the charge or *)
(* the event count the line carries.                                       *)
Line(type, job, num) ==
  [type |-> type, job |-> job, num |-> num, form |-> "whole"]

LogInit ==
  /\ file = [r \in Runs |-> <<>>] /\ synced = [r \in Runs |-> 0]
  /\ named = {} /\ claimed = {} /\ kept = {}
-----------------------------------------------------------------------------
(* What a reader finds.                                                    *)

Parses(l) == l.form \in {"whole", "open"}
Events(f) == {i \in 1 .. Len(f) : Parses(f[i])}
Has(f, type, job) == \E i \in Events(f) : f[i].type = type /\ f[i].job = job

(* Broken variants of a definition stand before it, named after it.  They  *)
(* are not part of the specification: each is a bug some property catches. *)
Invalid_Skipped(f) == FALSE

(* readEvents throws on a complete line that does not parse.               *)
Invalid(f) == \E i \in 1 .. Len(f) : f[i].form = "bad"

Folded == {r \in Runs : Has(file[r], "run-started", NoJob)}
Ordinal(r) ==
  file[r][CHOOSE i \in Events(file[r]) : \A k \in Events(file[r]) : i <= k].num
MaxSeq == IF Folded = {} THEN 0 ELSE CHOOSE n \in {Ordinal(r) : r \in Folded} :
  \A r \in Folded : Ordinal(r) <= n

(* foldOrderRuns: the line count of a finished run, and one run per seq.   *)
Miscounted(f) == \E i \in Events(f) :
  f[i].type = "run-finished" /\ f[i].num # Cardinality(Events(f))

Unordered == \E r, s \in Folded : r # s /\ Ordinal(r) = Ordinal(s)

(* seedFromJournal: a settle without its open.                             *)
Unpaired(f) == \E j \in Jobs : Has(f, "settled", j) /\ ~Has(f, "opened", j)

Corrupt ==
  \/ \E r \in Runs : Invalid(file[r])
  \/ \E r \in Folded : Miscounted(file[r]) \/ Unpaired(file[r])
  \/ Unordered

(* assertNoSeqGap: a claim beyond every run that is folded.                *)
SeqGap == \E n \in claimed : n > MaxSeq

Accepted == ~Corrupt /\ ~SeqGap

Unresolved(r, j) == Has(file[r], "opened", j) /\ ~Has(file[r], "settled", j)
-----------------------------------------------------------------------------
(* Writing.                                                                *)

(* The bytes of l, up to form, behind what the file ends with.             *)
Written(f, l, form) ==
  IF f # <<>> /\ Last(f).form \in {"open", "torn"}
    THEN [f EXCEPT ![Len(f)].form = IF form = "whole" THEN "bad" ELSE "torn"]
    ELSE Append(f, [l EXCEPT !.form = form])

Appends_DirUnsynced(r, l, durable) ==
  /\ file' = [file EXCEPT ![r] = Written(@, l, "whole")]
  /\ synced' = IF durable THEN [synced EXCEPT ![r] = Len(file'[r])] ELSE synced
  /\ named' = named
  /\ kept' = kept
  /\ UNCHANGED claimed

(* append: the line, for a durable one its sync, and with the run's first  *)
(* line the directory's.                                                   *)
Appends(r, l, durable) ==
  /\ file' = [file EXCEPT ![r] = Written(@, l, "whole")]
  /\ synced' = IF durable THEN [synced EXCEPT ![r] = Len(file'[r])] ELSE synced
  /\ named' = named \union {r}
  /\ kept' = IF r \in named THEN kept ELSE claimed
  /\ UNCHANGED claimed

(* One of append's calls fails, behind none, a part or all of the line.    *)
AppendFails(r, l) ==
  /\ \/ UNCHANGED file
     \/ \E form \in {"torn", "open", "whole"} :
          file' = [file EXCEPT ![r] = Written(@, l, form)]
  /\ UNCHANGED <<synced, named, claimed, kept>>

(* claimSeq: the first ordinal behind the fold that has no tombstone.      *)
NextSeq == CHOOSE n \in MaxSeq + 1 .. MaxSeq + 1 + Cardinality(claimed) :
  n \notin claimed /\ \A k \in MaxSeq + 1 .. n - 1 : k \in claimed

Claims(n) ==
  claimed' = claimed \union {n} /\ UNCHANGED <<file, synced, named, kept>>

(* The machine dies: of each file some prefix survives that includes what  *)
(* is synced, its last line perhaps in part; of the directory, what is     *)
(* synced and some of the rest.                                            *)
Survivals(r) ==
  {SubSeq(file[r], 1, n) : n \in synced[r] .. Len(file[r])}
    \union {Written(SubSeq(file[r], 1, n - 1), file[r][n], "torn") :
              n \in synced[r] + 1 .. Len(file[r])}
    \union {Written(SubSeq(file[r], 1, n - 1), file[r][n], "open") :
              n \in {i \in synced[r] + 1 .. Len(file[r]) :
                       file[r][i].form = "whole"}}
    \union IF r \in named THEN {} ELSE {<<>>}

Loose == {r \in Runs : synced[r] < Len(file[r]) \/ r \notin named}

LosesUnsynced ==
  /\ \E g \in [Loose -> UNION {Survivals(r) : r \in Loose}] :
       /\ \A r \in Loose : g[r] \in Survivals(r)
       /\ file' = [r \in Runs |-> IF r \in Loose THEN g[r] ELSE file[r]]
  /\ synced' = [r \in Runs |-> Len(file'[r])]
  /\ \E lost \in SUBSET (claimed \ kept) : claimed' = claimed \ lost
  /\ kept' = claimed'
  /\ named' = {r \in Runs : file'[r] # <<>>} \union named
=============================================================================
