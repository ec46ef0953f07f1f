-------------------------------- MODULE Merge --------------------------------
(***************************************************************************)
(* Reports of many runs made into one score (merge/union.rs,               *)
(* commands/merge.rs of crates/cargo-gamma-lib/src), and the rotation that *)
(* makes them: sharded runs and listings of a source that is edited        *)
(* between them, merged in any order, what was merged being merged again.  *)
(*                                                                         *)
(* There is one source file: but for the shards, a merge relates nothing   *)
(* across files.  A text of it and the path of a report are numbers, and   *)
(* the hash of a lineage is the order of what is hashed.  A path given     *)
(* twice, metadata that is only summed, the window of freshness, and where *)
(* in the text a mutant is shown, are left out.                            *)
(***************************************************************************)
EXTENDS Naturals, FiniteSets, SequencesExt

CONSTANTS
  Ids,              \* the identities of mutants
  Versions, IdsOf,  \* the texts of the file, and the mutants of each
  Counts, ShardOf,  \* the rotations, and shard_of: where each puts a mutant
  Modes,            \* what runs are asked for
  Names, Kept,      \* the paths of reports, and that of a merged one
  Lineage,          \* the statuses, and the order of their hashes
  MaxFlight, MaxReports, MaxMerged, MaxRewrites, MaxClock   \* bounds

Statuses == DOMAIN Lineage
Pending  == "Pending"   \* NEVER_RUN
Whole    == [count |-> 0, index |-> 0]   \* no shard

ASSUME MergeAssumption ==
  /\ Versions \subseteq Nat /\ Names \subseteq Nat /\ Kept \in Nat \ Names /\ Counts \subseteq Nat \ {0}
  /\ IdsOf \in [Versions -> SUBSET Ids]
  /\ \A n \in Counts : ShardOf[n] \in [Ids -> 0 .. n - 1]
  /\ \A mode \in Modes : /\ mode.kind \in {"run", "list", "diff"}
                         /\ mode.shard = Whole \/ mode.shard.index < mode.shard.count
  /\ MaxClock \in Nat /\ Pending \in Statuses /\ \A s \in Statuses : Lineage[s] \in Nat
  /\ \A s, t \in Statuses : Lineage[s] = Lineage[t] => s = t   \* no two hash alike

VARIABLES
  date,      \* seconds since the epoch
  version,   \* which text the file has
  rewrites,  \* how often it was edited
  flight,    \* the runs that have surveyed the source and have not reported
  reports,   \* the reports written
  answer     \* what the last merge concluded, and of which reports

mergeVars == <<date, version, rewrites, flight, reports, answer>>

NoAnswer == [inputs |-> {}]

Ranks == Nat \X Nat \X Nat

\* A report's source has the rank of the text it is, a verdict that of the status it is.
ReportOK(r) ==
  /\ r.merged \in BOOLEAN /\ r.source \in Ranks /\ r.source[3] = r.text
  /\ r.status \in [DOMAIN r.status -> Statuses] /\ DOMAIN r.status \subseteq Ids
  /\ r.tested \in [DOMAIN r.status -> Ranks]
  /\ \A id \in DOMAIN r.status : r.tested[id][3] = Lineage[r.status[id]]

MergeTypeOK ==
  /\ date \in Nat /\ version \in Versions /\ rewrites \in Nat
  /\ flight \subseteq [mode : Modes, ids : SUBSET Ids]
  /\ IsFiniteSet(reports) /\ \A r \in reports : ReportOK(r)

-----------------------------------------------------------------------------
(***************************************************************************)
(* rank: when a run started, then its path, then its lineage.  A report    *)
(* carries the rank of the source it renders and of each of its verdicts;  *)
(* for one that is not merged these are its own.                           *)
(***************************************************************************)
\* As it would be were ties left to the order of the arguments.
HigherInTime(a, b) == a[1] > b[1]

Higher(a, b) == \E i \in 1 .. 3 : a[i] > b[i] /\ \A j \in 1 .. i - 1 : a[j] = b[j]

\* As it would be were a listing's Pending a verdict like any other.
OutranksInTime(c, held) == Higher(c.tested, held.tested)

\* verdict_rank
Outranks(c, held) ==
  \/ c.status # Pending /\ held.status = Pending
  \/ ((c.status = Pending) <=> (held.status = Pending)) /\ Higher(c.tested, held.tested)

Lists(r) == DOMAIN r.status

Prefer(held, r) ==
  IF held = << >> \/ Higher(r.source, held[1].source) THEN <<r>> ELSE held

\* The first of the highest rank of the reports rs, in the order they are given in: a
\* sequence of one, or of none if rs has none.
Newest(order, rs) ==
  LET after[i \in 0 .. Len(order)] ==
        IF i = 0 THEN << >>
        ELSE IF order[i] \in rs THEN Prefer(after[i - 1], order[i]) ELSE after[i - 1]
  IN  after[Len(order)]

-----------------------------------------------------------------------------
(***************************************************************************)
(* merge, for the reports in the order they are given in.                  *)
(***************************************************************************)
\* populations: a report that says what exists, its silence included.
Complete(r) == ~r.merged /\ r.shard = Whole /\ Lists(r) # {}

Population(order) == Newest(order, {r \in Range(order) : Complete(r)})

\* sources: the report whose text is rendered.
Selected(order) == Newest(order, {r \in Range(order) : Lists(r) # {}})

\* The identity is gone, says the current population of this older report.
Withdraws(order, r, id) ==
  /\ id \in Lists(r)
  /\ \E current \in Range(Population(order)) :
       id \notin Lists(current) /\ ~Higher(r.source, current.source)

Admits(order, r, id) == id \in Lists(r) /\ ~Withdraws(order, r, id)

\* A mutant is shown if some report has it over the text that is rendered, whichever
\* report its verdict is of.
Retain(held, c) ==
  IF held = << >> THEN <<c>>
  ELSE <<[(IF Outranks(c, held[1]) THEN c ELSE held[1]) EXCEPT !.fits = held[1].fits \union c.fits]>>

\* What r says of id; fits: the source that is rendered, if this is its text.
Candidate(order, r, id) ==
  [status |-> r.status[id], tested |-> r.tested[id],
   fits |-> {source \in Range(Selected(order)) : r.text = source.text}]

\* The verdict that is kept of an identity, if one is, after the reports in order.
Latest(order, id) ==
  LET after[i \in 0 .. Len(order)] ==
        IF i = 0 THEN << >>
        ELSE IF Admits(order, order[i], id)
          THEN Retain(after[i - 1], Candidate(order, order[i], id)) ELSE after[i - 1]
  IN  after[Len(order)]

\* rotation: the largest any input claims.
Rotation(rs) == Max({0} \union {r.shard.count : r \in rs})

\* What else a merge prints is counted from this: never tested, detected, valid.
Union(order) ==
  LET rs      == Range(order)
      latest  == [id \in Ids |-> Latest(order, id)]
      held    == {id \in Ids : latest[id] # << >>}
      shown   == {id \in held : latest[id][1].fits # {}}
      of      == IF shown = {} THEN {} ELSE Range(Selected(order))
      sharded == {r \in rs : r.shard # Whole}
  IN  [source       |-> {r.source : r \in of},
       text         |-> {r.text : r \in of},
       status       |-> [id \in shown |-> latest[id][1].status],
       tested       |-> [id \in shown |-> latest[id][1].tested],
       incompatible |-> held \ shown,
       withdrawn    |-> {id \in Ids : \E r \in rs : Withdraws(order, r, id)},
       count        |-> Rotation(rs),
       seen         |-> {r.shard.index : r \in sharded},
       inconsistent |-> {r.name : r \in {s \in sharded : s.shard.count # Rotation(rs)}}]

-----------------------------------------------------------------------------
(***************************************************************************)
(* The rotation.                                                           *)
(***************************************************************************)
Rewrite ==
  /\ rewrites < MaxRewrites
  /\ rewrites' = rewrites + 1
  /\ version' \in Versions \ {version}
  /\ answer' = NoAnswer
  /\ UNCHANGED <<date, flight, reports>>

\* scan: what is left of the mutants of the text by the diff and the shard.
Scanned(mode) ==
  LET here == IF mode.shard = Whole THEN IdsOf[version]
              ELSE {id \in IdsOf[version] : ShardOf[mode.shard.count][id] = mode.shard.index}
  IN  IF mode.kind = "diff" THEN SUBSET here ELSE {here}

Start(mode) ==
  /\ Cardinality(flight) < MaxFlight
  /\ Cardinality({r \in reports : ~r.merged} \union flight) < MaxReports
  /\ \E ids \in Scanned(mode) :
       flight' = flight \union {[mode |-> mode, ids |-> ids]}
  /\ answer' = NoAnswer
  /\ UNCHANGED <<date, version, rewrites, reports>>

\* What is only history: narrow, of a diff, which the report does not say.
Report(name, time, mode, status) ==
  [name |-> name, at |-> time, merged |-> FALSE, narrow |-> mode.kind = "diff",
   shard |-> mode.shard, text |-> version, source |-> <<time, name, version>>,
   status |-> status,
   tested |-> [id \in DOMAIN status |-> <<time, name, Lineage[status[id]]>>]]

\* emit_reports, write_population: the time is that of the report, and so is the text.
Publish(run, name) ==
  /\ run \in flight
  /\ date' \in date .. MaxClock /\ date' <= date + 1
  /\ \E status \in [run.ids -> IF run.mode.kind = "list" THEN {Pending} ELSE Statuses \ {Pending}] :
       reports' = reports \union {Report(name, date', run.mode, status)}
  /\ flight' = flight \ {run}
  /\ answer' = NoAnswer
  /\ UNCHANGED <<version, rewrites>>

MergeReports(order) ==
  /\ answer = NoAnswer
  /\ answer' = [inputs |-> Range(order), out |-> Union(order)]
  /\ UNCHANGED <<date, version, rewrites, flight, reports>>

\* rebuild: the merged report, with where each thing in it comes from.
Keep ==
  /\ answer # NoAnswer
  /\ Cardinality({r \in reports : r.merged}) < MaxMerged
  /\ LET out == answer.out IN
       /\ out.source # {}
       /\ LET source == CHOOSE s \in out.source : TRUE IN
            reports' = reports \union
              {[name |-> Kept, at |-> Max({source[1]} \union {t[1] : t \in Range(out.tested)}),
                merged |-> TRUE, narrow |-> FALSE, shard |-> Whole,
                text |-> source[3], source |-> source,
                status |-> out.status, tested |-> out.tested]}
  /\ answer' = NoAnswer
  /\ UNCHANGED <<date, version, rewrites, flight>>

-----------------------------------------------------------------------------
MergeInit ==
  /\ date = 1 /\ version \in Versions /\ rewrites = 0
  /\ flight = {} /\ reports = {} /\ answer = NoAnswer

\* The orders of arguments: no path is given twice.
Arguments == {order \in UNION {SetToSeqs(rs) : rs \in SUBSET reports} :
                /\ order # << >>
                /\ \A i, j \in DOMAIN order : order[i].name = order[j].name => i = j}

MergeNext ==
  \/ Rewrite
  \/ \E mode \in Modes : Start(mode)
  \/ \E run \in flight, name \in Names : Publish(run, name)
  \/ \E order \in Arguments : MergeReports(order)
  \/ Keep

MergeSpec == MergeInit /\ [][MergeNext]_mergeVars

-----------------------------------------------------------------------------
Merged == answer # NoAnswer
Out    == answer.out

\* Which of the runs that were merged, at whatever remove, starts first on the command
\* line does not matter: the inputs make one answer, equal times and equal paths
\* included.  (rank, and the orders a shell may expand a glob to)
OrderFree == Merged => Out = Union(SetToSeq(answer.inputs))

\* Who gave the mutant a verdict of its own, of the reports that were merged.
Verdicts(id) == {r \in answer.inputs : id \in Lists(r) /\ r.status[id] # Pending}

\* The remedy README.md prescribes works: with a listing, or a run of everything, as the
\* newest input, the merged report holds what that one lists, neither more nor less; each
\* mutant has the verdict of the last run that judged it, and is Pending only if none
\* did; and the age of a verdict is that of the run that came to it, however often it
\* was merged since.  (populations, sources, retain, rebuild)
ListingMakesItTrue ==
  Merged =>
    LET listing == {r \in answer.inputs : /\ Complete(r) /\ ~r.narrow
                                          /\ \A s \in answer.inputs : ~Higher(s.source, r.source)}
    IN \A r \in listing :
         /\ DOMAIN Out.status = Lists(r)
         /\ Out.withdrawn \intersect Lists(r) = {}
         /\ \A id \in DOMAIN Out.status :
              /\ (Out.status[id] = Pending) <=> (Verdicts(id) = {})
              /\ \E run \in reports :
                   /\ ~run.merged /\ id \in Lists(run) /\ run.at = Out.tested[id][1]
                   /\ run.status[id] = Out.status[id]
              /\ \A v \in Verdicts(id) : v.tested[id][1] <= Out.tested[id][1]
=============================================================================
