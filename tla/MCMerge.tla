------------------------------ MODULE MCMerge ------------------------------
(***************************************************************************)
(* Merge with two texts, one mutant of which is in both.                   *)
(***************************************************************************)
EXTENDS Merge

MCIds   == {"kept", "gone"}
MCIdsOf == [t \in Versions |-> IF t = 0 THEN {"kept", "gone"} ELSE {"kept"}]
MCShardOf == [n \in Counts |-> [id \in Ids |-> IF id = "kept" THEN n - 2 ELSE n - 1]]
Listing == [kind |-> "list", shard |-> Whole]
Run     == [kind |-> "run", shard |-> Whole]
Sharded(n, i) == [kind |-> "run", shard |-> [count |-> n, index |-> i]]
Diff    == [kind |-> "diff", shard |-> Whole]
MCModes == {Listing, Run, Diff, Sharded(2, 1), Sharded(3, 1)}
MCLineage == [s \in {"Pending", "Killed", "Survived"} |->
                CASE s = "Pending" -> 0 [] s = "Killed" -> 1 [] s = "Survived" -> 2]
=============================================================================
