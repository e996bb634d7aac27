---------------------------- MODULE MCAnalysisRun ----------------------------
(***************************************************************************)
(* Small instances of AnalysisRun.  Condition "a" is what may become       *)
(* critical; "b" is an advisory finding of the unit; "n" is a novelty that *)
(* only Phase B finds.                                                     *)
(***************************************************************************)
EXTENDS AnalysisRun, TLC

Found(s, v) == [sev |-> s, value |-> v]

Advisory == "b" :> Found("info", 0)

(* "a" becomes critical and clears, its evidence drifts by less than the   *)
(* tolerance of 2% from batch to batch, and "n" comes and goes.            *)
Drifting ==
  {Advisory @@ "a" :> Found("critical", v) : v \in {100, 102, 104}}
  \cup {Advisory @@ "a" :> Found("warning", 102), Advisory @@ "n" :> Found("info", 0)}

(* An analysis may find nothing at all: the unit is healthy. *)
Sparse ==
  {<<>>, "a" :> Found("critical", 0), "b" :> Found("info", 0)}

(* The smallest set in which a condition appears and clears. *)
OnOff == {Advisory, Advisory @@ "a" :> Found("critical", 0)}
=============================================================================
