----------------------------- MODULE MCMonitoring -----------------------------
(***************************************************************************)
(* Small instances of Monitoring: condition "a" turns critical and clears. *)
(***************************************************************************)
EXTENDS Monitoring, TLC

Found(s) == [sev |-> s, value |-> 0]

Advisory == "b" :> Found("info")
OnOff == {Advisory, Advisory @@ "a" :> Found("critical")}
=============================================================================
