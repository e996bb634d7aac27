----------------------------- MODULE MCPipeline -----------------------------
(* A unit with its activity indicator, a pressure with operating range and
   protection setpoints, and a temperature without limits. *)
EXTENDS Pipeline

CONSTANTS MaxRows, Gaps, Loads

Kinds == [load |-> "load", pressure |-> "pressure", temp |-> "temperature"]
Subs == [load |-> "compression", pressure |-> "compression", temp |-> "general"]

Unlimited == [operating |-> {}, protection |-> {}, table |-> TRUE]
Limited ==
  [operating |-> {[low |-> {2}, high |-> {5}]}, table |-> TRUE,
   protection |-> {[name |-> "critical", level |-> 6], [name |-> "trip", level |-> 8]}]
LimitsOf == [load |-> Unlimited, pressure |-> Limited, temp |-> Unlimited]

Rule(id, prio, scope, req, opt, exc, type, cat, sev, conf) ==
  [id |-> id, priority |-> prio, applies |-> {"*"}, scope |-> scope, required |-> req,
   optional |-> opt, excluded |-> exc, type |-> type, category |-> cat, severity |-> sev,
   confidence |-> conf]

\* The default catalogue, and one rule on a diagnosis.
Catalogue ==
  {Rule(1, 20, "sensor", {"threshold_misspecified"}, {}, {"threshold_critical", "health_degraded"},
        "threshold_config_review_recommended", "diagnostic", "info", 90),
   Rule(2, 60, "equipment", {"threshold_critical", "health_degraded"}, {"reliability_drift"}, {},
        "condenser_fouling_suspected", "diagnostic", "warning", 70),
   Rule(3, 90, "sensor", {"threshold_critical", "sensor_untrustworthy"}, {}, {},
        "critical_on_untrustworthy_sensor", "validation", "warning", 95),
   Rule(4, 95, "equipment", {"condenser_fouling_suspected"}, {"critical_on_untrustworthy_sensor"}, {},
        "cleaning_recommended", "diagnostic", "info", 80)}

\* Rows whose times differ by one of Gaps, with any loads.
Times(n) ==
  {[i \in 1 .. n |-> IF i = 1 THEN s ELSE s + SumOver(1 .. i - 1, LAMBDA j : d[j])] :
     s \in {3}, d \in [1 .. n - 1 -> Gaps]}
Quiet(n) == [i \in 1 .. n |-> 3]
ActivityFrames ==
  UNION {{[at |-> t, col |-> [load |-> l, pressure |-> Quiet(n), temp |-> Quiet(n)]] :
            t \in Times(n), l \in UNION {[1 .. n -> L] : L \in Loads}} : n \in 1 .. MaxRows}

\* Nine rows: a pressure history with two last readings, and temperatures
\* that are steady, flat, drifting, noisy, coded, half missing and missing.
PressureHistories == {<<3, 4, 3, 4, 2, 3, 4>>, <<1, 6, 1, 7, 1, 6, 1>>, <<9, 9, 8, 9, 8, 9, 9>>,
              <<3, 4, 3, Missing, 3, 4, 3>>, <<3, 3, 3, 3, 3, 3, Missing>>}
LastReadings == {1, 3, 6, 8, Missing}
Temperatures ==
  {<<3, 4, 3, 3, 4, 4, 3, 4, 4>>, <<3, 3, 3, 3, 3, 3, 3, 3, 3>>, <<0, 0, 1, 0, 0, 9, 9, 8, 9>>,
   <<1, 2, 3, 4, 5, 6, 7, 40, 40>>, <<1, Missing, 1, Missing, Missing, 1, Missing, Missing, 2>>,
   <<-1, 9, -1, 9, -1, 9, -1, 9, -1>>, [i \in 1 .. 9 |-> Missing]}
SensorFrames ==
  {[at |-> <<1, 2, 3, 5, 7, 9, 11, 13, 15>>,
    col |-> [load |-> <<0, 0, 3, 3, 4, 3, 4, 0, 0>>, pressure |-> h \o l, temp |-> t]] :
      h \in PressureHistories, l \in [1 .. 2 -> LastReadings], t \in Temperatures}

AllFrames == ActivityFrames \cup SensorFrames
LoadSets == {{0, 3, Missing}, {0, 3, 4}}
=============================================================================
