------------------------------ MODULE Timeline ------------------------------
(* The operational-timeline engine (engines/operational_timeline): typed events,
   running and idle blocks, and the runtime per calendar day, all from the
   episodes of OperatingState.  An episode's time is spread over the days it
   spans in proportion; Scale is a multiple of every span, so that the shares
   are whole numbers of 1/Scale of a grid unit. *)
EXTENDS OperatingState

CONSTANTS
  Day,    \* grid units of a calendar day
  Scale   \* a common multiple of all spans

ASSUME TimelineAssumption == Day \in Nat \ {0} /\ Scale \in Nat \ {0}

EventType(label) ==
  CASE label[1] = "off" -> "machine_idle"
    [] label[1] = "startup" -> "machine_started"
    [] label[1] = "shutdown" -> "machine_stopped"
    [] label[1] = "full" -> "entered_full_load"
    [] label[1] = "high" -> "entered_high_load"
    [] label[1] = "partial" -> "entered_partial_load"
    [] label[1] = "transition" -> "load_transition"
    [] label[1] \in {"steady", "variable"} -> "continuous_operation"
    [] label[1] \in {"running", "empty"} -> "state_change"

\* The pipeline builds the engine with min_event_minutes = 0: every episode.
Events(eps) ==
  [i \in DOMAIN eps |->
    [type |-> EventType(eps[i].final), start |-> eps[i].start, end |-> eps[i].end, dur |-> eps[i].dur]]

NewBlock(eps, i) ==
  \/ i = 1
  \/ IsOff(eps[i].final) # IsOff(eps[i - 1].final)
  \/ eps[i].start - eps[i - 1].end > Cap

MergeRunBlocks(eps) ==
  LET first == InOrder({i \in DOMAIN eps : NewBlock(eps, i)})
      last(k) == IF k = Len(first) THEN Len(eps) ELSE first[k + 1] - 1
  IN  [k \in DOMAIN first |->
        [idle |-> IsOff(eps[first[k]].final),
         start |-> eps[first[k]].start, end |-> eps[last(k)].end,
         dur |-> SumOver(first[k] .. last(k), LAMBDA i : eps[i].dur),
         n |-> last(k) - first[k] + 1]]

DayOf(t) == t \div Day

\* Mutant: a day's part runs to midnight although the episode ends before.
ShareToMidnight(e, d) ==
  LET from == Max({e.start, d * Day})
  IN  CASE DayOf(e.start) = DayOf(e.end) -> IF d = DayOf(e.start) THEN Scale * e.dur ELSE 0
        [] DayOf(e.start) # DayOf(e.end) ->
             e.dur * (Scale \div (e.end - e.start)) * ((d + 1) * Day - from)

\* The part of an episode's time that belongs to day d, in 1/Scale.
Share(e, d) ==
  LET from == Max({e.start, d * Day})
      to == Min({e.end, (d + 1) * Day})
  IN  CASE DayOf(e.start) = DayOf(e.end) -> IF d = DayOf(e.start) THEN Scale * e.dur ELSE 0
        [] DayOf(e.start) # DayOf(e.end) ->
             IF to > from THEN e.dur * (Scale \div (e.end - e.start)) * (to - from) ELSE 0

\* Covered and running time of every day with data.
DailyRuntime(eps) ==
  LET days == UNION {DayOf(eps[i].start) .. DayOf(eps[i].end) : i \in DOMAIN eps}
      within(d, S) == SumOver(S, LAMBDA i : Share(eps[i], d))
  IN  [d \in {x \in days : within(x, DOMAIN eps) > 0} |->
        [covered |-> within(d, DOMAIN eps),
         running |-> within(d, {i \in DOMAIN eps : ~IsOff(eps[i].final)})]]

\* The first longest of a set of blocks, none when there is none.
Longest(blocks, S) ==
  IF S = {} THEN {}
  ELSE {blocks[Min({i \in S : \A j \in S : blocks[j].dur <= blocks[i].dur})]}

\* Utilisation in percent of a day and its mean over the days.
Utilization(day) == RoundDiv(100 * day.running, day.covered)

RuntimeRollup(eps) ==
  LET blocks == MergeRunBlocks(eps)
      daily == DailyRuntime(eps)
      running == {i \in DOMAIN blocks : ~blocks[i].idle}
      idle == {i \in DOMAIN blocks : blocks[i].idle /\ blocks[i].dur > 0}
  IN  [days |-> daily,
       utilization |-> IF daily = <<>> THEN 0
                       ELSE RoundDiv(SumOver(DOMAIN daily, LAMBDA d : Utilization(daily[d])),
                                     Cardinality(DOMAIN daily)),
       running |-> Cardinality(running), idle |-> Cardinality(idle),
       longestRun |-> Longest(blocks, running), longestIdle |-> Longest(blocks, idle)]

NoTimeline == [events |-> <<>>, segments |-> <<>>, runtime |-> {}]

MachineTimeline(machine) ==
  IF ~machine.segmentable \/ machine.episodes = <<>> THEN NoTimeline
  ELSE [events |-> Events(machine.episodes), segments |-> MergeRunBlocks(machine.episodes),
        runtime |-> {RuntimeRollup(machine.episodes)}]
==============================================================================
