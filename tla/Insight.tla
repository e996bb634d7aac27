------------------------------- MODULE Insight ------------------------------
(* From the readings to what a user is told: the file and the posted batches of a
   unit, AnalysisUseCase.run from the frame to what is recorded, with Phase B, and
   the requests that read it: GET /assets/{unit}/outlook, GET
   /assets/{unit}/telemetry and POST /llm/query. *)
EXTENDS Pipeline, Serving, Readings

CONSTANTS
  Files,    \* the files a unit may have
  Batches,  \* file -> the batches a gateway may post, none of them empty
  Taught    \* the frames on which Phase B is due

\* No rule concludes what only the forecaster does; the unit is analysed by the
\* sensors of its file.
ASSUME InsightAssumption ==
  /\ \A r \in Rules : r.type # "forecast_threshold_approach"
  /\ Range(Columns) = Sensors

\* A file has each time once, and what it cannot parse is Bad; one that can be read
\* has a column of numbers for every sensor, with a row that is stored.
ASSUME FilesAreTables ==
  \A f \in Files :
    /\ f.at \in Seq({Bad} \cup Int) /\ IsInjective(f.at)
    /\ Readable(f) =>
         /\ DOMAIN f.col = Sensors
         /\ \A k \in Sensors : DOMAIN f.col[k] = DOMAIN f.at
                              /\ \A i \in DOMAIN f.at : f.col[k][i] \in Int \cup {Missing, Infinite}
         /\ \A k \in Sensors : \E i \in DOMAIN f.at : f.col[k][i] # Infinite

\* A batch that the request's model accepts has readings: numbers, at times.
ASSUME BatchesAreRead ==
  \A f \in Files : \A b \in Batches[f] :
    /\ b # <<>> /\ b \in Seq(Range(b))
    /\ \A i \in DOMAIN b : b[i].at \in Int /\ b[i].value \in Int \cup {Missing, Infinite}

\* The times at which there may be a reading.  Scale, the unit in which the timeline
\* counts the shares of an episode, is a common multiple of all spans between them.
ReadingTimes(f) == Range(f.at) \cup UNION {{b[i].at : i \in DOMAIN b} : b \in Batches[f]}
ASSUME SpansDivideScale ==
  \A f \in Files : Readable(f) => \A s, t \in ReadingTimes(f) : s < t => Scale % (t - s) = 0

VARIABLES
  file,     \* the processed CSV
  table,    \* sensor_reading
  log,      \* the batches written, in order, <<>> for the file
  results,  \* learned_results, in order
  reply     \* the response to a request, <<>> before

readingVars == <<file, table, log>>
runVars == <<frame, ctx, findings, diagnoses, iteration>>
insightVars == <<vars, readingVars, results, reply>>

InsightInit ==
  /\ file \in Files
  /\ table = <<>>
  /\ log = <<>>
  /\ frame = <<>>
  /\ stage = "source"
  /\ ctx = <<>>
  /\ findings = {}
  /\ diagnoses = {}
  /\ iteration = 0
  /\ results = <<>>
  /\ reply = <<>>

\* bootstrap_units, or the simulator's seed, for the unit.
Seed ==
  /\ stage = "source" /\ Readable(file)
  /\ table' = Write(table, Accepted(Melt(CsvFrame(file))))
  /\ log' = Append(log, <<>>)
  /\ stage' = "seeded"
  /\ UNCHANGED <<runVars, file, results, reply>>

\* The loader raises before anything is written.
SeedFails ==
  /\ stage = "source" /\ ~Readable(file)
  /\ stage' = "rejected"
  /\ UNCHANGED <<runVars, readingVars, results, reply>>

\* POST /readings, once: before the file or after it.
Post ==
  /\ stage \in {"source", "seeded"} /\ \A i \in DOMAIN log : log[i] = <<>>
  /\ \E b \in Batches[file] :
       /\ table' = Write(table, Accepted(b))
       /\ log' = Append(log, b)
  /\ UNCHANGED <<runVars, stage, file, results, reply>>

\* The worker loads the frame; the unit's columns are known since the seed.
Load ==
  /\ stage = "seeded"
  /\ frame' = DbFrame(table)
  /\ stage' = "quality"
  /\ UNCHANGED <<ctx, findings, diagnoses, iteration, readingVars, results, reply>>

PipelineStep == Next /\ UNCHANGED <<readingVars, results, reply>>

\* Phase B is not due, or disabled.
SkipLearning ==
  /\ stage = "done" /\ frame \notin Taught
  /\ stage' = "recorded"
  /\ UNCHANGED <<runVars, readingVars, results, reply>>

\* _learn, its first block: the features, the novelty model and the clusterer;
\* one that raises leaves what was appended before it.
LearnPatterns ==
  /\ stage = "done" /\ frame \in Taught
  /\ LET features == Features(frame)
         novelties == {Novelty(features, raw) : raw \in [1 .. features.n -> 0 .. 2]}
         clusters == {Clusters(features, l) : l \in [1 .. features.n -> 1 .. Regimes]}
     IN  \/ results' = <<>>
         \/ \E n \in novelties : results' = <<n>>
         \/ \E n \in novelties, c \in clusters : results' = <<n, c>>
  /\ stage' = "forecast"
  /\ UNCHANGED <<runVars, readingVars, reply>>

\* Its second block.
LearnForecasts ==
  /\ stage = "forecast"
  /\ results' \in {results, Append(results, ForecastUnit(frame, Limits))}
  /\ stage' = "recorded"
  /\ UNCHANGED <<runVars, readingVars, reply>>

Learned == UNION {results[i].findings : i \in DOMAIN results}

\* What the view shows of this run.
Recorded == findings \cup diagnoses \cup Learned

ShowOutlook ==
  /\ stage = "recorded"
  /\ reply' \in Outlooks(Recorded, ctx.health.subsystems)
  /\ stage' = "answered"
  /\ UNCHANGED <<runVars, readingVars, results>>

Ask ==
  /\ stage = "recorded"
  /\ reply' \in Answers(Recorded)
  /\ stage' = "answered"
  /\ UNCHANGED <<runVars, readingVars, results>>

ShowTelemetry ==
  /\ stage = "recorded"
  /\ reply' = Chart(table, Limits)
  /\ stage' = "answered"
  /\ UNCHANGED <<runVars, readingVars, results>>

InsightNext ==
  \/ Seed \/ SeedFails \/ Post \/ Load \/ PipelineStep
  \/ SkipLearning \/ LearnPatterns \/ LearnForecasts
  \/ ShowOutlook \/ Ask \/ ShowTelemetry

InsightSpec == InsightInit /\ [][InsightNext]_insightVars

-----------------------------------------------------------------------------
(* Properties. *)

\* The engines see what was logged, whichever way it came ("byte-identical output
\* whether a unit is loaded from the processed CSV or reconstructed from
\* TimescaleDB", tests/test_db_parity.py): a row for every time anything usable was
\* read at, in each cell the first usable value that came, and nothing else.  The
\* chart's latest values are the last ones of that frame.
FrameMatchesSource ==
  /\ stage = "quality" =>
       LET came == [b \in DOMAIN log |-> IF log[b] = <<>> THEN Melt(file) ELSE log[b]]
           Reading(p) == came[p[1]][p[2]]
           usable == UNION {{<<b, i>> : i \in {j \in DOMAIN came[b] : came[b][j].value # Infinite}} : b \in DOMAIN came}
           Sooner(p, q) == p[1] < q[1] \/ (p[1] = q[1] /\ p[2] < q[2])
           Of(k, t) == {p \in usable : Reading(p).key = k /\ Reading(p).at = t}
           First(k, t) == {Reading(p).value : p \in {q \in Of(k, t) : \A r \in Of(k, t) : ~Sooner(r, q)}}
       IN  /\ Range(frame.at) = {Reading(p).at : p \in usable}
           /\ \A i \in DOMAIN frame.at : i > 1 => frame.at[i - 1] < frame.at[i]
           /\ \A k \in Sensors, i \in DOMAIN frame.at :
                frame.col[k][i] \in First(k, frame.at[i]) \cup {x \in {Missing} : First(k, frame.at[i]) = {}}
           /\ (log = <<<<>>>> /\ \A k \in Sensors : Infinite \notin Range(file.col[k])) => frame = CsvFrame(file)
  /\ (stage = "answered" /\ reply.kind = "telemetry") =>
       \A k \in Sensors :
         LET s == Valid(frame.col[k])
         IN  reply.sensors[k].latest = IF s = <<>> THEN {} ELSE {Last(s)}

Patterns(kind) ==
  {p \in UNION {results[i].patterns : i \in DOMAIN results} : p.kind = kind}

\* "A model never forecasts across a gap" (preprocessing.py): the history of a
\* forecast has a reading at every step, goes back as far as that allows, and
\* ends at the sensor's last reading.
HistoryIsUnbroken ==
  \A p \in Patterns("forecast") :
    LET Read(b) == \E i \in DOMAIN frame.at : frame.at[i] \div Step = b /\ frame.col[p.of][i] # Missing
    IN  /\ \A b \in p.from .. p.to : Read(b)
        /\ ~Read(p.from - 1)
        /\ \A i \in DOMAIN frame.at : frame.col[p.of][i] # Missing => frame.at[i] \div Step <= p.to

\* From the reading to the card: a sensor at a protection setpoint, like any other
\* critical condition, is the headline, whatever is forecast, and a critical finding
\* is cited; without one it is the approach to a limit, and whenever approaches are
\* forecast one that none comes before is cited.  A calm card means that no such
\* reading, no critical condition, no approach and no novelty was recorded.
OutlookLeadsWithTheWorst ==
  (stage = "answered" /\ reply.kind = "outlook") =>
    LET breached == {k \in Sensors :
          LET s == Valid(frame.col[k])
          IN  Limits[k].operating # {} /\ s # <<>> /\ \E p \in Limits[k].protection : Last(s) >= p.level}
        critical == {f \in Recorded : f.severity = "critical"}
        approaches == {f \in Learned : f.type = "forecast_threshold_approach"}
        Cited(f) == Identity(f) \in reply.citations
    IN  /\ breached # {} => critical # {}
        /\ critical # {} => reply.headline = "critical" /\ \E f \in critical : Cited(f)
        /\ approaches # {} =>
             /\ critical = {} => reply.headline = "approaching"
             /\ \E f \in approaches : Cited(f) /\ \A g \in approaches : f.lead <= g.lead
        /\ reply.headline = "calm" =>
             critical = {} /\ Learned \subseteq OfType(Learned, "operating_regime_discovered")

\* Whatever the model returns, a claim that reaches the user rests only on
\* findings of this machine, and one that rests on a diagnosis rests on a chain of
\* findings that ends in readings: each diagnosis names its findings, and of any
\* diagnoses one names a finding outside them.  The card cites only such findings.
RepliesAreGrounded ==
  (stage = "answered" /\ reply.kind # "telemetry") =>
    LET Diagnosed == {f \in Recorded : f.origin = "diagnosed"}
    IN  /\ reply.citations \subseteq Refs(Recorded)
        /\ \A d \in Diagnosed : d.by \subseteq Refs(Conclusive)
        /\ \A D \in (SUBSET Diagnosed) \ {{}} :
             \E d \in D : \E g \in Conclusive \ D : Identity(g) \in d.by
        /\ reply.kind = "answer" =>
             /\ \A c \in reply.claims : c # {} /\ c \subseteq reply.citations
             /\ reply.text = "insufficient" => reply.claims = {}
=============================================================================
