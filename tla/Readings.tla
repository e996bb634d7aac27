------------------------------ MODULE Readings ------------------------------
(* The way of a reading (ingestion): from a row of a processed CSV or a posted
   batch through validation into sensor_history, and back into the frame that is
   analysed or the chart of GET /assets/{unit}/telemetry.  One unit; the table is
   a function from a sensor and a time to a value. *)
EXTENDS SeriesMath

CONSTANTS
  Columns,     \* the unit's sensors in the order of its file
  Catalogued,  \* the sensors the catalogue has metadata of
  Infinite,    \* a value that is not finite
  Bad,         \* a time stamp that does not parse
  Now, ChartWindow, ChartBucket

ASSUME ReadingsAssumption ==
  /\ Columns \in Seq(Catalogued) /\ IsInjective(Columns)
  /\ Missing # Infinite /\ ChartBucket \in Nat \ {0}

-----------------------------------------------------------------------------
(* A file is [at, col], its rows in any order, no two of one time. *)

\* ProcessedCsvSource.load raises on a time it cannot parse, build_asset on a
\* column without metadata.
Readable(file) == Bad \notin Range(file.at) /\ DOMAIN file.col \subseteq Catalogued

CsvFrame(file) ==
  LET row == [n \in DOMAIN file.at |->
                CHOOSE i \in DOMAIN file.at : Cardinality({j \in DOMAIN file.at : file.at[j] < file.at[i]}) = n - 1]
  IN  [at |-> [n \in DOMAIN row |-> file.at[row[n]]],
       col |-> [k \in DOMAIN file.col |-> [n \in DOMAIN row |-> file.col[k][row[n]]]]]

\* iter_readings: row by row, the sensors in their order.
Melt(frame) ==
  LET c == Len(Columns)
      Row(n) == ((n - 1) \div c) + 1
      Key(n) == Columns[((n - 1) % c) + 1]
  IN  [n \in 1 .. c * Len(frame.at) |->
        [key |-> Key(n), at |-> frame.at[Row(n)], value |-> frame.col[Key(n)][Row(n)]]]

\* ReadingValidation.validate: a missing value is a reading; an infinite one and
\* the second of one sensor and time are rejected, and what is rejected counts as
\* not seen.
Accepted(batch) ==
  LET Place(r) == <<r.key, r.at>>
      good == {i \in DOMAIN batch : batch[i].value # Infinite}
  IN  {batch[i] : i \in {j \in good : \A h \in good : h < j => Place(batch[h]) # Place(batch[j])}}

AsTable(readings) ==
  [p \in {<<r.key, r.at>> : r \in readings} |->
    (CHOOSE r \in readings : <<r.key, r.at>> = p).value]

\* Mutant: a conflicting reading replaces the stored one.
WriteOver(table, readings) == AsTable(readings) @@ table

\* DbReadingSink.write: ON CONFLICT DO NOTHING.
Write(table, readings) ==
  LET new == AsTable(readings)
  IN  [p \in DOMAIN table \cup DOMAIN new |-> IF p \in DOMAIN table THEN table[p] ELSE new[p]]

\* DbTimeSeriesSource.load: a row for every time, the columns the unit is known
\* to have and the table has readings of.
DbFrame(table) ==
  LET times == {p[2] : p \in DOMAIN table}
      at == InOrder(times)
      present == {k \in Range(Columns) : \E t \in times : <<k, t>> \in DOMAIN table}
      Cell(k, t) == IF <<k, t>> \in DOMAIN table THEN table[<<k, t>>] ELSE Missing
  IN  [at |-> at, col |-> [k \in present |-> [n \in DOMAIN at |-> Cell(k, at[n])]]]

-----------------------------------------------------------------------------
(* The chart. *)

\* The times at which a sensor has a value.
TimesOf(table, k) == {p[2] : p \in {q \in DOMAIN table : q[1] = k /\ table[q] # Missing}}

\* _LATEST, for the sensors that have a value; _SERIES: sum and number of the
\* values of each bucket of the window; the bounds of a supplied range.
Chart(table, limits) ==
  [kind |-> "telemetry",
   sensors |-> [k \in Range(Columns) |->
     LET all == TimesOf(table, k)
         shown == {t \in all : t > Now - ChartWindow}
         buckets == {t \div ChartBucket : t \in shown}
     IN  [latest |-> {table[<<k, t>>] : t \in {s \in all : \A r \in all : r <= s}},
          band |-> limits[k].operating,
          points |-> {LET in == {t \in shown : t \div ChartBucket = b}
                      IN  [bucket |-> b, n |-> Cardinality(in), sum |-> SumOver(in, LAMBDA t : table[<<k, t>>])] :
                        b \in buckets}]]]
=============================================================================
