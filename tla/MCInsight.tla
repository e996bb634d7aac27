----------------------------- MODULE MCInsight ------------------------------
(* The files are the frames of MCPipeline with their rows in reverse, two that
   cannot be read and one with an infinite value.  A gateway posts to three of
   them.  Phase B is due on every pressure history, with a steady temperature, a last
   but one reading inside the range and any last one that is not low. *)
EXTENDS MCPipeline, Insight

CONSTANT Spare   \* a sensor that the unit's file does not have

FileColumns == <<"load", "pressure", "temp">>
Catalogue3 == DOMAIN Kinds

FileOf(f) == [at |-> Reverse(f.at), col |-> [k \in DOMAIN f.col |-> Reverse(f.col[k])]]

Pressures == {<<3, 4, 3, 4, 2, 3, 4>>, <<3, 3, 3, 3, 3, 3, Missing>>}
Shared == {FileOf(f) : f \in {g \in SensorFrames :
  /\ g.col.temp = <<3, 4, 3, 3, 4, 4, 3, 4, 4>>
  /\ \E h \in Pressures : g.col.pressure = h \o <<8, 3>>}}
Unbounded == [FileOf(CHOOSE f \in SensorFrames : TRUE) EXCEPT !.col["temp"][1] = Infinite]
Unreadable3 ==
  {[Unbounded EXCEPT !.at[1] = Bad],
   [Unbounded EXCEPT !.col = (Spare :> Unbounded.col["load"]) @@ @]}

FilesOf == {FileOf(f) : f \in AllFrames} \cup Unreadable3 \cup {Unbounded}

\* A late value in the place of a missing one, twice and after an infinite one; a
\* newer row of one sensor; a sensor that the catalogue does not give the unit.
Entry(k, t, v) == [key |-> k, at |-> t, value |-> v]
Posted ==
  {<<Entry("pressure", 11, Infinite), Entry("pressure", 11, 6), Entry("pressure", 11, 3)>>,
   <<Entry("pressure", 17, 8), Entry("temp", 15, 9)>>,
   <<Entry(Spare, 4, 1)>>,
   <<Entry("temp", 17, Infinite)>>}
BatchesOf == [f \in FilesOf |-> IF f \in Shared \cup {Unbounded} THEN Posted ELSE {}]

TaughtFrames ==
  {f \in SensorFrames : f.col.temp = <<3, 4, 3, 3, 4, 4, 3, 4, 4>> /\ f.col.pressure[8] = 3 /\ f.col.pressure[9] # 1}
=============================================================================
