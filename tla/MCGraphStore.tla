---------------------------- MODULE MCGraphStore ----------------------------
(* Two units that share the models: two frames of the first, whose windows end
   at the same time, and one of the second, whose sensors were forecast by the
   same two models in the other order. *)
EXTENDS GraphStore, TLC

Plants == [u1 |-> [body |-> {"p", "t"}], u2 |-> [body |-> {"p", "t"}]]
Bands == {<<"u1", "p">>, <<"u1", "t">>, <<"u2", "p">>}

Seen(id, identity, origin, u, k, start, end, sev, by, ev) ==
  [id |-> id, identity |-> identity, origin |-> origin, unit |-> u,
   scope |-> IF k = u THEN "equipment" ELSE "sensor", target |-> k,
   start |-> start, end |-> end, severity |-> sev, by |-> by, evidence |-> ev]
Cites(a, v) == [artifact |-> a, value |-> v]

Forecasts(u, s, e, ids, arefs) ==
  [model |-> "forecaster", patterns |-> {u \o ".p", u \o ".t"},
   findings |-> <<Seen(ids[1], u \o "F1", "learned", u, "p", s, e, "info", {}, <<Cites(arefs[1], 1), Cites(arefs[1], 2)>>),
                  Seen(ids[2], u \o "F2", "learned", u, "t", s, e, "info", {}, <<Cites(arefs[2], 1)>>)>>]

Early ==
  [unit |-> "u1",
   found |-> <<Seen(8, "T", "derived", "u1", "p", 3, 9, "warning", {}, <<Cites("u1th", 1)>>)>>,
   patterns |-> <<>>,
   forecast |-> <<Forecasts("u1", 3, 9, <<4, 6>>, <<"naive", "ets">>)>>]
Late ==
  [unit |-> "u1",
   found |-> <<Seen(7, "T", "derived", "u1", "p", 2, 9, "critical", {}, <<Cites("u1th", 3), Cites("u1th", 4)>>),
               Seen(2, "D", "diagnosed", "u1", "u1", 2, 9, "info", {"T"}, <<Cites("f7", 1)>>)>>,
   patterns |-> <<[model |-> "novelty", patterns |-> {}, findings |-> <<>>]>>,
   forecast |-> <<>>]
Other ==
  [unit |-> "u2", found |-> <<>>, patterns |-> <<>>,
   forecast |-> <<Forecasts("u2", 3, 9, <<5, 3>>, <<"ets", "naive">>)>>]

\* A learned condition and a measured one.
AskedOf == {"u1F1", "T"}
ThreeFrames == {Early, Late, Other}
LearnOrder == <<"novelty", "forecaster">>

\* Neither a worker nor a request is told from its like by anything it does.
Symmetry == Permutations(Workers) \cup Permutations(Requests)
=============================================================================
