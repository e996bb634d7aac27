------------------------------ MODULE Serving -------------------------------
(* What is told of a machine: the outlook card (api/routers/outlook) and the
   answer of the assistant (llm), both computed from the current view of its
   findings.  A reference to a finding is its identity. *)
EXTENDS Learning

CONSTANT Unknown   \* a reference that no finding has

OfType(view, type) == {f \in view : f.type = type}
Refs(view) == {Identity(f) : f \in view}

\* The score of a degraded subsystem is that of its health; the lowest is named.
Weakest(view, scores) ==
  LET degraded == {f.target : f \in {g \in OfType(view, "health_degraded") : g.scope = "subsystem"}}
  IN  {u \in degraded : \A v \in degraded : scores[u].score <= scores[v].score}

Soonest(view) ==
  LET fs == OfType(view, "forecast_threshold_approach")
  IN  {f \in fs : \A g \in fs : f.lead <= g.lead}

Criticals(view) == {f \in view : f.severity = "critical"}

\* Mutant: what comes is told before what is.
ForecastHeadline(view) ==
  CASE Soonest(view) # {} -> "approaching"
    [] Soonest(view) = {} /\ Criticals(view) # {} -> "critical"
    [] OTHER -> "calm"

\* The most decision-relevant statement.
Headline(view) ==
  CASE Criticals(view) # {} -> "critical"
    [] Criticals(view) = {} /\ Soonest(view) # {} -> "approaching"
    [] Criticals(view) = {} /\ Soonest(view) = {} ->
         IF OfType(view, "novelty_elevated") # {} THEN "unlike history" ELSE "calm"

\* _build: of the criticals two are cited, and of equally near forecasts one.
Outlooks(view, scores) ==
  {[kind |-> "outlook", headline |-> Headline(view), critical |-> Cardinality(Criticals(view)),
    weakest |-> Weakest(view, scores),
    citations |-> Refs(c \cup s \cup OfType(view, "novelty_elevated"))] :
     c \in {S \in SUBSET Criticals(view) : Cardinality(S) = Min({2, Cardinality(Criticals(view))})},
     s \in {S \in SUBSET Soonest(view) : Cardinality(S) = Min({1, Cardinality(Soonest(view))})}}

-----------------------------------------------------------------------------
(* The assistant.  A completion is unreadable, or a kind and claims; a claim is
   the references it cites.  The view is the evidence bundle. *)

Category(f) ==
  CASE f.origin = "diagnosed" -> "diagnosis"
    [] f.origin = "learned" /\ f.type = "forecast_threshold_approach" -> "forecast"
    [] f.origin = "learned" /\ f.type # "forecast_threshold_approach" -> "hypothesis"
    [] f.origin = "derived" -> "fact"

Bundle(view) == {[ref |-> Identity(f), category |-> Category(f)] : f \in view}

Unreadable == [kind |-> "none", claims |-> {}]

\* DeterministicStubModel: one claim for each item.
StubCompletion(bundle) == [kind |-> "engineering", claims |-> {{i.ref} : i \in bundle}]

\* What a language model may return: claims that cite an item, an item and
\* something else, or nothing.
Completions(bundle) ==
  LET sound == {{i.ref} : i \in bundle}
      mixed == {{i.ref, Unknown} : i \in bundle}
      One(S) == {{}} \cup {{x} : x \in S}
  IN  {Unreadable, StubCompletion(bundle)}
      \cup {[kind |-> k, claims |-> a \cup b \cup c] :
              k \in {"chat", "engineering"}, a \in One(sound), b \in One(mixed), c \in One({{}, {Unknown}})}

\* Mutant: one known reference is enough.
PartlyCited(claims, ids) == {c \in claims : c \cap ids # {}}

\* _valid_claim: at least one citation, and all of them in the bundle.
ValidClaims(claims, ids) == {c \in claims : c # {} /\ c \subseteq ids}

\* CitationValidator.validate: the text is the model's only for small talk or
\* with a claim that survives.
Validate(completion, bundle) ==
  LET kept == ValidClaims(completion.claims, {i.ref : i \in bundle})
  IN  [kind |-> "answer", claims |-> kept, citations |-> UNION kept,
       text |-> CASE completion.kind = "none" -> "insufficient"
                  [] completion.kind = "chat" /\ kept = {} -> "model"
                  [] completion.kind # "none" /\ kept # {} -> "model"
                  [] completion.kind = "engineering" /\ kept = {} -> "insufficient"]

\* LlmQueryService.answer.
Answers(view) == {Validate(c, Bundle(view)) : c \in Completions(Bundle(view))}
=============================================================================
