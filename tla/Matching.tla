------------------------------ MODULE Matching ------------------------------
(* Recognition: which stored event, if any, an observation is about.  Three   *)
(* tiers: the exact key, the best-scoring event within three days whose round *)
(* does not contradict, the only event of that company and round within       *)
(* thirty.  Dates are days; confidences are percent; a score is 10000 times   *)
(* the code's.                                                                *)
EXTENDS Integers, FiniteSets

CONFIDENCE_THRESHOLD == 60
SOFT_MATCH_WINDOW_DAYS == 3
LOOSE_MATCH_WINDOW_DAYS == 30
ACCEPT_SCORE == 5000

\* generateEventKey.
KeyOf(o) == [company |-> o.company, stage |-> o.stage, date |-> o.date]

Distance(d, e) == IF d < e THEN e - d ELSE d - e
Lesser(m, n) == IF m < n THEN m ELSE n

\* The candidates a query by company and date range returns.
Near(row, o, days) == row.company = o.company /\ Distance(row.date, o.date) <= days

\* "unknown" is the extractors' mark for a round that was not stated.
Relation(candidate, incoming) ==
  CASE candidate = "unknown" \/ incoming = "unknown" -> "UNKNOWN"
    [] candidate = incoming -> "AGREES"
    [] OTHER -> "CONTRADICTS"

DateScore(days) == CASE days = 0 -> 100
                     [] days = 1 -> 70
                     [] OTHER -> 50

\* Two unstated rounds score as equal, though they do not identify.
Score(row, o) ==
  50 * DateScore(Distance(row.date, o.date))
  + (IF row.stage = o.stage THEN 3000 ELSE 0)
  + 20 * Lesser(row.confidence, o.confidence)

\* The rows of a table f that each tier accepts.  findMany has no orderBy: of two
\* best scores, either may come first.
ExactMatches(f, o) == {i \in DOMAIN f : f[i].key = KeyOf(o)}

Eligible(f, o) ==
  {i \in DOMAIN f : /\ Near(f[i], o, SOFT_MATCH_WINDOW_DAYS)
                    /\ Relation(f[i].stage, o.stage) # "CONTRADICTS"}

SoftMatches(f, o) ==
  {i \in Eligible(f, o) : /\ Score(f[i], o) >= ACCEPT_SCORE
                          /\ \A j \in Eligible(f, o) : Score(f[j], o) <= Score(f[i], o)}

LooseCandidates(f, o) ==
  {i \in DOMAIN f : /\ f[i].stage = o.stage
                    /\ Near(f[i], o, LOOSE_MATCH_WINDOW_DAYS)}

LooseMatches(f, o) ==
  IF Cardinality(LooseCandidates(f, o)) = 1 THEN LooseCandidates(f, o) ELSE {}
=============================================================================
