---------------------------- MODULE HistoryAnalysis ----------------------------
(***************************************************************************)
(* The analyzer of go-agent/internal/smarthome: from the history files the *)
(* collector has saved to the rules it suggests and the summary of each    *)
(* device.  Time is a number of ticks; consecutive collections overlap, so *)
(* an event may stand in several files.                                    *)
(***************************************************************************)
EXTENDS Integers, FiniteSets, FiniteSetsExt

CONSTANTS
  Batches,    \* history files the collector may save
  Contents,   \* Contents[b]: the entries of b, [entity, state, at]
  Binary,     \* entities a time pattern is looked for in (isBinaryDevice)
  Sensors,    \* isSensorDevice
  MinDays, DayLength, LookbackDays,
  Near,       \* five minutes, in ticks
  Now         \* when the analysis runs

ASSUME AnalysisAssumption ==
  /\ IsFiniteSet(Batches)
  /\ \A b \in Batches : IsFiniteSet(Contents[b]) /\ \A e \in Contents[b] : e.at \in Int
  /\ MinDays \in Nat /\ DayLength \in Nat \ {0} /\ LookbackDays \in 1 .. 366
  /\ Near \in Nat /\ Now \in Nat

StartTime == Now - LookbackDays * DayLength

\* GetHistoryRange: every entry of every readable file, repeated ones as often.
Entries(files) ==
  UNION { { [file |-> b, entry |-> e] : e \in Contents[b] } : b \in files }

Of(entries, entity) == { x \in entries : x.entry.entity = entity }
InWindow(entries) == { x \in entries : x.entry.at \in StartTime .. Now }
Entities(entries) == { x.entry.entity : x \in entries }

\* A state that contains "on" counts as on for the detectors.
SaysOn(state) == state \in {"on", "online"}
TurnOns(entries, entity) == { x \in Of(entries, entity) : SaysOn(x.entry.state) }

Hour(x) == x.entry.at % DayLength
Day(x) == x.entry.at \div DayLength

\* A variant of HitDays: every turn-on counts as a day.
HitTurnOns(on, hour) == Cardinality({ x \in on : Hour(x) = hour })

HitDays(on, hour) == Cardinality({ Day(x) : x \in { y \in on : Hour(y) = hour } })

\* Three quarters: minHitRate.
HighRate(hits, of) == 4 * hits >= 3 * of

TimeRule(entity, hour) == [type |-> "time", trigger |-> hour, action |-> entity]
CorrelationRule(a, b) == [type |-> "correlation", trigger |-> a, action |-> b]

\* detectTimePatterns and the suggestions made of its patterns.
TimeRules(entries) ==
  { TimeRule(p[1], p[2]) : p \in
      { q \in (Entities(entries) \cap Binary) \X (0 .. DayLength - 1) :
          LET on == TurnOns(entries, q[1])
              days == HitDays(on, q[2])
          IN /\ Cardinality(on) >= MinDays
             /\ days >= MinDays /\ HighRate(days, LookbackDays) } }

\* detectCorrelations for one ordered pair: repeated entries count again.
Follows(entries, a, b) ==
  LET on == TurnOns(entries, a)
      answered == { x \in on : \E y \in TurnOns(entries, b) :
                      y.entry.at - x.entry.at \in 1 .. Near - 1 }
  IN /\ Cardinality(on) >= MinDays /\ answered # {}
     /\ HighRate(Cardinality(answered), Cardinality(on))

\* The entities come from a map: of two, either may be tried first, and only
\* that direction is.  A choice maps each pair to its first entity.
Pairs(entries) ==
  { p \in SUBSET Entities(entries) : Cardinality(p) = 2 /\ ~(p \subseteq Sensors) }
Orders(entries) == { f \in [Pairs(entries) -> Entities(entries)] :
                       \A p \in Pairs(entries) : f[p] \in p }

CorrelationRules(entries, order) ==
  { CorrelationRule(order[p], CHOOSE b \in p : b # order[p]) :
      p \in { q \in Pairs(entries) :
                \A b \in q \ {order[q]} : Follows(entries, order[q], b) } }

\* Analyze: what the suggestions of one analysis may be.  A rule's identity is
\* its meaning (stableSuggestionID), never when or how often it was observed.
Suggestions(files) ==
  LET entries == InWindow(Entries(files)) IN
  { TimeRules(entries) \cup CorrelationRules(entries, order) : order \in Orders(entries) }

-----------------------------------------------------------------------------
(* buildSummaries: how long a device was on in the window.                  *)

At(x) == x.entry.at
Later(entries, t) == { At(x) : x \in { y \in entries : At(y) > t } }

\* addOnInterval: the part of an interval inside the window.
OnInterval(from, to) ==
  LET left == IF from < StartTime THEN StartTime ELSE from
  IN IF to > left THEN to - left ELSE 0

TotalOnTime(files, entity) ==
  LET seen == { x \in Of(Entries(files), entity) : At(x) <= Now }
      times == { At(x) : x \in { y \in seen : y.entry.state = "on" } }
      until(t) == IF Later(seen, t) = {} THEN Now ELSE Min(Later(seen, t))
  IN MapThenSumSet(LAMBDA t : OnInterval(t, until(t)), times)

\* onCount and offCount: the changes to a state inside the window.
Changes(files, entity, state) ==
  LET seen == Of(Entries(files), entity)
      before(x) == { y \in seen : At(y) < At(x) }
      repeated(x) == \E y \in before(x) : /\ y.entry.state = state
                                         /\ At(y) = Max({ At(z) : z \in before(x) })
  IN Cardinality({ At(x) : x \in { y \in InWindow(seen) :
                                     y.entry.state = state /\ ~repeated(y) } })

================================================================================
