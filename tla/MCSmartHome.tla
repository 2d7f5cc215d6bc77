------------------------------ MODULE MCSmartHome ------------------------------
(***************************************************************************)
(* SmartHome with one explicit rule, six ticks of history in three files   *)
(* that overlap, and two handlers.  The fan is turned on in the first half *)
(* of both days of the window, the lamp only in the second half of one.    *)
(***************************************************************************)
EXTENDS SmartHome, TLC

CONSTANTS explicit, lamp, fan, motion, h1, h2, daily, web

Entry(entity, state, at) == [entity |-> entity, state |-> state, at |-> at]

Signal ==
  { Entry(lamp, "on", 1), Entry(lamp, "off", 2), Entry(lamp, "on", 3),
    Entry(lamp, "off", 4), Entry(fan, "on", 2), Entry(fan, "off", 3),
    Entry(fan, "online", 4), Entry(motion, "on", 2) }

MCBatches == {1, 3, 4}
MCContents == [b \in MCBatches |-> { e \in Signal : e.at \in b .. (IF b = 1 THEN 3 ELSE b + 1) }]

MCRules ==
  { explicit, TimeRule(fan, 0), TimeRule(lamp, 1),
    CorrelationRule(lamp, fan), CorrelationRule(fan, lamp) }

MCRequests == { <<"confirm", explicit>>, <<"ignore", explicit>> }

===============================================================================
