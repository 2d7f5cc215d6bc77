----------------------------- MODULE RuleLifecycle -----------------------------
(***************************************************************************)
(* What the smart home manager promises of a suggested rule: the states it *)
(* goes through, and when it may be installed in Home Assistant.           *)
(***************************************************************************)
CONSTANTS Rules

VARIABLES
  status,     \* [Rules -> the rule's state, "absent" before it is published]
  installed,  \* rules Home Assistant has been given
  archived    \* rules with a document in the vault

lifeVars == <<status, installed, archived>>

Statuses == {"absent", "pending", "applying", "confirmed", "failed", "ignored"}

LifeInit ==
  /\ status = [r \in Rules |-> "absent"]
  /\ installed = {} /\ archived = {}

Move(r, from, to) ==
  /\ status[r] \in from
  /\ status' = [status EXCEPT ![r] = to]
  /\ UNCHANGED <<installed, archived>>

\* Observations add suggestions and change none.
Propose(new) ==
  /\ \A r \in new : status[r] = "absent"
  /\ status' = [r \in Rules |-> IF r \in new THEN "pending" ELSE status[r]]
  /\ UNCHANGED <<installed, archived>>

Apply(r) == Move(r, {"pending", "failed"}, "applying")
Fail(r) == Move(r, {"applying"}, "failed")
Ignore(r) == Move(r, {"pending"}, "ignored")

Install(r) ==
  /\ status[r] = "applying"
  /\ installed' = installed \cup {r}
  /\ UNCHANGED <<status, archived>>

Archive(r) ==
  /\ status[r] = "applying" /\ r \in installed
  /\ archived' = archived \cup {r}
  /\ UNCHANGED <<status, installed>>

Confirm(r) ==
  /\ r \in installed \cap archived
  /\ Move(r, {"applying"}, "confirmed")

LifeNext ==
  \/ \E new \in SUBSET Rules : Propose(new)
  \/ \E r \in Rules :
       Apply(r) \/ Fail(r) \/ Ignore(r) \/ Install(r) \/ Archive(r) \/ Confirm(r)

LifeSpec == LifeInit /\ [][LifeNext]_lifeVars

-----------------------------------------------------------------------------

LifeTypeOK ==
  /\ status \in [Rules -> Statuses]
  /\ installed \subseteq Rules /\ archived \subseteq Rules

\* A confirmed rule is in Home Assistant and in the vault; one the user has not
\* decided about, or has ignored, is in neither.
DecidedIsReal ==
  \A r \in Rules :
    /\ status[r] = "confirmed" => r \in installed \cap archived
    /\ status[r] \in {"absent", "pending", "ignored"} => r \notin installed \cup archived

================================================================================
