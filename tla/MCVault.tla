-------------------------------- MODULE MCVault --------------------------------
(***************************************************************************)
(* Vault with two pages, each of which may hold a text of three sections,  *)
(* cut into two chunks (its last section is too short to be one), or a     *)
(* short text that matches the query as well but is not to be shown.       *)
(***************************************************************************)
EXTENDS Vault

CONSTANTS p1, p2, i1, i2, k1, k2

Page(body, tags) == [body |-> body, tags |-> tags, category |-> "concept"]

LongPage ==
  Page(<< <<<<"lamp", "hall">>>>, <<<<"fan">>, <<"stairs">>>>, <<<<"door">>>> >>, {"user-facing"})
Hidden == Page(<< <<<<"hall", "lamp">>>> >>, {})

MCContents == {LongPage, Hidden}
MCInitialDisks ==
  { [q \in Pages |-> IF q = p THEN LongPage ELSE None] : p \in Pages }
MCQueries == {<<"the", "lamp", "hall", "door">>}
MCTopic == [k \in Conversations |-> "heating"]

Symmetry ==
  Permutations({p1, p2}) \cup Permutations({i1, i2}) \cup Permutations({k1, k2})

================================================================================
