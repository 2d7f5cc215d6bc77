--------------------------- MODULE MCSessionManager ---------------------------
(***************************************************************************)
(* Small instances of SessionManager: two users, two Session objects for   *)
(* the first, one for the second.                                          *)
(***************************************************************************)
EXTENDS SessionManager, TLC

CONSTANTS k1, k2, s1, s2, s3, hello

MCKeyOf == s1 :> k1 @@ s2 :> k1 @@ s3 :> k2

\* A history read back from a file that used up its rounds: one more message,
\* an answer, is accepted.
SavedOnly == { [messages |-> <<[role |-> "user", text |-> hello]>>, rounds |-> 1] }

===============================================================================
