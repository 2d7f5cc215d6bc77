----------------------------- MODULE MCSessionIndex -----------------------------
(***************************************************************************)
(* Small instances of SessionIndex: one conversation, resumed with its      *)
(* second Session object.                                                  *)
(***************************************************************************)
EXTENDS SessionIndex, TLC

CONSTANTS k1, s1, s2, w1, t1, t2, t3, j1, j2

MCKeyOf == s1 :> k1 @@ s2 :> k1

FreshOnly == { NoHistory }

ChatSymmetry == Permutations(Texts) \cup Permutations(Jobs)

================================================================================
