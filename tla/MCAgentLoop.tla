------------------------------ MODULE MCAgentLoop ------------------------------
(***************************************************************************)
(* Small instances of AgentLoop: messages 1 and 2 come from one user,      *)
(* messages 3 and 4 from another one, who waits for replies.               *)
(***************************************************************************)
EXTENDS AgentLoop, TLC

CONSTANTS k1, k2, s1, s2, s3, s4, s5

MCKeyOf == s1 :> k1 @@ s2 :> k1 @@ s3 :> k1 @@ s4 :> k2 @@ s5 :> k2
MCUserOf == 1 :> k1 @@ 2 :> k1 @@ 3 :> k2 @@ 4 :> k2

\* One user, two messages.
OneKeyOf == s1 :> k1 @@ s2 :> k1 @@ s3 :> k1
OneUserOf == 1 :> k1 @@ 2 :> k1

FreshOnly == { FreshHistory }

SessionSymmetry == Permutations({s1, s2, s3}) \cup Permutations({s4, s5})

================================================================================
