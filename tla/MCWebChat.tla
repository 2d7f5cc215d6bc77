------------------------------- MODULE MCWebChat -------------------------------
(***************************************************************************)
(* Small instances of WebChat: two conversations, the first of which is    *)
(* sheltered and may time out; resumed, it takes its second Session object. *)
(***************************************************************************)
EXTENDS WebChat, TLC

CONSTANTS k1, k2, s1, s2, s3, w1, w2, t1, t2, t3

MCKeyOf == s1 :> k1 @@ s2 :> k1 @@ s3 :> k2
PairKeyOf == s1 :> k1 @@ s2 :> k1

FreshOnly == { NoHistory }

ChatSymmetry == Permutations(Sockets) \cup Permutations(Texts)

================================================================================
