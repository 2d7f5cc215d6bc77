------------------------------- MODULE MCChannels -------------------------------
(***************************************************************************)
(* Channels with two messages of allowed users, one of which may be        *)
(* delivered twice, and one of another user.  Each queue holds one         *)
(* message, so that both fill up.                                          *)
(***************************************************************************)
EXTENDS Channels

CONSTANTS m1, m2, m3

MCTimes == [m \in Messages |-> IF m = m1 THEN 2 ELSE 1]

================================================================================
