----------------------------- MODULE MCTimerList ----------------------------
(* Three sleepers, so that a timer can have neighbours on both sides.      *)
EXTENDS TimerList
=============================================================================
