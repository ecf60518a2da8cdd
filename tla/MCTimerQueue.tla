---------------------------- MODULE MCTimerQueue ----------------------------
(* Two addresses for three timers, so that one is used again. *)
EXTENDS TimerQueue

MCAdjustments == {-1, 1}

=============================================================================
