---------------------------- MODULE MCGraceClock ----------------------------
(* GraceClock with room for two ticks at a time. *)
EXTENDS GraceClock, TLC

CONSTANTS t1, t2

MCTicks == {t1, t2}
=============================================================================
