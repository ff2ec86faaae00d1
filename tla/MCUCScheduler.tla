--------------------------- MODULE MCUCScheduler ---------------------------
(* Instances of UCScheduler for TLC: threads of one priority with either     *)
(* consumer, and posters of higher priority that wait for a call.            *)
EXTENDS UCScheduler

Plain == [drain |-> FALSE, preempt |-> FALSE, wait |-> FALSE]
AllModes == {Plain, [Plain EXCEPT !.drain = TRUE],
             [Plain EXCEPT !.preempt = TRUE, !.wait = TRUE]}
Single == {Plain}
Interrupts == {[Plain EXCEPT !.preempt = TRUE]}
=============================================================================
