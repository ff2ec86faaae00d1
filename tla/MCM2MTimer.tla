------------------------------ MODULE MCM2MTimer ------------------------------
(* Instances of M2MTimer for TLC. Ticks are two milliseconds, and a request *)
(* takes five at most: three are one piece, seven two, eleven three.        *)
EXTENDS M2MTimer

mModes == << { [kind |-> "single", ms |-> 11, total |-> 11],
               [kind |-> "periodic", ms |-> 3, total |-> 3] },
             { [kind |-> "dtls", ms |-> 1, total |-> 7] } >>
=============================================================================
