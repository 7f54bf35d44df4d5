----------------------------- MODULE MCEventLog -----------------------------
(* Two ordinary lines fill a file.  Every fourth line is longer than a file  *)
(* may be, whole or torn.                                                    *)
EXTENDS EventLog

MCLineBytes == [e \in 1..MaxEvents |-> IF e % 4 = 3 THEN 9 ELSE 3]
=============================================================================
