----------------------------- MODULE LogArchive -----------------------------
(***************************************************************************)
(* What the flash of the flight computer promises somebody who will read   *)
(* the logs: a flight gets a number higher than every log there is, only   *)
(* the log with the highest number grows, by blocks of one and the same    *)
(* flight, and a log that is there stays as it is until somebody removes   *)
(* it or formats the flash.  FlashStore implements this, whenever the      *)
(* power goes.                                                             *)
(***************************************************************************)
EXTENDS Integers, Sequences

CONSTANT Flight      (* The flights, to tell whose block a block is.       *)

VARIABLE logs        (* The logs there are: their blocks, by number.       *)

Init == logs = << >>

Numbers == DOMAIN logs

Create(n) ==
  /\ \A m \in Numbers : m < n
  /\ logs' = [m \in Numbers \cup {n} |-> IF m = n THEN << >> ELSE logs[m]]

Extend(n, f) ==
  /\ \A m \in Numbers : m <= n
  /\ \A i \in 1 .. Len(logs[n]) : logs[n][i] = f
  /\ DOMAIN logs' = Numbers
  /\ LET more == Len(logs'[n]) - Len(logs[n])
     IN  logs' = [logs EXCEPT ![n] = @ \o [i \in 1 .. more |-> f]]

Remove(n) == logs' = [m \in Numbers \ {n} |-> logs[m]]

Wipe == logs' = << >>

Next ==
  \/ \E n \in DOMAIN logs' : Create(n)
  \/ \E n \in Numbers, f \in Flight : Extend(n, f)
  \/ \E n \in Numbers : Remove(n)
  \/ Wipe

Spec == Init /\ [][Next]_logs
=============================================================================
