---------------------------- MODULE LinkQuality ----------------------------
(***************************************************************************)
(* The link quality a receiver reports: LqCalculator<N>, a ring of N bits, *)
(* one for each of the last N periods, with the number of set bits kept in *)
(* LQ, and the calls that Transmission makes of it.                        *)
(*                                                                         *)
(* A step is what happens at the end of one period of the receiver: a      *)
(* packet of the link (Heard) or the expiry of the timer (Missing).        *)
(* Module RadioLink shows that a connected receiver has exactly one of the *)
(* two for each packet sent, until its timer has drifted into a packet.  A *)
(* packet that fails the check against linkXOR (Invalid) does not restart  *)
(* the timer and comes in addition.                                        *)
(***************************************************************************)
EXTENDS Naturals, FiniteSets, Sequences

CONSTANTS
  N,           (* Periods the quality is taken over.                        *)
  W,           (* Bits in a word of LQArray.                                *)
  LostAfter,   (* Expiries after which a connection is given up.            *)
  ScanAfter    (* Expiries after which a searching receiver starts over.    *)

ASSUME SizeAssumption ==
  /\ N \in Nat \ {0} /\ W \in Nat \ {0}
  /\ LostAfter \in Nat /\ ScanAfter \in Nat /\ ScanAfter < LostAfter
  /\ N <= LostAfter

VARIABLES
  LQ,              (* The running total of set bits.                         *)
  cursor,          (* index and LQmask: the word and the bit of the period.  *)
  LQArray,         (* The set bits, as pairs of word and bit.                *)
  count,           (* Periods counted since construction, up to N.           *)
  connectionState,
  timeout,
  expected,        (* History: which of the last N packets were received.    *)
  since,           (* History: packets expected since connected, up to N.    *)
  undamaged        (* History: ... since a damaged one was heard, up to N.   *)

lq   == << LQ, cursor, LQArray, count >>
vars == << LQ, cursor, LQArray, count, connectionState, timeout, expected,
           since, undamaged >>

Init ==
  /\ LQ = 0 /\ cursor = << 0, 0 >> /\ LQArray = {} /\ count = 1
  /\ connectionState = "disconnected" /\ timeout = 0
  /\ expected = [k \in 1 .. N |-> FALSE] /\ since = 0 /\ undamaged = N

-----------------------------------------------------------------------------
(* The bit after p, before the end of the ring is looked at.                *)
Shifted(p) == IF p[2] + 1 = W THEN << p[1] + 1, 0 >> ELSE << p[1], p[2] + 1 >>

Following_OneLong(p) ==
  IF Shifted(p) = << (N + 1) \div W, (N + 1) % W >> THEN << 0, 0 >> ELSE Shifted(p)

(* The ring wraps at word N / 32, bit N % 32.                               *)
Following(p) ==
  IF Shifted(p) = << N \div W, N % W >> THEN << 0, 0 >> ELSE Shifted(p)

Without_Total(p, total) == total

(* The total when bit p is cleared for a new period.                        *)
Without(p, total) == IF p \in LQArray THEN total - 1 ELSE total

(* inc: a new period.                                                       *)
Inc ==
  /\ cursor'  = Following(cursor)
  /\ LQArray' = LQArray \ {cursor'}
  /\ LQ'      = Without(cursor', LQ)
  /\ count'   = IF count < N THEN count + 1 ELSE count

(* inc, then add, which finds the bit cleared.                              *)
IncAdd ==
  /\ cursor'  = Following(cursor)
  /\ LQArray' = LQArray \cup {cursor'}
  /\ LQ'      = Without(cursor', LQ) + 1
  /\ count'   = IF count < N THEN count + 1 ELSE count

(* reset: count is kept.                                                    *)
Reset ==
  /\ LQ' = 0 /\ cursor' = << 0, 0 >> /\ LQArray' = {}
  /\ UNCHANGED count

getLQ == (LQ * 100) \div count

-----------------------------------------------------------------------------
Remember(received) == expected' = Append(Tail(expected), received)

OneMore(n) == IF n < N THEN n + 1 ELSE n

Counted ==
  /\ since' = IF connectionState' # "connected" THEN 0 ELSE OneMore(since)
  /\ undamaged' = OneMore(undamaged)

Upgraded ==
  IF connectionState = "disconnected" THEN "tentative" ELSE "connected"

(* processRFPacket with a packet of the link.                               *)
Heard ==
  /\ IncAdd
  /\ connectionState' = Upgraded
  /\ timeout' = 0
  /\ Remember(TRUE) /\ Counted

(* processRFPacket with any other packet, or a damaged one.                 *)
Invalid ==
  /\ Inc
  /\ undamaged' = 0
  /\ UNCHANGED << connectionState, timeout, expected, since >>

(* rxTimeout with a connection.                                             *)
MissingConnected ==
  /\ connectionState = "connected" /\ timeout # LostAfter
  /\ Inc
  /\ timeout' = timeout + 1
  /\ UNCHANGED connectionState

TimesOut_Early == timeout >= N - 1

TimesOut == timeout = LostAfter

(* rxTimeout that gives the connection up.                                  *)
MissingLost ==
  /\ TimesOut
  /\ Reset
  /\ connectionState' = "disconnected"
  /\ timeout' = 1

(* rxTimeout without a connection: no period is counted.                    *)
MissingSearching ==
  /\ connectionState # "connected" /\ timeout # LostAfter
  /\ connectionState' = "disconnected"
  /\ timeout' = IF timeout > ScanAfter THEN 1 ELSE timeout + 1
  /\ UNCHANGED lq

Missing ==
  /\ MissingConnected \/ MissingLost \/ MissingSearching
  /\ Remember(FALSE) /\ Counted

(* disableTransmission, for a changed setting.                              *)
Restart ==
  /\ Reset
  /\ connectionState' = "disconnected"
  /\ since' = 0
  /\ UNCHANGED << timeout, expected, undamaged >>

Next == Heard \/ Invalid \/ Missing \/ Restart

Spec == Init /\ [][Next]_vars

-----------------------------------------------------------------------------
(***************************************************************************)
(* LQ, kept by adding and subtracting one as bits are set and dropped, is  *)
(* the number of set bits, over the wrap of the ring and over every reset. *)
(***************************************************************************)
RunningTotal == LQ = Cardinality(LQArray)

Received == Cardinality({k \in 1 .. N : expected[k]})

(***************************************************************************)
(* "The ratio of packets received to packets expected during the last 3    *)
(* seconds" (docs/Chapters/4_GroundStation.typ:76), which are N periods,   *)
(* once a connection is that old and no damaged packet came in that time.  *)
(* (Such a packet starts a period that rxTimeout starts again: it counts   *)
(* as two missed ones.)                                                    *)
(***************************************************************************)
LqIsRatio == since = N /\ undamaged = N => getLQ = (Received * 100) \div N

(***************************************************************************)
(* The operator sees the quality fall to 0 before the connection is given  *)
(* up: no connection is lost out of a quality above 0.                     *)
(***************************************************************************)
FadesBeforeLost ==
  [][ MissingLost /\ connectionState = "connected" => getLQ = 0 ]_vars
=============================================================================
