------------------------------ MODULE LossyLink ------------------------------
(***************************************************************************)
(* What a serial link promises its user: the frames that arrive are frames *)
(* that were sent, whole, in the order in which they were sent, and each   *)
(* at most once.  Any frame may be lost.  SerialLink implements this.      *)
(***************************************************************************)
EXTENDS Naturals, Sequences, SequencesExt

CONSTANTS
  Frames,     (* What can be sent.                                          *)
  NoFrame     (* No frame.                                                  *)

VARIABLES
  underway,   (* Frames sent that have neither arrived nor been lost.       *)
  given       (* The frame the user is given, or none.                       *)

Init == underway = << >> /\ given = NoFrame

Send == /\ UNCHANGED given
        /\ \E f \in Frames : underway' = Append(underway, f)

Lose == /\ UNCHANGED given
        /\ \E i \in 1 .. Len(underway) : underway' = RemoveAt(underway, i)

Arrive ==
  /\ underway # << >>
  /\ given'    = Head(underway)
  /\ underway' = Tail(underway)

Done == given' = NoFrame /\ UNCHANGED underway

Next == Done \/ Send \/ Lose \/ Arrive

Spec == Init /\ [][Next]_<< underway, given >>
=============================================================================
