------------------------ MODULE EventPipeline_proofs ------------------------
(***************************************************************************)
(* The safety of the event pipeline for every set of timers, every         *)
(* assignment of actions, every length of the queue and every sequence of  *)
(* packets.                                                                *)
(*                                                                         *)
(* NoFireOnPad and AnnouncedIsAccounted are not inductive.  The first      *)
(* needs to know that everything in flight before liftoff is a ground      *)
(* event, as long as only ground events were thrown: the queue, the event  *)
(* at the Peripherals task, the running timers, the calls of the daemon    *)
(* and of the Telemetry task (Grounded).  The second needs to know where   *)
(* every marked event is, also the ones marked in the stale word that the  *)
(* daemon is about to store (Tracked).  StaysArmed needs that EV_CALIBRATE *)
(* is put once and that its mark survives every stale store: from its put  *)
(* to its end there is one copy of it (CalibratedOnce).                    *)
(***************************************************************************)
EXTENDS EventPipeline, TLAPS

(* Between two calls the task is in the phase of its last event. *)
FsmInStep == fsm_pc = "run" => fsm_next = flight_state

(* What the Telemetry task puts, it was told to throw. *)
PutIsThrown == tel_pc = "put" => tel_ev \in thrown

(* Before liftoff, and as long as only ground events were thrown, only
   ground events are in flight. *)
Grounded ==
  ~LiftedOff /\ thrown \subseteq GroundEvents =>
    /\ Range(event_queue) \subseteq GroundEvents
    /\ per_ev # None => per_ev \in GroundEvents
    /\ "high" \notin Range(todo)
    /\ \A t \in running : TimerExec[t] \in GroundEvents
    /\ daemon_pc # "idle" => daemon_ev \in GroundEvents
    /\ ~pyro

(* Every marked event is accounted for, in the word and in the daemon's
   copy of it. *)
Tracked ==
  /\ Accounted(event_tracking)
  /\ daemon_pc = "loaded" => Accounted(seen)
  /\ Accounted(announced)

IInv == TypeOK /\ FsmInStep /\ PutIsThrown /\ Grounded /\ Tracked

-----------------------------------------------------------------------------
(* The elements of a queue after a put and after a get. *)
LEMMA RangeAppend ==
  ASSUME NEW S, NEW s \in Seq(S), NEW e \in S
  PROVE  Range(Append(s, e)) = Range(s) \cup {e}
<1>1. Range(Append(s, e)) \subseteq Range(s) \cup {e}
  BY DEF Range
<1>2. Range(s) \subseteq Range(Append(s, e))
  <2> SUFFICES ASSUME NEW i \in DOMAIN s PROVE s[i] \in Range(Append(s, e))
    BY DEF Range
  <2>1. i \in DOMAIN Append(s, e) /\ Append(s, e)[i] = s[i]
    OBVIOUS
  <2> QED
    BY <2>1 DEF Range
<1>3. e \in Range(Append(s, e))
  <2>1. Len(s) + 1 \in DOMAIN Append(s, e) /\ Append(s, e)[Len(s) + 1] = e
    OBVIOUS
  <2> QED
    BY <2>1 DEF Range
<1> QED
  BY <1>1, <1>2, <1>3

LEMMA RangeHeadTail ==
  ASSUME NEW S, NEW s \in Seq(S), s # << >>
  PROVE  /\ Head(s) \in S
         /\ Tail(s) \in Seq(S)
         /\ Len(Tail(s)) <= Len(s)
         /\ Range(s) = {Head(s)} \cup Range(Tail(s))
<1>1. Head(s) \in S /\ Tail(s) \in Seq(S) /\ Len(Tail(s)) <= Len(s)
  OBVIOUS
<1>2. Head(s) \in Range(s)
  <2>1. 1 \in DOMAIN s /\ s[1] = Head(s)
    OBVIOUS
  <2> QED
    BY <2>1 DEF Range
<1>3. Range(Tail(s)) \subseteq Range(s)
  <2> SUFFICES ASSUME NEW i \in DOMAIN Tail(s) PROVE Tail(s)[i] \in Range(s)
    BY DEF Range
  <2>1. i + 1 \in DOMAIN s /\ s[i + 1] = Tail(s)[i]
    OBVIOUS
  <2> QED
    BY <2>1 DEF Range
<1>4. Range(s) \subseteq {Head(s)} \cup Range(Tail(s))
  <2> SUFFICES ASSUME NEW i \in DOMAIN s, i # 1 PROVE s[i] \in Range(Tail(s))
    BY DEF Range
  <2>1. i - 1 \in DOMAIN Tail(s) /\ Tail(s)[i - 1] = s[i]
    OBVIOUS
  <2> QED
    BY <2>1 DEF Range
<1> QED
  BY <1>1, <1>2, <1>3, <1>4

(* A put adds its event to the queue, within the length of the queue. *)
LEMMA EnqueueEffect ==
  ASSUME TypeOK, NEW ev \in Event, Enqueue(ev)
  PROVE  /\ event_queue' \in Seq(Event)
         /\ Len(event_queue') <= QueueSize
         /\ Range(event_queue') = Range(event_queue) \cup {ev}
<1>1. event_queue \in Seq(Event) /\ event_queue' = Append(event_queue, ev)
  BY DEF TypeOK, Enqueue
<1>2. Range(event_queue') = Range(event_queue) \cup {ev}
  BY <1>1, RangeAppend
<1>3. Len(event_queue') = Len(event_queue) + 1 /\ event_queue' \in Seq(Event)
  BY <1>1
<1>4. Len(event_queue') <= QueueSize
  BY <1>1, <1>3, ConfigAssumption DEF Enqueue, ConfigAssumption
<1> QED
  BY <1>2, <1>3, <1>4

(* The event of a phase is an event, and the events of the phases before
   liftoff are ground events. *)
LEMMA EntryEvents ==
  ASSUME NEW p \in Phase
  PROVE  /\ EntryEvent[p] \in Event
         /\ p \in {"CALIBRATING", "READY"} => EntryEvent[p] \in GroundEvents
  BY PadAssumption DEF PadAssumption, EntryEvent, Event, Phase

(* The graph does not lead back to the pad. *)
LEMMA NoReturnToPad ==
  ASSUME NEW p \in Phase, NEW q \in Successors[p]
  PROVE  /\ q \in Phase
         /\ p \notin {"CALIBRATING", "READY"} => q \notin {"CALIBRATING", "READY"}
  BY DEF Phase, Successors, Transitions

LEMMA MarkedType ==
  ASSUME NEW base \in SUBSET Event, NEW e \in Event
  PROVE  Marked(base, e) \in SUBSET Event
  BY DEF Marked

(* The value for `no event' is not one. *)
LEMMA NoneIsNoEvent == None \notin Event
  BY DEF None, Event

-----------------------------------------------------------------------------
THEOREM InitInvariant == Init => IInv
<1> SUFFICES ASSUME Init PROVE IInv
  OBVIOUS
<1>1. Range(event_queue) = {} /\ Range(todo) = {}
  BY DEF Init, Range
<1>2. TypeOK
  <2>1. "EV_CALIBRATE" \in Event /\ "CALIBRATING" \in Phase
    BY DEF Event, Phase
  <2>2. /\ event_queue \in Seq(Event) /\ Len(event_queue) <= QueueSize
        /\ todo \in Seq(Action)
    BY ConfigAssumption DEF Init, ConfigAssumption
  <2> QED
    BY <2>1, <2>2 DEF Init, TypeOK
<1>3. FsmInStep
  BY DEF Init, FsmInStep
<1>4. PutIsThrown /\ Grounded
  BY <1>1 DEF Init, PutIsThrown, Grounded
<1>5. "EV_CALIBRATE" \in Places
  BY DEF Init, Places, EntryEvent, Phase
<1>6. Tracked
  BY <1>5 DEF Init, Tracked, Accounted
<1> QED
  BY <1>2, <1>3, <1>4, <1>6 DEF IInv

LEMMA TypeStep == TypeOK /\ [Next]_vars => TypeOK'
<1> SUFFICES ASSUME TypeOK, [Next]_vars PROVE TypeOK'
  OBVIOUS
<1> USE DEF TypeOK
<1>1. ASSUME NEW p \in Phase, FsmSuppressed(p) PROVE TypeOK'
  BY <1>1, EntryEvents DEF FsmSuppressed, daemon, tel, pins
<1>2. ASSUME NEW p \in Phase, FsmTrigger(p) PROVE TypeOK'
  BY <1>2, EntryEvents, MarkedType DEF FsmTrigger, daemon, tel, pins
<1>3. CASE FsmPut
  BY <1>3, EntryEvents, EnqueueEffect DEF FsmPut, FsmReturn, daemon, tel, pins
<1>4. CASE FsmTimeOut
  BY <1>4, EntryEvents DEF FsmTimeOut, TimeOut, FsmReturn, daemon, tel, pins
<1>5. ASSUME NEW t \in Timer, Expire(t) PROVE TypeOK'
  <2>1. TimerExec[t] \in Event
    BY ConfigAssumption DEF ConfigAssumption
  <2> QED
    BY <1>5, <2>1 DEF Expire, StillRunning, fsm, daemon, tel, pins
<1>6. CASE Store
  <2>1. event_tracking' \in SUBSET Event
    BY <1>6, MarkedType DEF Store
  <2> QED
    BY <1>6, <2>1 DEF Store, fsm, tel, pins
<1>7. CASE DaemonPut
  BY <1>7, EnqueueEffect DEF DaemonPut, DaemonReturn, fsm, tel, pins
<1>8. CASE DaemonTimeOut
  BY <1>8 DEF DaemonTimeOut, TimeOut, DaemonReturn, fsm, tel, pins
<1>9. CASE Get
  <2>1. PICK ev \in Event : ev = Head(event_queue)
    BY <1>9, RangeHeadTail DEF Get
  <2>2. event_queue' \in Seq(Event) /\ Len(event_queue') <= QueueSize
    BY <1>9, RangeHeadTail, ConfigAssumption DEF Get, ConfigAssumption
  <2>3. Actions[ev] \in Seq(Action)
    BY ConfigAssumption DEF ConfigAssumption
  <2>4. running' \subseteq Timer
    BY <1>9 DEF Get, StartedBy
  <2> QED
    BY <1>9, <2>1, <2>2, <2>3, <2>4 DEF Get, Armed, fsm, daemon, tel
<1>10. CASE Act
  <2>1. todo' \in Seq(Action)
    BY <1>10, RangeHeadTail DEF Act
  <2>2. pyro' \in BOOLEAN
    BY <1>10 DEF Act
  <2> QED
    BY <1>10, <2>1, <2>2 DEF Act, fsm, daemon, tel
<1>11. CASE Finish
  BY <1>11 DEF Finish, fsm, daemon, tel, pins
<1>12. ASSUME NEW pkt \in Packets, ParseRxMessage(pkt) PROVE TypeOK'
  <2>1. pkt \in [enable : BOOLEAN, event : Event \cup {None}]
    BY PacketAssumption DEF PacketAssumption
  <2> QED
    BY <1>12, <2>1 DEF ParseRxMessage, Throws, fsm, daemon
<1>13. CASE TelPut
  BY <1>13, EnqueueEffect DEF TelPut, TelReturn, fsm, daemon, pins
<1>14. CASE TelTimeOut
  BY <1>14 DEF TelTimeOut, TelReturn, fsm, daemon, pins
<1>15. CASE TestingTimeOut
  BY <1>15 DEF TestingTimeOut, fsm, daemon, tel
<1>16. CASE UNCHANGED vars
  BY <1>16 DEF vars, fsm, daemon, tel, pins
<1> QED
  BY <1>1, <1>2, <1>3, <1>4, <1>5, <1>6, <1>7, <1>8, <1>9, <1>10, <1>11, <1>12,
     <1>13, <1>14, <1>15, <1>16
  DEF Next, FsmStep, FsmEndPut, DaemonCall, TelEndPut, PeripheralsStep

LEMMA FsmInStepStep == FsmInStep /\ [Next]_vars => FsmInStep'
<1> SUFFICES ASSUME FsmInStep, [Next]_vars PROVE FsmInStep'
  OBVIOUS
<1> USE DEF FsmInStep
<1>1. ASSUME NEW p \in Phase, FsmSuppressed(p) \/ FsmTrigger(p) PROVE FsmInStep'
  BY <1>1 DEF FsmSuppressed, FsmTrigger
<1>2. CASE FsmPut \/ FsmTimeOut
  BY <1>2 DEF FsmPut, FsmTimeOut, FsmReturn
<1>3. CASE UNCHANGED fsm
  BY <1>3 DEF fsm
<1>4. CASE (\E t \in Timer : Expire(t)) \/ DaemonCall \/ PeripheralsStep \/ UNCHANGED vars
  BY <1>3, <1>4
  DEF Expire, DaemonCall, Store, DaemonPut, DaemonTimeOut, DaemonReturn,
      PeripheralsStep, Get, Act, Finish, vars
<1>5. CASE (\E pkt \in Packets : ParseRxMessage(pkt)) \/ TelEndPut \/ TestingTimeOut
  BY <1>3, <1>5
  DEF ParseRxMessage, TelEndPut, TelPut, TelTimeOut, TelReturn, TestingTimeOut
<1> QED
  BY <1>1, <1>2, <1>4, <1>5 DEF Next, FsmStep, FsmEndPut

LEMMA PutIsThrownStep == PutIsThrown /\ [Next]_vars => PutIsThrown'
<1> SUFFICES ASSUME PutIsThrown, [Next]_vars PROVE PutIsThrown'
  OBVIOUS
<1> USE DEF PutIsThrown
<1>1. ASSUME NEW pkt \in Packets, ParseRxMessage(pkt) PROVE PutIsThrown'
  BY <1>1 DEF ParseRxMessage
<1>2. CASE TelEndPut
  BY <1>2 DEF TelEndPut, TelPut, TelTimeOut, TelReturn
<1>3. CASE UNCHANGED tel
  BY <1>3 DEF tel
<1>4. CASE \/ FsmStep \/ FsmEndPut \/ \E t \in Timer : Expire(t)
          \/ DaemonCall \/ TestingTimeOut \/ PeripheralsStep \/ UNCHANGED vars
  BY <1>3, <1>4
  DEF FsmStep, FsmSuppressed, FsmTrigger, FsmEndPut, FsmPut, FsmTimeOut,
      FsmReturn, Expire, DaemonCall, Store, DaemonPut, DaemonTimeOut,
      DaemonReturn, TestingTimeOut, PeripheralsStep, Get, Act, Finish, vars
<1> QED
  BY <1>1, <1>2, <1>4 DEF Next

-----------------------------------------------------------------------------
(* Liftoff is never taken back. *)
LEMMA LiftedOffStays ==
  TypeOK /\ FsmInStep /\ [Next]_vars /\ LiftedOff => LiftedOff'
<1> SUFFICES ASSUME TypeOK, FsmInStep, [Next]_vars, LiftedOff PROVE LiftedOff'
  OBVIOUS
<1>1. ASSUME NEW p \in Phase, FsmSuppressed(p) \/ FsmTrigger(p) PROVE LiftedOff'
  BY <1>1, NoReturnToPad
  DEF FsmSuppressed, FsmTrigger, FsmInStep, LiftedOff, TypeOK
<1>2. CASE UNCHANGED fsm_next
  BY <1>2 DEF LiftedOff
<1>3. CASE FsmEndPut \/ (\E t \in Timer : Expire(t)) \/ DaemonCall
             \/ PeripheralsStep \/ UNCHANGED vars
  BY <1>2, <1>3
  DEF FsmEndPut, FsmPut, FsmTimeOut, FsmReturn, Expire, DaemonCall, Store,
      DaemonPut, DaemonTimeOut, DaemonReturn, PeripheralsStep, Get, Act,
      Finish, vars, fsm
<1>4. CASE (\E pkt \in Packets : ParseRxMessage(pkt)) \/ TelEndPut \/ TestingTimeOut
  BY <1>2, <1>4
  DEF ParseRxMessage, TelEndPut, TelPut, TelTimeOut, TelReturn, TestingTimeOut, fsm
<1> QED
  BY <1>1, <1>3, <1>4 DEF Next, FsmStep

(* What was thrown is not forgotten. *)
LEMMA ThrownStays == [Next]_vars => thrown \subseteq thrown'
  BY DEF Next, FsmStep, FsmSuppressed, FsmTrigger, FsmEndPut, FsmPut, FsmTimeOut,
     FsmReturn, Expire, DaemonCall, Store, DaemonPut, DaemonTimeOut, DaemonReturn,
     ParseRxMessage, TelEndPut, TelPut, TelTimeOut, TelReturn, TestingTimeOut,
     PeripheralsStep, Get, Act, Finish, vars, tel

LEMMA GroundedStep ==
  TypeOK /\ FsmInStep /\ PutIsThrown /\ Grounded /\ [Next]_vars => Grounded'
<1> SUFFICES ASSUME TypeOK, FsmInStep, PutIsThrown, Grounded, [Next]_vars,
                    ~LiftedOff', thrown' \subseteq GroundEvents
             PROVE  Grounded'
  BY DEF Grounded
<1>0. ~LiftedOff /\ thrown \subseteq GroundEvents
  BY LiftedOffStays, ThrownStays
<1> USE <1>0 DEF Grounded
<1>1. ASSUME NEW p \in Phase, FsmSuppressed(p) \/ FsmTrigger(p) PROVE Grounded'
  BY <1>1 DEF FsmSuppressed, FsmTrigger, daemon, tel, pins
<1>2. ASSUME FsmPut \/ FsmTimeOut PROVE Grounded'
  <2>1. EntryEvent[fsm_next] \in GroundEvents /\ EntryEvent[fsm_next] \in Event
    BY EntryEvents DEF LiftedOff, TypeOK
  <2>2. Range(event_queue') \subseteq GroundEvents
    BY <1>2, <2>1, EnqueueEffect DEF FsmPut, FsmTimeOut
  <2> QED
    BY <1>2, <2>2 DEF FsmPut, FsmTimeOut, FsmReturn, daemon, tel, pins
<1>3. ASSUME NEW t \in Timer, Expire(t) PROVE Grounded'
  BY <1>3 DEF Expire, StillRunning, daemon, fsm, tel, pins
<1>4. CASE Store
  BY <1>4 DEF Store, fsm, tel, pins
<1>5. CASE DaemonPut \/ DaemonTimeOut
  <2>1. daemon_ev \in GroundEvents /\ daemon_ev \in Event
    BY <1>5 DEF DaemonPut, DaemonTimeOut, TypeOK
  <2>2. Range(event_queue') \subseteq GroundEvents
    BY <1>5, <2>1, EnqueueEffect DEF DaemonPut, DaemonTimeOut
  <2> QED
    BY <1>5, <2>2 DEF DaemonPut, DaemonTimeOut, DaemonReturn, fsm, tel, pins
<1>6. CASE Get
  <2>1. /\ Head(event_queue) \in GroundEvents
        /\ Range(event_queue') \subseteq GroundEvents
    BY <1>6, RangeHeadTail DEF Get, TypeOK
  <2>2. "high" \notin Range(todo')
    BY <1>6, <2>1, PadAssumption DEF Get, PadAssumption
  <2>3. \A t \in running' : TimerExec[t] \in GroundEvents
    BY <1>6, <2>1, PadAssumption DEF Get, StartedBy, PadAssumption
  <2> QED
    BY <1>6, <2>1, <2>2, <2>3 DEF Get, fsm, daemon, tel
<1>7. CASE Act
  <2>1. Head(todo) # "high" /\ "high" \notin Range(todo')
    BY <1>7, RangeHeadTail DEF Act, TypeOK
  <2>2. ~pyro'
    BY <1>7, <2>1 DEF Act
  <2> QED
    BY <1>7, <2>1, <2>2 DEF Act, fsm, daemon, tel
<1>8. CASE Finish
  BY <1>8 DEF Finish, fsm, daemon, tel, pins
<1>9. ASSUME NEW pkt \in Packets, ParseRxMessage(pkt) PROVE Grounded'
  BY <1>9 DEF ParseRxMessage, fsm, daemon
<1>10. CASE TelEndPut
  <2>1. tel_ev \in GroundEvents /\ tel_ev \in Event
    BY <1>10 DEF TelEndPut, TelPut, TelTimeOut, TelReturn, PutIsThrown, TypeOK
  <2>2. Range(event_queue') \subseteq GroundEvents
    BY <1>10, <2>1, EnqueueEffect DEF TelEndPut, TelPut, TelTimeOut
  <2> QED
    BY <1>10, <2>2 DEF TelEndPut, TelPut, TelTimeOut, TelReturn, fsm, daemon, pins
<1>11. CASE TestingTimeOut
  BY <1>11 DEF TestingTimeOut, fsm, daemon, tel
<1>12. CASE UNCHANGED vars
  BY <1>12 DEF vars, fsm, daemon, tel, pins
<1> QED
  BY <1>1, <1>2, <1>3, <1>4, <1>5, <1>6, <1>7, <1>8, <1>9, <1>10, <1>11, <1>12
  DEF Next, FsmStep, FsmEndPut, DaemonCall, PeripheralsStep

-----------------------------------------------------------------------------
(* No step takes an event out of Places: it moves along the pipeline and
   ends among the executed or the lost ones. *)
LEMMA PlacesGrow == TypeOK /\ [Next]_vars => Places \subseteq Places'
<1> SUFFICES ASSUME TypeOK, [Next]_vars PROVE Places \subseteq Places'
  OBVIOUS
<1>1. ASSUME NEW p \in Phase, FsmSuppressed(p) \/ FsmTrigger(p)
      PROVE  Places \subseteq Places'
  BY <1>1 DEF FsmSuppressed, FsmTrigger, Places, daemon, tel, pins
<1>2. CASE FsmPut
  <2>1. Range(event_queue') = Range(event_queue) \cup {EntryEvent[fsm_next]}
    BY <1>2, EnqueueEffect, EntryEvents DEF FsmPut, TypeOK
  <2> QED
    BY <1>2, <2>1 DEF FsmPut, FsmReturn, Places, daemon, tel, pins
<1>3. CASE FsmTimeOut
  BY <1>3 DEF FsmTimeOut, TimeOut, FsmReturn, Places, daemon, tel, pins
<1>4. ASSUME NEW t \in Timer, Expire(t) PROVE Places \subseteq Places'
  BY <1>4 DEF Expire, Places, fsm, daemon, tel, pins
<1>5. CASE Store
  BY <1>5 DEF Store, Places, fsm, tel, pins
<1>6. CASE DaemonPut
  <2>1. Range(event_queue') = Range(event_queue) \cup {daemon_ev}
    BY <1>6, EnqueueEffect DEF DaemonPut, TypeOK
  <2> QED
    BY <1>6, <2>1 DEF DaemonPut, DaemonReturn, Places, fsm, tel, pins
<1>7. CASE DaemonTimeOut
  BY <1>7 DEF DaemonTimeOut, TimeOut, DaemonReturn, Places, fsm, tel, pins
<1>8. CASE Get
  <2>1. /\ Range(event_queue) = {Head(event_queue)} \cup Range(event_queue')
        /\ Head(event_queue) # None
    BY <1>8, RangeHeadTail, NoneIsNoEvent DEF Get, TypeOK
  <2> QED
    BY <1>8, <2>1 DEF Get, Places, fsm, daemon, tel
<1>9. CASE Act
  BY <1>9 DEF Act, Places, fsm, daemon, tel
<1>10. CASE Finish
  BY <1>10 DEF Finish, Places, fsm, daemon, tel, pins
<1>11. CASE (\E pkt \in Packets : ParseRxMessage(pkt)) \/ TestingTimeOut
  BY <1>11 DEF ParseRxMessage, TestingTimeOut, Places, fsm, daemon
<1>12. CASE TelEndPut
  <2>1. Range(event_queue) \subseteq Range(event_queue')
    BY <1>12, EnqueueEffect DEF TelEndPut, TelPut, TelTimeOut, TelReturn, TypeOK
  <2> QED
    BY <1>12, <2>1
    DEF TelEndPut, TelPut, TelTimeOut, TelReturn, Places, fsm, daemon
<1>13. CASE UNCHANGED vars
  BY <1>13 DEF vars, Places, fsm, daemon, pins
<1> QED
  BY <1>1, <1>2, <1>3, <1>4, <1>5, <1>6, <1>7, <1>8, <1>9, <1>10, <1>11, <1>12,
     <1>13
  DEF Next, FsmStep, FsmEndPut, DaemonCall, PeripheralsStep

(* Every marked event stays accounted for, also when the daemon stores a
   word that is out of date. *)
LEMMA TrackedStep ==
  TypeOK /\ FsmInStep /\ Tracked /\ [Next]_vars => Tracked'
<1> SUFFICES ASSUME TypeOK, FsmInStep, Tracked, [Next]_vars PROVE Tracked'
  OBVIOUS
<1>0. Places \subseteq Places'
  BY PlacesGrow
<1> USE DEF Tracked
<1>1. ASSUME NEW p \in Phase, FsmSuppressed(p) PROVE Tracked'
  <2>1. EntryEvent[p] \in Places' \/ "EV_TOUCHDOWN" \in Places'
    BY <1>0, <1>1 DEF FsmSuppressed, Accounted
  <2> QED
    BY <1>0, <1>1, <2>1 DEF FsmSuppressed, Accounted, daemon
<1>2. ASSUME NEW p \in Phase, FsmTrigger(p) PROVE Tracked'
  <2>1. EntryEvent[p] \in Places' /\ EntryEvent[p] \in Event
    BY <1>2, EntryEvents DEF FsmTrigger, Places
  <2>2. event_tracking' \subseteq Places' \/ "EV_TOUCHDOWN" \in Places'
    BY <1>0, <1>2, <2>1 DEF FsmTrigger, Accounted, Marked
  <2> QED
    BY <1>0, <1>2, <2>2 DEF FsmTrigger, Accounted, daemon
<1>3. CASE FsmPut \/ FsmTimeOut
  <2>1. EntryEvent[fsm_next] \in Places
    BY <1>3 DEF FsmPut, FsmTimeOut, Places
  <2> QED
    BY <1>0, <1>3, <2>1 DEF FsmPut, FsmTimeOut, FsmReturn, Accounted, daemon
<1>4. ASSUME NEW t \in Timer, Expire(t) PROVE Tracked'
  BY <1>0, <1>4 DEF Expire, Accounted, fsm, daemon, tel
<1>5. CASE Store
  <2>1. daemon_ev \in Places' /\ daemon_ev \in Event
    BY <1>5 DEF Store, Places, TypeOK
  <2>2. Accounted(event_tracking) /\ Accounted(seen)
    BY <1>5 DEF Store
  <2>3. event_tracking' \subseteq Places' \/ "EV_TOUCHDOWN" \in Places'
    BY <1>0, <1>5, <2>1, <2>2 DEF Store, Accounted, Marked
  <2> QED
    BY <1>0, <1>5, <2>3 DEF Store, Accounted, fsm
<1>6. CASE DaemonPut \/ DaemonTimeOut
  BY <1>0, <1>6 DEF DaemonPut, DaemonTimeOut, DaemonReturn, Accounted, fsm
<1>7. CASE Get \/ Act \/ Finish
  BY <1>0, <1>7 DEF Get, Act, Finish, Accounted, fsm, daemon, tel
<1>8. CASE (\E pkt \in Packets : ParseRxMessage(pkt)) \/ TelEndPut \/ TestingTimeOut
  BY <1>0, <1>8
  DEF ParseRxMessage, TelEndPut, TelPut, TelTimeOut, TelReturn, TestingTimeOut,
      Accounted, fsm, daemon
<1>9. CASE UNCHANGED vars
  BY <1>0, <1>9 DEF vars, Accounted, fsm, daemon
<1> QED
  BY <1>1, <1>2, <1>3, <1>4, <1>5, <1>6, <1>7, <1>8, <1>9
  DEF Next, FsmStep, FsmEndPut, DaemonCall, PeripheralsStep

-----------------------------------------------------------------------------
(* The inductive invariant of the pipeline. *)
THEOREM Invariance == Spec => []IInv
<1>1. IInv /\ [Next]_vars => IInv'
  BY TypeStep, FsmInStepStep, PutIsThrownStep, GroundedStep, TrackedStep DEF IInv
<1> QED
  BY InitInvariant, <1>1, PTL DEF Spec

(* Types of the pipeline; in particular the queue never outgrows its length. *)
THEOREM TypeCorrect == Spec => []TypeOK
<1>1. IInv => TypeOK
  BY DEF IInv
<1> QED
  BY <1>1, Invariance, PTL

(* With any configuration that is safe on the pad, no pyro channel is
   driven before liftoff is detected, unless the ground station has thrown
   an event that is not a ground event. *)
THEOREM PadSafety == Spec => []NoFireOnPad
<1>1. IInv => NoFireOnPad
  BY DEF IInv, Grounded, NoFireOnPad
<1> QED
  BY <1>1, Invariance, PTL

(* With any timers and any interleaving of the two threads that call
   trigger_event, an event the state machine announced is on its way, was
   executed, was lost by a put that timed out, or gave way to touchdown. *)
THEOREM NothingForgotten == Spec => []AnnouncedIsAccounted
<1>1. IInv => AnnouncedIsAccounted
  BY DEF IInv, Tracked, AnnouncedIsAccounted
<1> QED
  BY <1>1, Invariance, PTL

-----------------------------------------------------------------------------
(* What keeps a timer from calibrating: every callback passes event_unique,
   or no timer is configured to trigger EV_CALIBRATE. *)
NoTimerCalibrates ==
  \/ FALSE \notin UniqueArg
  \/ \A t \in Timer : TimerExec[t] # "EV_CALIBRATE"

(* At most one EV_CALIBRATE is in the queue. *)
OneCalibrate(queue) ==
  \A i, j \in 1 .. Len(queue) :
    queue[i] = "EV_CALIBRATE" /\ queue[j] = "EV_CALIBRATE" => i = j

(* Only the state machine puts EV_CALIBRATE, before anything else: its mark
   is never lost, and it is in one place from its put to its end. *)
CalibratedOnce ==
  /\ "EV_CALIBRATE" \in event_tracking
  /\ daemon_pc = "loaded" => "EV_CALIBRATE" \in seen
  /\ daemon_pc # "idle" => daemon_ev # "EV_CALIBRATE"
  /\ tel_pc = "put" => tel_ev # "EV_CALIBRATE"
  /\ fsm_pc = "put" /\ fsm_next = "CALIBRATING" =>
       /\ "EV_CALIBRATE" \notin Range(event_queue)
       /\ per_ev # "EV_CALIBRATE"
       /\ "EV_CALIBRATE" \notin executed
  /\ "EV_CALIBRATE" \in Range(event_queue) =>
       per_ev # "EV_CALIBRATE" /\ "EV_CALIBRATE" \notin executed
  /\ OneCalibrate(event_queue)

(* Only the phase a flight starts in is announced by EV_CALIBRATE, and no
   phase is followed by it. *)
LEMMA CalibratingIsFirst ==
  ASSUME NEW p \in Phase
  PROVE  /\ EntryEvent[p] = "EV_CALIBRATE" <=> p = "CALIBRATING"
         /\ "CALIBRATING" \notin Successors[p]
  BY DEF EntryEvent, Phase, Successors, Transitions

(* A put keeps EV_CALIBRATE single, unless it adds a second one. *)
LEMMA PutKeepsOne ==
  ASSUME TypeOK, NEW ev \in Event, Enqueue(ev), OneCalibrate(event_queue),
         ev = "EV_CALIBRATE" => "EV_CALIBRATE" \notin Range(event_queue)
  PROVE  OneCalibrate(event_queue')
<1> SUFFICES ASSUME NEW i \in 1 .. Len(event_queue'),
                    NEW j \in 1 .. Len(event_queue'),
                    event_queue'[i] = "EV_CALIBRATE",
                    event_queue'[j] = "EV_CALIBRATE"
             PROVE  i = j
  BY DEF OneCalibrate
<1>1. /\ event_queue \in Seq(Event)
      /\ event_queue' = Append(event_queue, ev)
  BY DEF TypeOK, Enqueue
<1>2. Len(event_queue') = Len(event_queue) + 1
  BY <1>1
<1>3. CASE ev = "EV_CALIBRATE"
  <2>1. ASSUME NEW k \in 1 .. Len(event_queue) PROVE event_queue'[k] # "EV_CALIBRATE"
    <3>1. event_queue'[k] = event_queue[k] /\ k \in DOMAIN event_queue
      BY <1>1, <2>1
    <3> QED
      BY <1>3, <3>1 DEF Range
  <2> QED
    BY <1>1, <1>2, <2>1
<1>4. CASE ev # "EV_CALIBRATE"
  <2>1. i # Len(event_queue) + 1 /\ j # Len(event_queue) + 1
    BY <1>1, <1>4
  <2>2. i \in 1 .. Len(event_queue) /\ j \in 1 .. Len(event_queue)
    BY <1>1, <1>2, <2>1
  <2>3. event_queue[i] = "EV_CALIBRATE" /\ event_queue[j] = "EV_CALIBRATE"
    BY <1>1, <2>2
  <2> QED
    BY <2>2, <2>3 DEF OneCalibrate
<1> QED
  BY <1>3, <1>4

(* When EV_CALIBRATE is taken from the queue, none is left in it. *)
LEMMA TakeKeepsOne ==
  ASSUME NEW queue \in Seq(Event), queue # << >>, OneCalibrate(queue)
  PROVE  /\ OneCalibrate(Tail(queue))
         /\ Head(queue) = "EV_CALIBRATE" => "EV_CALIBRATE" \notin Range(Tail(queue))
<1>1. Len(Tail(queue)) = Len(queue) - 1 /\ Head(queue) = queue[1] /\ Len(queue) >= 1
      /\ Tail(queue) \in Seq(Event)
  OBVIOUS
<1>2. ASSUME NEW i \in 1 .. Len(Tail(queue))
      PROVE  i + 1 \in 1 .. Len(queue) /\ Tail(queue)[i] = queue[i + 1]
  BY <1>1
<1>3. OneCalibrate(Tail(queue))
  <2> SUFFICES ASSUME NEW i \in 1 .. Len(Tail(queue)), NEW j \in 1 .. Len(Tail(queue)),
                      Tail(queue)[i] = "EV_CALIBRATE", Tail(queue)[j] = "EV_CALIBRATE"
               PROVE  i = j
    BY DEF OneCalibrate
  <2>1. i + 1 = j + 1
    BY <1>2 DEF OneCalibrate
  <2> QED
    BY <1>1, <2>1
<1>4. ASSUME Head(queue) = "EV_CALIBRATE", "EV_CALIBRATE" \in Range(Tail(queue))
      PROVE  FALSE
  <2>1. PICK i \in 1 .. Len(Tail(queue)) : Tail(queue)[i] = "EV_CALIBRATE"
    BY <1>1, <1>4 DEF Range
  <2>2. i + 1 \in 1 .. Len(queue) /\ queue[i + 1] = "EV_CALIBRATE"
    BY <1>2, <2>1
  <2>3. 1 \in 1 .. Len(queue) /\ queue[1] = "EV_CALIBRATE"
    BY <1>1, <1>4
  <2>4. i + 1 = 1
    BY <2>2, <2>3 DEF OneCalibrate
  <2> QED
    BY <1>1, <2>4
<1> QED
  BY <1>3, <1>4

LEMMA CalibratedOnceStep ==
  ASSUME NoTimerCalibrates
  PROVE  TypeOK /\ FsmInStep /\ CalibratedOnce /\ [Next]_vars => CalibratedOnce'
<1> SUFFICES ASSUME TypeOK, FsmInStep, CalibratedOnce, [Next]_vars
             PROVE  CalibratedOnce'
  OBVIOUS
<1>1. ASSUME NEW p \in Phase, FsmSuppressed(p) \/ FsmTrigger(p)
      PROVE  CalibratedOnce'
  <2>1. p # "CALIBRATING"
    BY <1>1, CalibratingIsFirst DEF FsmSuppressed, FsmTrigger, TypeOK
  <2>2. "EV_CALIBRATE" \in event_tracking'
    BY <1>1 DEF FsmSuppressed, FsmTrigger, Marked, CalibratedOnce, Event
  <2> QED
    BY <1>1, <2>1, <2>2 DEF FsmSuppressed, FsmTrigger, CalibratedOnce, daemon, tel
<1>2. CASE FsmPut
  <2>1. EntryEvent[fsm_next] \in Event
    BY EntryEvents DEF TypeOK
  <2>2. OneCalibrate(event_queue')
    BY <1>2, <2>1, CalibratingIsFirst, PutKeepsOne DEF FsmPut, TypeOK, CalibratedOnce
  <2>3. "EV_CALIBRATE" \in Range(event_queue') =>
          per_ev # "EV_CALIBRATE" /\ "EV_CALIBRATE" \notin executed
    BY <1>2, <2>1, CalibratingIsFirst, EnqueueEffect DEF FsmPut, TypeOK, CalibratedOnce
  <2> QED
    BY <1>2, <2>2, <2>3 DEF FsmPut, FsmReturn, CalibratedOnce, daemon, tel
<1>3. CASE FsmTimeOut
  BY <1>3 DEF FsmTimeOut, FsmReturn, CalibratedOnce, daemon, tel
<1>4. ASSUME NEW t \in Timer, Expire(t) PROVE CalibratedOnce'
  <2>1. daemon_pc' # "idle" => daemon_ev' # "EV_CALIBRATE"
    <3>1. \/ UNCHANGED daemon
          \/ /\ daemon_ev' = TimerExec[t]
             /\ TimerExec[t] \notin event_tracking \/ FALSE \in UniqueArg
      BY <1>4, ConfigAssumption DEF Expire, ConfigAssumption
    <3> QED
      BY <1>4, <3>1 DEF Expire, daemon, CalibratedOnce, NoTimerCalibrates
  <2>2. daemon_pc' = "loaded" => "EV_CALIBRATE" \in seen'
    BY <1>4 DEF Expire, daemon, CalibratedOnce
  <2> QED
    BY <1>4, <2>1, <2>2 DEF Expire, CalibratedOnce, fsm, tel
<1>5. CASE Store
  <2>1. "EV_CALIBRATE" \in event_tracking'
    BY <1>5 DEF Store, Marked, CalibratedOnce, Event
  <2> QED
    BY <1>5, <2>1 DEF Store, CalibratedOnce, fsm, tel
<1>6. CASE DaemonPut
  <2>1. daemon_ev \in Event /\ daemon_ev # "EV_CALIBRATE"
    BY <1>6 DEF DaemonPut, TypeOK, CalibratedOnce
  <2>2. OneCalibrate(event_queue')
    BY <1>6, <2>1, PutKeepsOne DEF DaemonPut, CalibratedOnce
  <2>3. Range(event_queue') = Range(event_queue) \cup {daemon_ev}
    BY <1>6, <2>1, EnqueueEffect DEF DaemonPut
  <2> QED
    BY <1>6, <2>1, <2>2, <2>3 DEF DaemonPut, DaemonReturn, CalibratedOnce, fsm, tel
<1>7. CASE DaemonTimeOut
  BY <1>7 DEF DaemonTimeOut, DaemonReturn, CalibratedOnce, fsm, tel
<1>8. ASSUME NEW pkt \in Packets, ParseRxMessage(pkt) PROVE CalibratedOnce'
  BY <1>8 DEF ParseRxMessage, Throws, CalibratedOnce, fsm, daemon
<1>9. CASE TelPut
  <2>1. tel_ev \in Event /\ tel_ev # "EV_CALIBRATE"
    BY <1>9 DEF TelPut, TelReturn, TypeOK, CalibratedOnce
  <2>2. OneCalibrate(event_queue')
    BY <1>9, <2>1, PutKeepsOne DEF TelPut, CalibratedOnce
  <2>3. Range(event_queue') = Range(event_queue) \cup {tel_ev}
    BY <1>9, <2>1, EnqueueEffect DEF TelPut
  <2> QED
    BY <1>9, <2>1, <2>2, <2>3 DEF TelPut, TelReturn, CalibratedOnce, fsm, daemon
<1>10. CASE TelTimeOut \/ TestingTimeOut
  BY <1>10 DEF TelTimeOut, TelReturn, TestingTimeOut, CalibratedOnce, fsm, daemon, tel
<1>11. CASE Get
  <2>1. /\ event_queue \in Seq(Event) /\ event_queue # << >>
        /\ event_queue' = Tail(event_queue)
    BY <1>11 DEF Get, TypeOK
  <2>2. /\ OneCalibrate(event_queue')
        /\ Head(event_queue) = "EV_CALIBRATE" =>
             "EV_CALIBRATE" \notin Range(event_queue')
    BY <2>1, TakeKeepsOne DEF CalibratedOnce
  <2>3. Range(event_queue) = {Head(event_queue)} \cup Range(event_queue')
    BY <2>1, RangeHeadTail
  <2> QED
    BY <1>11, <2>2, <2>3 DEF Get, CalibratedOnce, fsm, daemon, tel
<1>12. CASE Act
  BY <1>12 DEF Act, CalibratedOnce, fsm, daemon, tel
<1>13. CASE Finish
  BY <1>13 DEF Finish, CalibratedOnce, None, fsm, daemon, tel
<1>14. CASE UNCHANGED vars
  BY <1>14 DEF vars, fsm, daemon, tel, CalibratedOnce
<1> QED
  BY <1>1, <1>2, <1>3, <1>4, <1>5, <1>6, <1>7, <1>8, <1>9, <1>10, <1>11, <1>12,
     <1>13, <1>14
  DEF Next, FsmStep, FsmEndPut, DaemonCall, TelEndPut, PeripheralsStep

(* Whatever the timers trigger, the ground station throws and the daemon
   stores, no event disarms the pyro channels once the calibration is over,
   as long as the timers' callbacks pass event_unique or leave EV_CALIBRATE
   alone: only a packet or the silence of the ground station does. *)
THEOREM ArmingLasts ==
  ASSUME NoTimerCalibrates
  PROVE  Spec => StaysArmed
<1> DEFINE A == pyro_en /\ "EV_CALIBRATE" \in executed => pyro_en' \/ TelemetryDisarms
<1>1. Init => CalibratedOnce
  BY DEF Init, CalibratedOnce, OneCalibrate, Range, None
<1>2. TypeOK /\ CalibratedOnce /\ [Next]_vars => [A]_vars
  <2> SUFFICES ASSUME TypeOK, CalibratedOnce, Next, pyro_en,
                      "EV_CALIBRATE" \in executed, ~TelemetryDisarms
               PROVE  pyro_en'
    OBVIOUS
  <2>1. CASE Get
    <3>1. Head(event_queue) \in Range(event_queue)
      BY <2>1, RangeHeadTail DEF Get, TypeOK
    <3>2. Head(event_queue) # "EV_CALIBRATE"
      BY <3>1 DEF CalibratedOnce
    <3> QED
      BY <2>1, <3>2 DEF Get, Armed
  <2>2. ASSUME NEW pkt \in Packets, ParseRxMessage(pkt) PROVE pyro_en'
    <3>1. pkt.enable = TRUE
      BY <2>2, PacketAssumption DEF TelemetryDisarms, PacketAssumption
    <3> QED
      BY <2>2, <3>1 DEF ParseRxMessage
  <2>3. CASE UNCHANGED pyro_en
    BY <2>3
  <2>4. CASE \/ FsmStep \/ FsmEndPut \/ (\E t \in Timer : Expire(t))
             \/ DaemonCall \/ TelEndPut \/ Act \/ Finish
    BY <2>3, <2>4 DEF FsmStep, FsmEndPut, DaemonCall, TelEndPut,
       FsmSuppressed, FsmTrigger, FsmPut, FsmTimeOut, FsmReturn, Expire, Store,
       DaemonPut, DaemonTimeOut, DaemonReturn, TelPut, TelTimeOut, TelReturn,
       Act, Finish, pins
  <2> QED
    BY <2>1, <2>2, <2>4 DEF Next, PeripheralsStep, TelemetryDisarms
<1>3. IInv => TypeOK /\ FsmInStep
  BY DEF IInv
<1>4. TypeOK /\ FsmInStep /\ CalibratedOnce /\ [Next]_vars => CalibratedOnce'
  BY CalibratedOnceStep
<1> QED
  BY <1>1, <1>2, <1>3, <1>4, Invariance, PTL DEF Spec, StaysArmed
=============================================================================
