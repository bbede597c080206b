-------------------------- MODULE GsSessions_proofs --------------------------
(***************************************************************************)
(* For both receiver modes, every queue depth, every number of flights and *)
(* with a storage that fails at any moment:                                *)
(*   - a disarmed recorder always waits for somebody (NeverStuck);         *)
(*   - no flight is spread over two logs (FlightsStayTogether);            *)
(*   - no log is closed as complete on a flight (NoFlightIsCutOff).        *)
(*                                                                         *)
(* The packets of one rocket come in the order they were sent (WorldInv).  *)
(* So the first ready packet after the end of a session is behind every    *)
(* packet of the flight logged in it, and the recorder, which waits for    *)
(* one from each participant, has dropped those before it is armed again   *)
(* (SessionInv: Awaited, Over).                                            *)
(***************************************************************************)
EXTENDS GsSessions, TLAPS

(* Whoever writes a log takes part in it.                                   *)
LEMMA WriterTakesPart == \A s : Joined(s) # {}
BY DEF Joined

LEMMA NotOpenedKeeps ==
  ASSUME NotStuck, armed, NotOpened
  PROVE  NotStuck'
BY DEF NotStuck, NotOpened, Fault

LEMMA NotWrittenKeeps ==
  ASSUME NotStuck, armed, NEW s, NotWritten(s)
  PROVE  NotStuck'
<1>1. armed' = armed /\ participantMask' # {} /\ state' # "Idle"
  BY WriterTakesPart DEF NotWritten, Fault
<1> QED
  BY <1>1 DEF NotStuck

LEMMA NotSyncedKeeps ==
  ASSUME NotStuck, armed, NEW s, NotSynced(s)
  PROVE  NotStuck'
<1>1. armed' = armed /\ participantMask' # {} /\ state' # "Idle"
  BY WriterTakesPart DEF NotSynced, Fault
<1> QED
  BY <1>1 DEF NotStuck

LEMMA WrittenKeeps ==
  ASSUME NotStuck, armed, NEW s, Written(s)
  PROVE  NotStuck'
<1>1. armed' = armed /\ participantMask' # {}
  BY WriterTakesPart DEF Written
<1>2. state' # "Idle"
  BY DEF Written, StateAfter, NotStuck
<1> QED
  BY <1>1, <1>2 DEF NotStuck

(* The packet that ends a session leaves its participants to wait for.      *)
LEMMA WrittenLastKeeps ==
  ASSUME NotStuck, armed, NEW s, WrittenLast(s)
  PROVE  NotStuck'
<1>1. participantMask' = Joined(s) /\ Joined(s) # {}
  BY WriterTakesPart DEF WrittenLast
<1>2. CASE Finalized(Joined(s))
  BY <1>1, <1>2 DEF Finalized, NotStuck
<1>3. CASE NotFinalized(Landed(s))
  BY <1>1, <1>3 DEF NotFinalized, NotStuck
<1> QED
  BY <1>2, <1>3 DEF WrittenLast

LEMMA RearmKeeps ==
  ASSUME NotStuck, ~ armed, NEW s, Rearm(s)
  PROVE  NotStuck'
<1>1. file = "none" /\ file' = file /\ completedParticipantMask # {}
  BY DEF Rearm, NotStuck
<1>2. ~ armed' => completedParticipantMask' = completedParticipantMask
  BY DEF Rearm
<1> QED
  BY <1>1, <1>2 DEF NotStuck

LEMMA SampleKeeps ==
  ASSUME NotStuck, TakeSample
  PROVE  NotStuck'
<1> DEFINE s == Head(queue)
<1>1. CASE ~ armed /\ Rearm(s)
  BY <1>1, RearmKeeps
<1>2. CASE UNCHANGED session
  BY <1>2 DEF session, NotStuck
<1>3. CASE armed /\ NotOpened
  BY <1>3, NotOpenedKeeps
<1>4. CASE armed /\ NotWritten(s)
  BY <1>4, NotWrittenKeeps
<1>5. CASE armed /\ NotSynced(s)
  BY <1>5, NotSyncedKeeps
<1>6. CASE armed /\ Written(s)
  BY <1>6, WrittenKeeps
<1>7. CASE armed /\ WrittenLast(s)
  BY <1>7, WrittenLastKeeps
<1> QED
  BY <1>1, <1>2, <1>3, <1>4, <1>5, <1>6, <1>7 DEF TakeSample

LEMMA FinalizeKeeps ==
  ASSUME NotStuck, TakeFinalize
  PROVE  NotStuck'
<1>1. CASE UNCHANGED session
  BY <1>1 DEF session, NotStuck
<1>2. CASE /\ file = "open"
           /\ Finalized(participantMask)
           /\ UNCHANGED << participantMask, log, logged >>
  BY <1>2 DEF Finalized, NotStuck
<1>3. CASE /\ file # "none"
           /\ NotFinalized(touchdownMask)
           /\ UNCHANGED << participantMask, log, logged >>
  BY <1>3 DEF NotFinalized, NotStuck
<1> QED
  BY <1>1, <1>2, <1>3 DEF TakeFinalize

(* Whatever happens, a disarmed recorder has somebody to wait for.          *)
LEMMA NextStuck ==
  ASSUME NotStuck, [Next]_vars
  PROVE  NotStuck'
<1>1. CASE TakeSample
  BY <1>1, SampleKeeps
<1>2. CASE TakeFinalize
  BY <1>2, FinalizeKeeps
<1>3. CASE Overflow
  BY <1>3 DEF Overflow, NotStuck
<1>4. CASE UNCHANGED session
  BY <1>4 DEF session, NotStuck
<1>5. ASSUME NEW r \in Rockets, Liftoff(r) \/ Land(r) \/ Reboot(r)
      PROVE  UNCHANGED session
  BY <1>5 DEF Liftoff, Land, Reboot
<1>6. ASSUME NEW l \in Links, Packet(l)
      PROVE  UNCHANGED session
  BY <1>6 DEF Packet
<1>7. CASE Stop
  BY <1>4, <1>7 DEF Stop
<1>8. CASE Recovers
  BY <1>4, <1>8 DEF Recovers
<1>9. CASE UNCHANGED vars
  BY <1>4, <1>9 DEF vars, session
<1> QED
  BY <1>1, <1>2, <1>3, <1>4, <1>5, <1>6, <1>7, <1>8, <1>9 DEF Next

(***************************************************************************)
(* Whatever sessions, failures and stops there were, a disarmed recorder   *)
(* has participants to wait for and no log open, and an open log has a     *)
(* participant and is not called idle.                                     *)
(***************************************************************************)
THEOREM NeverStuck == Spec => []NotStuck
<1>1. Init => NotStuck
  BY DEF Init, NotStuck
<1>2. NotStuck /\ [Next]_vars => NotStuck'
  BY NextStuck
<1> QED
  BY <1>1, <1>2, PTL DEF Spec

-----------------------------------------------------------------------------
(* The reports of the rockets, and their order.                             *)

SampleCommand ==
  [type : {"sample"}, link : Links, state : Phases, flight : Nat]

Rank(p) == IF p = "flying" THEN 1 ELSE IF p = "touchdown" THEN 2 ELSE 3

(* A report is a flight and a phase; p is not from after q.                 *)
NotAfter(p, q) == p[1] < q[1] \/ (p[1] = q[1] /\ Rank(p[2]) <= Rank(q[2]))

Report(s) == << s.flight, s.state >>

Now(r) == << flight[r], phase[r] >>

Queued(r) ==
  {i \in 1 .. Len(queue) : queue[i].type = "sample" /\ RocketOf(queue[i].link) = r}

(* The reports of rocket r that the task has not taken: those in the queue, *)
(* and what the rocket reports from now on begins with the last of these.   *)
Coming(r) == {Report(queue[i]) : i \in Queued(r)} \cup {Now(r)}

(* The packets of a rocket are queued in the order they were sent.          *)
WorldInv ==
  /\ phase \in [Rockets -> Phases] /\ flight \in [Rockets -> 0 .. Flights]
  /\ \A r \in Rockets : phase[r] # "ready" => flight[r] # 0
  /\ queue \in Seq(SampleCommand \cup {FinalizeCommand})
  /\ \A r \in Rockets : \A i \in Queued(r) :
       /\ NotAfter(Report(queue[i]), Now(r))
       /\ \A j \in Queued(r) : i <= j => NotAfter(Report(queue[i]), Report(queue[j]))
       /\ queue[i].state # "ready" => queue[i].flight # 0
       /\ queue[i].flight <= Flights

-----------------------------------------------------------------------------
(* The sessions.                                                            *)

(* Entry e was made in a log that is closed.                                *)
Ended(e) == file = "none" \/ e[3] # log

(* Does a disarmed recorder still wait for rocket r to be ready?            *)
Awaited(r) ==
  ~ armed /\ \E l \in completedParticipantMask \ rearmMask : RocketOf(l) = r

(* What is to come of a flight in a closed log comes from the ground, when  *)
(* the recorder no longer waits for the rocket.                             *)
Over ==
  \A e \in logged : Ended(e) /\ ~ Awaited(e[1]) =>
    \A p \in Coming(e[1]) : p[1] = e[2] => p[2] = "ready"

(* The rockets with an entry in the open log are participants.              *)
Participate ==
  \A e \in logged : ~ Ended(e) => \E l \in participantMask : RocketOf(l) = e[1]

(* A link that landed has the flight of its touchdown in the open log, and  *)
(* is not in the air on that flight.                                        *)
LandedInLog ==
  /\ file = "none" => touchdownMask = {}
  /\ \A l \in touchdownMask : \E g \in 1 .. Flights :
       /\ << RocketOf(l), g, log >> \in logged
       /\ << g, "flying" >> \notin Coming(RocketOf(l))

LogTypes ==
  /\ log \in Nat /\ logged \subseteq Rockets \X Nat \X (0 .. log)
  /\ participantMask \subseteq Links /\ completedParticipantMask \subseteq Links
  /\ rearmMask \subseteq Links /\ touchdownMask \subseteq Links

SessionInv ==
  /\ LogTypes
  /\ NotStuck
  /\ OneLogPerFlight
  /\ Over /\ Participate /\ LandedInLog
  /\ \A e \in logged : \A p \in Coming(e[1]) : e[2] <= p[1]

-----------------------------------------------------------------------------
LEMMA QueuedIsSample ==
  ASSUME queue \in Seq(SampleCommand \cup {FinalizeCommand}), NEW r,
         NEW i \in Queued(r)
  PROVE  queue[i] \in SampleCommand /\ i \in 1 .. Len(queue)
<1>1. i \in 1 .. Len(queue) /\ queue[i].type = "sample"
  BY DEF Queued
<1>2. queue[i] \in SampleCommand \/ queue[i] = FinalizeCommand
  BY <1>1
<1>3. FinalizeCommand.type = "finalize"
  BY DEF FinalizeCommand
<1> QED
  BY <1>1, <1>2, <1>3

LEMMA RocketsOfLinks == \A l \in Links : RocketOf(l) \in Rockets
BY DEF Rockets

(* The task takes a command: nothing new is to come.                        *)
LEMMA TakeWorld ==
  ASSUME WorldInv, NEW kind, Take(kind)
  PROVE  WorldInv' /\ \A r : Coming(r)' \subseteq Coming(r)
<1>1. /\ queue # << >> /\ queue' = Tail(queue) /\ UNCHANGED << phase, flight >>
      /\ queue \in Seq(SampleCommand \cup {FinalizeCommand})
  BY DEF Take, world, WorldInv
<1>2. /\ queue' \in Seq(SampleCommand \cup {FinalizeCommand})
      /\ Len(queue) \in Nat \ {0} /\ Len(queue') = Len(queue) - 1
      /\ \A i \in 1 .. Len(queue') : queue'[i] = queue[i + 1]
  BY <1>1
<1>3. \A r : \A i \in Queued(r)' : i + 1 \in Queued(r) /\ queue'[i] = queue[i + 1]
                                   /\ i \in Nat
  BY <1>2 DEF Queued
<1>4. \A r : Now(r)' = Now(r)
  BY <1>1 DEF Now
<1>5. \A r : Coming(r)' \subseteq Coming(r)
  BY <1>3, <1>4 DEF Coming
<1>6. WorldInv'
  <2> SUFFICES ASSUME NEW r \in Rockets, NEW i \in Queued(r)'
               PROVE  /\ NotAfter(Report(queue'[i]), Now(r)')
                      /\ \A j \in Queued(r)' : i <= j =>
                           NotAfter(Report(queue'[i]), Report(queue'[j]))
                      /\ queue'[i].state # "ready" => queue'[i].flight # 0
                      /\ queue'[i].flight <= Flights
    BY <1>1, <1>2 DEF WorldInv, NotAfter, Report
  <2>1. i + 1 \in Queued(r) /\ queue'[i] = queue[i + 1] /\ i \in Nat
    BY <1>3
  <2>2. ASSUME NEW j \in Queued(r)', i <= j
        PROVE  NotAfter(Report(queue'[i]), Report(queue'[j]))
    <3>1. j + 1 \in Queued(r) /\ queue'[j] = queue[j + 1] /\ i + 1 <= j + 1
      BY <1>3, <2>1, <2>2
    <3> QED
      BY <2>1, <3>1 DEF WorldInv
  <2> QED
    BY <1>4, <2>1, <2>2 DEF WorldInv
<1> QED
  BY <1>5, <1>6

(* The sample taken is from before all that is still to come.               *)
LEMMA TakeReport ==
  ASSUME WorldInv, Take("sample"), NEW s, s = Head(queue)
  PROVE  /\ s \in SampleCommand /\ RocketOf(s.link) \in Rockets
         /\ Report(s) \in Coming(RocketOf(s.link))
         /\ \A p \in Coming(RocketOf(s.link))' : NotAfter(Report(s), p)
         /\ s.state # "ready" => s.flight \in 1 .. Flights
<1> DEFINE r == RocketOf(s.link)
<1>1. /\ queue # << >> /\ queue' = Tail(queue) /\ UNCHANGED << phase, flight >>
      /\ s = queue[1] /\ s.type = "sample" /\ 1 \in 1 .. Len(queue)
      /\ Len(queue) \in Nat \ {0} /\ Len(queue') = Len(queue) - 1
      /\ \A i \in 1 .. Len(queue') : queue'[i] = queue[i + 1]
  BY DEF Take, world, WorldInv
<1>2. 1 \in Queued(r) /\ s \in SampleCommand
  BY <1>1, QueuedIsSample DEF Queued, WorldInv
<1>3. r \in Rockets
  BY <1>2, RocketsOfLinks DEF SampleCommand
<1>4. \A i \in Queued(r)' : i + 1 \in Queued(r) /\ queue'[i] = queue[i + 1]
                            /\ 1 <= i + 1
  BY <1>1 DEF Queued
<1>5. Now(r)' = Now(r)
  BY <1>1 DEF Now
<1>6. NotAfter(Report(s), Now(r))
      /\ \A j \in Queued(r) : 1 <= j => NotAfter(Report(s), Report(queue[j]))
  BY <1>1, <1>2, <1>3 DEF WorldInv
<1>7. \A p \in Coming(r)' : NotAfter(Report(s), p)
  BY <1>4, <1>5, <1>6 DEF Coming
<1>8. s.state # "ready" => s.flight \in 1 .. Flights
  BY <1>1, <1>2, <1>3, SessionAssumption DEF WorldInv, SampleCommand, SessionAssumption
<1> QED
  BY <1>1, <1>2, <1>3, <1>7, <1>8 DEF Coming

(* A packet is queued as the rocket is now.                                 *)
LEMMA PutWorld ==
  ASSUME WorldInv, UNCHANGED << phase, flight >>, NEW x, queue' = Append(queue, x),
         x = FinalizeCommand \/ \E l \in Links : x = Sample(l)
  PROVE  WorldInv' /\ \A r \in Rockets : Coming(r)' = Coming(r)
<1>1. x \in SampleCommand \cup {FinalizeCommand}
  <2>1. ASSUME NEW l \in Links PROVE Sample(l) \in SampleCommand
    BY RocketsOfLinks, SessionAssumption
    DEF WorldInv, Sample, SampleCommand, SessionAssumption
  <2> QED
    BY <2>1
<1> PICK n \in Nat : n = Len(queue)
  BY DEF WorldInv
<1>2. /\ queue \in Seq(SampleCommand \cup {FinalizeCommand})
      /\ queue' \in Seq(SampleCommand \cup {FinalizeCommand})
      /\ Len(queue') = n + 1 /\ queue'[n + 1] = x
      /\ \A i \in 1 .. n : queue'[i] = queue[i]
  BY <1>1 DEF WorldInv
<1>3. \A r : Now(r)' = Now(r)
  BY DEF Now
<1>4. ASSUME x.type = "sample"
      PROVE  /\ Report(x) = Now(RocketOf(x.link)) /\ x \in SampleCommand
             /\ RocketOf(x.link) \in Rockets
             /\ x.state # "ready" => x.flight # 0
             /\ x.flight <= Flights
  <2>1. PICK l \in Links : x = Sample(l)
    BY <1>4 DEF FinalizeCommand
  <2>2. RocketOf(l) \in Rockets
    BY RocketsOfLinks
  <2>3. x.link = l /\ x.flight = flight[RocketOf(l)] /\ x.state = phase[RocketOf(l)]
    BY <2>1 DEF Sample
  <2>4. x \in SampleCommand
    BY <1>1, <1>4 DEF FinalizeCommand
  <2> QED
    BY <2>2, <2>3, <2>4, SessionAssumption
    DEF Report, Now, WorldInv, SessionAssumption
<1>5. \A r : \A i \in Queued(r)' :
        \/ i \in Queued(r) /\ i \in 1 .. n /\ queue'[i] = queue[i]
        \/ i = n + 1 /\ queue'[i] = x /\ Report(x) = Now(r) /\ r = RocketOf(x.link)
           /\ x.type = "sample"
  BY <1>2, <1>4 DEF Queued
<1>6. \A r : \A i \in Queued(r) : i \in Queued(r)' /\ queue'[i] = queue[i]
  BY <1>2 DEF Queued
<1>7. \A r : Coming(r)' = Coming(r)
  BY <1>3, <1>5, <1>6 DEF Coming
<1>8. WorldInv'
  <2> SUFFICES ASSUME NEW r \in Rockets, NEW i \in Queued(r)'
               PROVE  /\ NotAfter(Report(queue'[i]), Now(r)')
                      /\ \A j \in Queued(r)' : i <= j =>
                           NotAfter(Report(queue'[i]), Report(queue'[j]))
                      /\ queue'[i].state # "ready" => queue'[i].flight # 0
                      /\ queue'[i].flight <= Flights
    BY <1>2 DEF WorldInv, NotAfter, Report
  <2>1. NotAfter(Now(r), Now(r))
    BY SessionAssumption DEF NotAfter, Now, Rank, WorldInv, SessionAssumption
  <2>2. CASE i \in Queued(r) /\ i \in 1 .. n /\ queue'[i] = queue[i]
    <3>1. ASSUME NEW j \in Queued(r)', i <= j
          PROVE  NotAfter(Report(queue'[i]), Report(queue'[j]))
      <4>1. CASE j \in Queued(r) /\ queue'[j] = queue[j]
        BY <2>2, <3>1, <4>1 DEF WorldInv
      <4>2. CASE queue'[j] = x /\ Report(x) = Now(r)
        BY <2>2, <4>2 DEF WorldInv
      <4> QED
        BY <1>5, <4>1, <4>2
    <3> QED
      BY <1>3, <2>2, <3>1 DEF WorldInv
  <2>3. CASE i = n + 1 /\ queue'[i] = x /\ Report(x) = Now(r) /\ x.type = "sample"
    <3>1. ASSUME NEW j \in Queued(r)', i <= j
          PROVE  NotAfter(Report(queue'[i]), Report(queue'[j]))
      <4>1. j = n + 1
        BY <1>5, <2>3, <3>1
      <4> QED
        BY <2>1, <2>3, <4>1
    <3> QED
      BY <1>3, <1>4, <2>1, <2>3, <3>1
  <2> QED
    BY <1>5, <2>2, <2>3
<1> QED
  BY <1>7, <1>8

LEMMA ComingType ==
  ASSUME WorldInv, NEW r \in Rockets
  PROVE  Coming(r) \subseteq Nat \X Phases
<1>1. Now(r) \in Nat \X Phases
  BY SessionAssumption DEF WorldInv, Now, SessionAssumption
<1>2. \A i \in Queued(r) : Report(queue[i]) \in Nat \X Phases
  BY QueuedIsSample DEF WorldInv, SampleCommand, Report
<1> QED
  BY <1>1, <1>2 DEF Coming

LEMMA NotAfterIsTransitive ==
  ASSUME NEW p \in Nat \X Phases, NEW q \in Nat \X Phases, NEW t \in Nat \X Phases,
         NotAfter(p, q), NotAfter(q, t)
  PROVE  NotAfter(p, t)
BY DEF NotAfter, Rank, Phases

(* A rocket goes on: of what is to come only its next report is new.        *)
LEMMA RocketWorld ==
  ASSUME WorldInv, NEW r \in Rockets, Liftoff(r) \/ Land(r) \/ Reboot(r)
  PROVE  /\ WorldInv' /\ NotAfter(Now(r), Now(r)') /\ Now(r)' \in Nat \X Phases
         /\ \A q \in Rockets : Coming(q)' \subseteq Coming(q) \cup {Now(q)'}
         /\ \A q \in Rockets \ {r} : Coming(q)' = Coming(q)
<1>1. queue' = queue /\ \A q : Queued(q)' = Queued(q)
  BY DEF Liftoff, Land, Reboot, Queued
<1>2. /\ phase \in [Rockets -> Phases] /\ flight \in [Rockets -> 0 .. Flights]
      /\ Flights \in Nat
  BY SessionAssumption DEF WorldInv, SessionAssumption
<1>3. /\ phase' \in [Rockets -> Phases] /\ flight' \in [Rockets -> 0 .. Flights]
      /\ \A q \in Rockets : phase'[q] # "ready" => flight'[q] # 0
  <2>1. CASE Liftoff(r)
    BY <1>2, <2>1 DEF Liftoff, Phases, WorldInv
  <2>2. CASE Land(r)
    BY <1>2, <2>2 DEF Land, Phases, WorldInv
  <2>3. CASE Reboot(r)
    BY <1>2, <2>3 DEF Reboot, Phases, WorldInv
  <2> QED
    BY <2>1, <2>2, <2>3
<1>4. \A q \in Rockets \ {r} : Now(q)' = Now(q)
  BY <1>2 DEF Liftoff, Land, Reboot, Now
<1>5. NotAfter(Now(r), Now(r)')
  BY <1>2 DEF Liftoff, Land, Reboot, Now, NotAfter, Rank
<1>6. \A q \in Rockets : Now(q) \in Nat \X Phases /\ Now(q)' \in Nat \X Phases
  BY <1>2, <1>3 DEF Now
<1>7. ASSUME NEW q \in Rockets, NEW i \in Queued(q)
      PROVE  /\ NotAfter(Report(queue[i]), Now(q)')
             /\ Report(queue[i]) \in Nat \X Phases
  <2>1. NotAfter(Report(queue[i]), Now(q))
    BY <1>7 DEF WorldInv
  <2>2. queue[i] \in SampleCommand
    BY QueuedIsSample DEF WorldInv
  <2>3. Report(queue[i]) \in Nat \X Phases
    BY <2>2 DEF SampleCommand, Report
  <2>4. CASE q = r
    BY <1>5, <1>6, <2>1, <2>3, <2>4, NotAfterIsTransitive
  <2>5. CASE q # r
    BY <1>4, <2>1, <2>3, <2>5
  <2> QED
    BY <2>3, <2>4, <2>5
<1>8. WorldInv'
  <2> SUFFICES ASSUME NEW q \in Rockets, NEW i \in Queued(q)'
               PROVE  /\ NotAfter(Report(queue'[i]), Now(q)')
                      /\ \A j \in Queued(q)' : i <= j =>
                           NotAfter(Report(queue'[i]), Report(queue'[j]))
                      /\ queue'[i].state # "ready" => queue'[i].flight # 0
                      /\ queue'[i].flight <= Flights
    BY <1>1, <1>3 DEF WorldInv, NotAfter, Report
  <2>1. i \in Queued(q) /\ Queued(q)' = Queued(q) /\ queue'[i] = queue[i]
    BY <1>1
  <2> QED
    BY <1>1, <1>7, <2>1 DEF WorldInv
<1>9. \A q \in Rockets : Coming(q)' \subseteq Coming(q) \cup {Now(q)'}
  BY <1>1 DEF Coming
<1>10. \A q \in Rockets \ {r} : Coming(q)' = Coming(q)
  BY <1>1, <1>4 DEF Coming
<1> QED
  BY <1>5, <1>6, <1>8, <1>9, <1>10

LEMMA InitWorld == Init => WorldInv
BY SessionAssumption
DEF Init, WorldInv, Phases, Queued, SessionAssumption

LEMMA NextWorld ==
  ASSUME WorldInv, [Next]_vars
  PROVE  WorldInv'
<1>1. ASSUME UNCHANGED << phase, flight, queue >> PROVE WorldInv'
  BY <1>1 DEF WorldInv, Queued, NotAfter, Report, Now
<1>2. ASSUME NEW r \in Rockets, Liftoff(r) \/ Land(r) \/ Reboot(r) PROVE WorldInv'
  BY <1>2, RocketWorld
<1>3. ASSUME NEW l \in Links, Packet(l) PROVE WorldInv'
  BY <1>3, PutWorld DEF Packet, world
<1>4. CASE Stop
  BY <1>4, PutWorld DEF Stop
<1>5. CASE Overflow \/ Recovers \/ UNCHANGED vars
  BY <1>1, <1>5 DEF Overflow, Recovers, vars, world
<1>6. CASE TakeSample \/ TakeFinalize
  BY <1>6, TakeWorld DEF TakeSample, TakeFinalize
<1> QED
  BY <1>2, <1>3, <1>4, <1>5, <1>6 DEF Next

-----------------------------------------------------------------------------
(* A step that leaves the sessions alone, but for the state and for a file  *)
(* that is closed without success.                                          *)
LEMMA SessionStays ==
  ASSUME SessionInv, NotStuck', \A r \in Rockets : Coming(r)' \subseteq Coming(r),
         file' = "none" <=> file = "none",
         UNCHANGED << armed, touchdownMask, rearmMask, completedParticipantMask,
                      participantMask, log, logged >>
  PROVE  SessionInv'
<1>1. \A e \in logged : e[1] \in Rockets
  BY DEF SessionInv, LogTypes
<1>2. /\ \A e : Ended(e)' <=> Ended(e)
      /\ \A r : Awaited(r)' <=> Awaited(r)
  BY DEF Ended, Awaited
<1>3. Over'
  <2> SUFFICES ASSUME NEW e \in logged, Ended(e), ~ Awaited(e[1]),
                      NEW p \in Coming(e[1])', p[1] = e[2]
               PROVE  p[2] = "ready"
    BY <1>2 DEF Over
  <2> QED
    BY <1>1 DEF SessionInv, Over
<1>4. LandedInLog'
  <2>1. \A l \in touchdownMask : RocketOf(l) \in Rockets
    BY RocketsOfLinks DEF SessionInv, LogTypes
  <2> QED
    BY <2>1 DEF SessionInv, LandedInLog
<1>5. Participate' /\ LogTypes' /\ OneLogPerFlight'
  BY <1>2 DEF SessionInv, Participate, LogTypes, OneLogPerFlight
<1>6. \A e \in logged' : \A p \in Coming(e[1])' : e[2] <= p[1]
  BY <1>1 DEF SessionInv
<1> QED
  BY <1>3, <1>4, <1>5, <1>6 DEF SessionInv

(* A rocket lifts off, lands or is switched off and on.                     *)
LEMMA RocketSession ==
  ASSUME WorldInv, SessionInv, NEW r \in Rockets, Liftoff(r) \/ Land(r) \/ Reboot(r)
  PROVE  SessionInv'
<1>1. UNCHANGED session
  BY DEF Liftoff, Land, Reboot
<1>2. /\ UNCHANGED << file, armed, touchdownMask, rearmMask,
                      completedParticipantMask, participantMask, log, logged >>
      /\ NotStuck'
  BY <1>1 DEF session, SessionInv, NotStuck
<1>3. /\ NotAfter(Now(r), Now(r)') /\ Now(r)' \in Nat \X Phases
      /\ \A q \in Rockets : Coming(q)' \subseteq Coming(q) \cup {Now(q)'}
      /\ \A q \in Rockets \ {r} : Coming(q)' = Coming(q)
  BY RocketWorld
<1>4. Now(r) \in Coming(r) /\ Now(r) = << flight[r], phase[r] >> /\ flight[r] \in Nat
  BY SessionAssumption DEF Coming, Now, WorldInv, SessionAssumption
<1>5. /\ \A e : Ended(e)' <=> Ended(e)
      /\ \A q : Awaited(q)' <=> Awaited(q)
  BY <1>2 DEF Ended, Awaited
<1>6. \A e \in logged : /\ e[1] \in Rockets /\ e[2] \in Nat
                        /\ e[1] = r => e[2] <= flight[r]
  BY <1>4 DEF SessionInv, LogTypes
<1>7. \/ Now(r)' = << flight[r] + 1, "flying" >>
      \/ phase[r] = "flying" /\ Now(r)' = << flight[r], "touchdown" >>
      \/ Now(r)' = << flight[r], "ready" >>
  BY DEF Liftoff, Land, Reboot, Now, WorldInv
<1>8. Over'
  <2> SUFFICES ASSUME NEW e \in logged, Ended(e), ~ Awaited(e[1]),
                      NEW p \in Coming(e[1])', p[1] = e[2]
               PROVE  p[2] = "ready"
    BY <1>2, <1>5 DEF Over
  <2>1. \A o \in Coming(e[1]) : o[1] = e[2] => o[2] = "ready"
    BY DEF SessionInv, Over
  <2>2. CASE p \in Coming(e[1])
    BY <2>1, <2>2
  <2>3. CASE e[1] = r /\ p = Now(r)'
    BY <1>4, <1>6, <1>7, <2>1, <2>3
  <2> QED
    BY <1>3, <1>6, <2>2, <2>3
<1>9. LandedInLog'
  <2> SUFFICES ASSUME NEW l \in touchdownMask
               PROVE  \E g \in 1 .. Flights :
                        /\ << RocketOf(l), g, log >> \in logged
                        /\ << g, "flying" >> \notin Coming(RocketOf(l))'
    BY <1>2 DEF LandedInLog, SessionInv
  <2>1. PICK g \in 1 .. Flights :
               /\ << RocketOf(l), g, log >> \in logged
               /\ << g, "flying" >> \notin Coming(RocketOf(l))
    BY DEF LandedInLog, SessionInv
  <2>2. RocketOf(l) \in Rockets
    BY RocketsOfLinks DEF SessionInv, LogTypes
  <2>3. RocketOf(l) = r => g <= flight[r]
    BY <1>6, <2>1
  <2>4. RocketOf(l) = r => << g, "flying" >> # Now(r)'
    BY <1>4, <1>7, <2>3
  <2> QED
    BY <1>3, <2>1, <2>2, <2>4
<1>10. \A e \in logged' : \A p \in Coming(e[1])' : e[2] <= p[1]
  <2> SUFFICES ASSUME NEW e \in logged, NEW p \in Coming(e[1])' PROVE e[2] <= p[1]
    BY <1>2
  <2>1. CASE p \in Coming(e[1])
    BY <2>1 DEF SessionInv
  <2>2. CASE e[1] = r /\ p = Now(r)'
    BY <1>4, <1>6, <1>7, <2>2
  <2> QED
    BY <1>3, <1>6, <2>1, <2>2
<1>11. Participate' /\ LogTypes' /\ OneLogPerFlight'
  BY <1>2, <1>5 DEF SessionInv, Participate, LogTypes, OneLogPerFlight
<1> QED
  BY <1>2, <1>8, <1>9, <1>10, <1>11 DEF SessionInv

-----------------------------------------------------------------------------
(* A packet of a flying or landed rocket comes to an armed recorder, which  *)
(* opens a log if there is none and may write the packet.                   *)
Writes(s) ==
  /\ Take("sample") /\ s = Head(queue)
  /\ armed /\ s.state # "ready"
  /\ log' = IF file = "none" THEN log + 1 ELSE log
  /\ participantMask' = Joined(s)
  /\ logged' \in {logged, logged \cup {Entry(s)}}

(* If the flight is in a log already, then in this one.                     *)
LEMMA SameLog ==
  ASSUME WorldInv, SessionInv, NEW s, Writes(s)
  PROVE  /\ Entry(s) = << RocketOf(s.link), s.flight, log' >>
         /\ Entry(s) \in Rockets \X Nat \X (0 .. log') /\ s.link \in Links
         /\ s.flight \in 1 .. Flights
         /\ \A e \in logged : e[1] = RocketOf(s.link) /\ e[2] = s.flight =>
                                e[3] = log' /\ ~ Ended(e)
<1>1. /\ s \in SampleCommand /\ RocketOf(s.link) \in Rockets
      /\ Report(s) \in Coming(RocketOf(s.link)) /\ s.flight \in 1 .. Flights
  BY TakeReport DEF Writes
<1>2. \A e \in logged : e[1] = RocketOf(s.link) /\ e[2] = s.flight => ~ Ended(e)
  <2> SUFFICES ASSUME NEW e \in logged, e[1] = RocketOf(s.link), e[2] = s.flight,
                      Ended(e)
               PROVE  FALSE
    OBVIOUS
  <2>1. ~ Awaited(e[1])
    BY DEF Writes, Awaited
  <2>2. Report(s)[1] = e[2] => Report(s)[2] = "ready"
    BY <1>1, <2>1 DEF SessionInv, Over
  <2> QED
    BY <2>2 DEF Report, Writes
<1>3. Entry(s) \in Rockets \X Nat \X (0 .. log') /\ s.link \in Links
  BY <1>1 DEF Entry, SampleCommand, Writes, SessionInv, LogTypes
<1> QED
  BY <1>1, <1>2, <1>3 DEF Entry, Writes, Ended

(* What holds of the log after it, whether or not it stays open.            *)
LEMMA WritesLog ==
  ASSUME WorldInv, SessionInv, NEW s, Writes(s)
  PROVE  /\ log' \in Nat /\ logged' \subseteq Rockets \X Nat \X (0 .. log')
         /\ participantMask' \subseteq Links
         /\ OneLogPerFlight'
         /\ \A e \in logged' : \A p \in Coming(e[1])' : e[2] <= p[1]
         /\ \A e \in logged' : e[3] = log' =>
              \E l \in participantMask' : RocketOf(l) = e[1]
         /\ \A e \in logged' : e[3] # log' => e \in logged /\ Ended(e)
         /\ \A e \in logged : Ended(e) =>
              \A p \in Coming(e[1])' : p[1] = e[2] => p[2] = "ready"
<1> DEFINE r == RocketOf(s.link)
<1>1. /\ Entry(s) = << r, s.flight, log' >>
      /\ Entry(s) \in Rockets \X Nat \X (0 .. log') /\ s.link \in Links
      /\ \A e \in logged : e[1] = r /\ e[2] = s.flight => e[3] = log'
  BY SameLog
<1>2. /\ log \in Nat /\ log' \in Nat /\ log <= log'
      /\ file = "none" => log' = log + 1
      /\ file # "none" => log' = log
      /\ logged \subseteq Rockets \X Nat \X (0 .. log)
  BY DEF SessionInv, LogTypes, Writes
<1>3. /\ logged \subseteq Rockets \X Nat \X (0 .. log')
      /\ \A e \in logged : e[1] \in Rockets /\ e[2] \in Nat /\ e[3] \in 0 .. log
  BY <1>2
<1>4. \A e \in logged' : e \in logged \/ e = Entry(s)
  BY DEF Writes
<1>5. logged' \subseteq Rockets \X Nat \X (0 .. log')
  BY <1>1, <1>3, <1>4
<1>6. /\ participantMask' \subseteq Links
      /\ s.link \in participantMask'
      /\ file # "none" => participantMask \subseteq participantMask'
  BY <1>1 DEF Writes, Joined, SessionInv, LogTypes
<1>7. /\ \A q \in Rockets : Coming(q)' \subseteq Coming(q)
      /\ \A p \in Coming(r)' : NotAfter(Report(s), p)
  BY TakeWorld, TakeReport DEF Writes
<1>8. OneLogPerFlight'
  <2> SUFFICES ASSUME NEW e \in logged', NEW f \in logged', e[1] = f[1], e[2] = f[2]
               PROVE  e[3] = f[3]
    BY DEF OneLogPerFlight
  <2>1. CASE e \in logged /\ f \in logged
    BY <2>1 DEF SessionInv, OneLogPerFlight
  <2>2. CASE e = Entry(s) \/ f = Entry(s)
    BY <1>1, <1>4, <2>2
  <2> QED
    BY <1>4, <2>1, <2>2
<1>9. \A e \in logged' : \A p \in Coming(e[1])' : e[2] <= p[1]
  <2> SUFFICES ASSUME NEW e \in logged', NEW p \in Coming(e[1])' PROVE e[2] <= p[1]
    OBVIOUS
  <2>1. CASE e \in logged
    BY <1>3, <1>7, <2>1 DEF SessionInv
  <2>2. CASE e = Entry(s)
    <3>1. NotAfter(Report(s), p) /\ s.flight \in Nat
      <4>1. e[1] = r /\ s.flight \in Nat
        BY <1>1, <2>2
      <4> QED
        BY <1>7, <4>1
    <3>2. s.flight < p[1] \/ s.flight = p[1]
      BY <3>1 DEF NotAfter, Report
    <3>3. p[1] \in Nat
      <4>1. r \in Rockets /\ e[1] = r
        BY <1>1, <2>2
      <4>2. p \in Nat \X Phases
        BY <1>7, <4>1, ComingType
      <4> QED
        BY <4>2
    <3> QED
      BY <1>1, <2>2, <3>1, <3>2, <3>3
  <2> QED
    BY <1>4, <2>1, <2>2
<1>10. \A e \in logged' : e[3] = log' => \E l \in participantMask' : RocketOf(l) = e[1]
  <2> SUFFICES ASSUME NEW e \in logged', e[3] = log'
               PROVE  \E l \in participantMask' : RocketOf(l) = e[1]
    OBVIOUS
  <2>1. CASE e \in logged
    <3>1. file # "none" /\ ~ Ended(e)
      BY <1>2, <1>3, <2>1 DEF Ended
    <3> QED
      BY <1>6, <2>1, <3>1 DEF SessionInv, Participate
  <2>2. CASE e = Entry(s)
    BY <1>1, <1>6, <2>2
  <2> QED
    BY <1>4, <2>1, <2>2
<1>11. \A e \in logged' : e[3] # log' => e \in logged /\ Ended(e)
  BY <1>1, <1>2, <1>4 DEF Ended
<1>12. \A e \in logged : Ended(e) =>
         \A p \in Coming(e[1])' : p[1] = e[2] => p[2] = "ready"
  <2>1. \A q : ~ Awaited(q)
    BY DEF Writes, Awaited
  <2> QED
    BY <1>3, <1>7, <2>1 DEF SessionInv, Over
<1> QED
  BY <1>2, <1>5, <1>6, <1>8, <1>9, <1>10, <1>11, <1>12

(* The log stays open, or is closed without success.                        *)
LEMMA WritesKeeps ==
  ASSUME WorldInv, SessionInv, NEW s, Writes(s), NotStuck', file' # "none",
         UNCHANGED << armed, rearmMask, completedParticipantMask >>,
         \/ touchdownMask' = touchdownMask
         \/ touchdownMask' = Landed(s) /\ logged' = logged \cup {Entry(s)}
  PROVE  SessionInv'
<1>1. LogTypes'
  <2>1. touchdownMask' \subseteq Links
    BY SameLog DEF Landed, SessionInv, LogTypes
  <2> QED
    BY <2>1, WritesLog DEF SessionInv, LogTypes
<1>2. \A e : Ended(e)' <=> e[3] # log'
  BY DEF Ended
<1>3. Over'
  BY <1>2, WritesLog DEF Over
<1>4. Participate'
  BY <1>2, WritesLog DEF Participate
<1>5. LandedInLog'
  <2> SUFFICES ASSUME NEW l \in touchdownMask'
               PROVE  \E g \in 1 .. Flights :
                        /\ << RocketOf(l), g, log' >> \in logged'
                        /\ << g, "flying" >> \notin Coming(RocketOf(l))'
    BY DEF LandedInLog
  <2>1. CASE l \in touchdownMask
    <3>1. file # "none" /\ log' = log /\ logged \subseteq logged'
      BY <2>1 DEF SessionInv, LandedInLog, Writes
    <3>2. Coming(RocketOf(l))' \subseteq Coming(RocketOf(l))
      BY <2>1, TakeWorld DEF Writes
    <3> QED
      BY <2>1, <3>1, <3>2 DEF SessionInv, LandedInLog
  <2>2. CASE l \notin touchdownMask
    <3>1. l = s.link /\ s.state = "touchdown" /\ logged' = logged \cup {Entry(s)}
      BY <2>2 DEF Landed, Ends
    <3>2. \A p \in Coming(RocketOf(l))' : NotAfter(Report(s), p)
      BY <3>1, TakeReport DEF Writes
    <3>3. s.flight \in 1 .. Flights /\ << RocketOf(l), s.flight, log' >> \in logged'
      BY <3>1, SameLog
    <3>4. ~ NotAfter(Report(s), << s.flight, "flying" >>)
      BY <3>1, <3>3 DEF NotAfter, Report, Rank
    <3> QED
      BY <3>2, <3>3, <3>4
  <2> QED
    BY <2>1, <2>2
<1> QED
  BY <1>1, <1>3, <1>4, <1>5, WritesLog DEF SessionInv

(* A session ends: all participants of the log are waited for.              *)
LEMMA EndsKeeps ==
  ASSUME SessionInv, NotStuck', armed, ~ armed', file' = "none",
         rearmMask' = {}, touchdownMask' = {},
         completedParticipantMask' = participantMask', participantMask' \subseteq Links,
         log' \in Nat, logged' \subseteq Rockets \X Nat \X (0 .. log'),
         OneLogPerFlight',
         \A e \in logged' : \A p \in Coming(e[1])' : e[2] <= p[1],
         \A e \in logged' : \/ \E l \in participantMask' : RocketOf(l) = e[1]
                            \/ \A p \in Coming(e[1])' : p[1] = e[2] => p[2] = "ready"
  PROVE  SessionInv'
<1>1. \A e \in logged' : ~ Awaited(e[1])' =>
         \A p \in Coming(e[1])' : p[1] = e[2] => p[2] = "ready"
  BY DEF Awaited
<1>2. Over'
  BY <1>1 DEF Over
<1>3. Participate' /\ LandedInLog' /\ LogTypes'
  BY DEF Participate, LandedInLog, LogTypes, Ended
<1> QED
  BY <1>2, <1>3 DEF SessionInv

LEMMA LastKeeps ==
  ASSUME WorldInv, SessionInv, NEW s, Writes(s), NotStuck', Finalized(Joined(s))
  PROVE  SessionInv'
<1>1. \A e \in logged' : \/ \E l \in participantMask' : RocketOf(l) = e[1]
                         \/ \A p \in Coming(e[1])' : p[1] = e[2] => p[2] = "ready"
  BY WritesLog
<1> QED
  BY <1>1, WritesLog, EndsKeeps DEF Writes, Finalized

(* A packet for a disarmed recorder: one that is ready is on the ground, as *)
(* all is that comes after it from the same flight.                         *)
LEMMA RearmSession ==
  ASSUME WorldInv, SessionInv, NotStuck', NEW s, Take("sample"), s = Head(queue),
         ~ armed, Rearm(s)
  PROVE  SessionInv'
<1> DEFINE r == RocketOf(s.link)
<1>1. /\ file = "none" /\ file' = "none"
      /\ UNCHANGED << touchdownMask, log, logged >>
  BY DEF Rearm, SessionInv, NotStuck
<1>2. /\ s \in SampleCommand /\ r \in Rockets /\ Report(s) \in Coming(r)
      /\ \A p \in Coming(r)' : NotAfter(Report(s), p)
      /\ \A q \in Rockets : Coming(q)' \subseteq Coming(q)
  BY TakeReport, TakeWorld
<1>3. s.link \in Links
  BY <1>2 DEF SampleCommand
<1>4. LogTypes'
  BY <1>1, <1>3 DEF SessionInv, LogTypes, Rearm
<1>5. Participate' /\ LandedInLog' /\ OneLogPerFlight'
  BY <1>1 DEF Participate, LandedInLog, OneLogPerFlight, SessionInv, Ended
<1>6. \A e \in logged : e[1] \in Rockets /\ e[2] \in Nat
  BY DEF SessionInv, LogTypes
<1>7. \A e \in logged' : \A p \in Coming(e[1])' : e[2] <= p[1]
  BY <1>1, <1>2, <1>6 DEF SessionInv
<1>8. ASSUME NEW q \in Rockets, Awaited(q), ~ Awaited(q)'
      PROVE  q = r /\ s.state = "ready"
  <2>1. PICK l \in completedParticipantMask \ rearmMask : RocketOf(l) = q
    BY <1>8 DEF Awaited
  <2>2. CASE armed'
    <3>1. Ready(s) /\ CanRearm(rearmMask \cup {s.link})
      BY <2>2 DEF Rearm
    <3>2. CASE ~ Dual
      BY <1>8, <1>3, <3>1, <3>2 DEF Ready, RocketOf, Rockets
    <3>3. CASE Dual
      <4>1. l = s.link
        BY <2>1, <3>1, <3>3 DEF CanRearm
      <4> QED
        BY <2>1, <3>1, <4>1 DEF Ready
    <3> QED
      BY <3>2, <3>3
  <2>3. CASE ~ armed'
    <3>1. /\ completedParticipantMask' = completedParticipantMask
          /\ rearmMask' = IF Ready(s) THEN rearmMask \cup {s.link} ELSE rearmMask
      BY <2>3 DEF Rearm
    <3>2. l \in rearmMask'
      BY <1>8, <2>1, <2>3, <3>1 DEF Awaited
    <3>3. l = s.link /\ Ready(s)
      BY <2>1, <3>1, <3>2
    <3> QED
      BY <2>1, <3>3 DEF Ready
  <2> QED
    BY <2>2, <2>3
<1>9. Over'
  <2> SUFFICES ASSUME NEW e \in logged, ~ Awaited(e[1])',
                      NEW p \in Coming(e[1])', p[1] = e[2]
               PROVE  p[2] = "ready"
    BY <1>1 DEF Over
  <2>1. CASE ~ Awaited(e[1])
    BY <1>1, <1>2, <1>6, <2>1 DEF SessionInv, Over, Ended
  <2>2. CASE Awaited(e[1])
    <3>1. e[1] = r /\ s.state = "ready"
      BY <1>6, <1>8, <2>2
    <3>2. e[2] <= s.flight /\ s.flight \in Nat
      BY <1>2, <3>1 DEF SessionInv, Report, SampleCommand
    <3>3. NotAfter(Report(s), p) /\ p \in Nat \X Phases
      BY <1>2, <3>1, ComingType
    <3>4. Rank("ready") <= Rank(p[2])
      BY <1>6, <3>1, <3>2, <3>3 DEF NotAfter, Report
    <3> QED
      BY <3>3, <3>4 DEF Rank, Phases
  <2> QED
    BY <2>1, <2>2
<1> QED
  BY <1>4, <1>5, <1>7, <1>9 DEF SessionInv

LEMMA SampleSession ==
  ASSUME WorldInv, SessionInv, NotStuck', TakeSample
  PROVE  SessionInv'
<1> DEFINE s == Head(queue)
<1>1. Take("sample")
  BY DEF TakeSample
<1>2. \A r : Coming(r)' \subseteq Coming(r)
  BY <1>1, TakeWorld
<1>3. CASE ~ armed /\ Rearm(s)
  BY <1>1, <1>3, RearmSession
<1>4. CASE UNCHANGED session
  BY <1>2, <1>4, SessionStays DEF session
<1>5. CASE NotOpened
  BY <1>2, <1>5, SessionStays DEF NotOpened, Fault
<1>6. CASE armed /\ s.state # "ready" /\ (NotWritten(s) \/ NotSynced(s) \/ Written(s))
  <2>1. Writes(s)
    BY <1>1, <1>6 DEF Writes, NotWritten, NotSynced, Written, Opened
  <2>2. file' # "none" /\ UNCHANGED << armed, rearmMask, completedParticipantMask >>
    BY <1>6 DEF NotWritten, NotSynced, Written, Opened, Fault
  <2>3. \/ touchdownMask' = touchdownMask
        \/ touchdownMask' = Landed(s) /\ logged' = logged \cup {Entry(s)}
    BY <1>6 DEF NotWritten, NotSynced, Written, Fault
  <2> QED
    BY <2>1, <2>2, <2>3, WritesKeeps
<1>7. CASE armed /\ s.state # "ready" /\ WrittenLast(s)
  <2>1. Writes(s) /\ logged' = logged \cup {Entry(s)}
    BY <1>1, <1>7 DEF Writes, WrittenLast
  <2>2. CASE Finalized(Joined(s))
    BY <2>1, <2>2, LastKeeps
  <2>3. CASE NotFinalized(Landed(s))
    BY <2>1, <2>3, WritesKeeps DEF NotFinalized
  <2> QED
    BY <1>7, <2>2, <2>3 DEF WrittenLast
<1> QED
  BY <1>3, <1>4, <1>5, <1>6, <1>7 DEF TakeSample

LEMMA FinalizeSession ==
  ASSUME WorldInv, SessionInv, NotStuck', TakeFinalize
  PROVE  SessionInv'
<1>1. \A r : Coming(r)' \subseteq Coming(r)
  BY TakeWorld DEF TakeFinalize
<1>2. CASE UNCHANGED session
  BY <1>1, <1>2, SessionStays DEF session
<1>3. CASE /\ file # "none"
           /\ NotFinalized(touchdownMask)
           /\ UNCHANGED << participantMask, log, logged >>
  BY <1>1, <1>3, SessionStays DEF NotFinalized
<1>4. CASE /\ file = "open"
           /\ Finalized(participantMask)
           /\ UNCHANGED << participantMask, log, logged >>
  <2>1. armed
    BY <1>4 DEF SessionInv, NotStuck
  <2>2. \A e \in logged : e[1] \in Rockets
    BY DEF SessionInv, LogTypes
  <2>3. \A e \in logged : \/ \E l \in participantMask : RocketOf(l) = e[1]
                          \/ \A p \in Coming(e[1]) : p[1] = e[2] => p[2] = "ready"
    BY <2>1 DEF SessionInv, Participate, Over, Awaited
  <2>4. \A e \in logged' : \/ \E l \in participantMask' : RocketOf(l) = e[1]
                           \/ \A p \in Coming(e[1])' : p[1] = e[2] => p[2] = "ready"
    BY <1>1, <1>4, <2>3
  <2>5. \A e \in logged' : \A p \in Coming(e[1])' : e[2] <= p[1]
    BY <1>1, <1>4, <2>2 DEF SessionInv
  <2>6. OneLogPerFlight'
    BY <1>4 DEF OneLogPerFlight, SessionInv
  <2> QED
    BY <1>4, <2>1, <2>4, <2>5, <2>6, EndsKeeps DEF Finalized, SessionInv, LogTypes
<1> QED
  BY <1>2, <1>3, <1>4 DEF TakeFinalize

LEMMA InitSession == Init => SessionInv
BY DEF Init, SessionInv, LogTypes, NotStuck, OneLogPerFlight, Over, Participate,
       LandedInLog

LEMMA NextSession ==
  ASSUME WorldInv, SessionInv, [Next]_vars
  PROVE  SessionInv'
<1>1. NotStuck'
  BY NextStuck DEF SessionInv
<1>2. ASSUME UNCHANGED << file, armed, touchdownMask, rearmMask,
                          completedParticipantMask, participantMask, log, logged >>,
             \A r \in Rockets : Coming(r)' \subseteq Coming(r)
      PROVE  SessionInv'
  BY <1>1, <1>2, SessionStays
<1>3. ASSUME NEW r \in Rockets, Liftoff(r) \/ Land(r) \/ Reboot(r) PROVE SessionInv'
  BY <1>3, RocketSession
<1>4. ASSUME NEW l \in Links, Packet(l) PROVE SessionInv'
  BY <1>2, <1>4, PutWorld DEF Packet, world, session
<1>5. CASE Stop
  BY <1>2, <1>5, PutWorld DEF Stop, session
<1>6. CASE Overflow \/ Recovers \/ UNCHANGED vars
  <2>1. UNCHANGED << phase, flight, queue >>
    BY <1>6 DEF Overflow, Recovers, vars, world
  <2>2. \A r : Coming(r)' = Coming(r)
    BY <2>1 DEF Coming, Queued, Now
  <2> QED
    BY <1>2, <1>6, <2>2 DEF Overflow, Recovers, vars, session
<1>7. CASE TakeSample
  BY <1>1, <1>7, SampleSession
<1>8. CASE TakeFinalize
  BY <1>1, <1>8, FinalizeSession
<1> QED
  BY <1>3, <1>4, <1>5, <1>6, <1>7, <1>8 DEF Next

(***************************************************************************)
(* No flight is spread over two logs, in both receiver modes, for every    *)
(* queue depth, any number of flights and stops, and with a storage that   *)
(* fails at any moment: this is about armed, rearmMask and                 *)
(* completedParticipantMask in Recorder::recordTask.                       *)
(***************************************************************************)
THEOREM FlightsStayTogether == Spec => []OneLogPerFlight
<1>1. Init => WorldInv /\ SessionInv
  BY InitWorld, InitSession
<1>2. WorldInv /\ SessionInv /\ [Next]_vars => (WorldInv /\ SessionInv)'
  BY NextWorld, NextSession
<1>3. SessionInv => OneLogPerFlight
  BY DEF SessionInv
<1> QED
  BY <1>1, <1>2, <1>3, PTL DEF Spec

(* The packet that ends a session comes when every participant has landed   *)
(* from a flight in the log.                                                *)
LEMMA LastCutsNone ==
  ASSUME WorldInv, SessionInv, TakeSample, armed, ~ armed',
         NEW l \in participantMask', phase[RocketOf(l)] = "flying"
  PROVE  FlightsInLog(l)' # {flight[RocketOf(l)]}
<1> DEFINE s == Head(queue)
<1>1. WrittenLast(s) /\ Finalized(Joined(s)) /\ s.state # "ready" /\ Take("sample")
  BY DEF TakeSample, WrittenLast, NotFinalized, NotOpened, NotWritten, NotSynced,
         Written, Fault, session
<1>2. Writes(s) /\ logged' = logged \cup {Entry(s)} /\ Complete(s) /\ l \in Joined(s)
  BY <1>1 DEF Writes, WrittenLast
<1>3. RocketOf(l) \in Rockets
  BY <1>2, WritesLog, RocketsOfLinks
<1>4. Now(RocketOf(l)) = << flight[RocketOf(l)], "flying" >>
  BY DEF Now
<1>5. ASSUME NEW g \in 1 .. Flights, << RocketOf(l), g, log' >> \in logged',
             << g, "flying" >> # Now(RocketOf(l))
      PROVE  FlightsInLog(l)' # {flight[RocketOf(l)]}
  BY <1>4, <1>5 DEF FlightsInLog
<1>6. CASE RocketOf(l) = RocketOf(s.link)
  <2>1. /\ s.flight \in 1 .. Flights /\ << RocketOf(l), s.flight, log' >> \in logged'
        /\ s.state = "touchdown"
    BY <1>2, <1>6, SameLog DEF Complete, Ends
  <2>2. NotAfter(Report(s), Now(RocketOf(l)))
    <3>1. Now(RocketOf(l))' = Now(RocketOf(l))
      BY <1>1 DEF Take, world, Now
    <3> QED
      BY <1>1, <1>6, <3>1, TakeReport DEF Coming
  <2>3. ~ NotAfter(Report(s), << s.flight, "flying" >>)
    BY <2>1 DEF NotAfter, Report, Rank
  <2> QED
    BY <1>5, <2>1, <2>2, <2>3
<1>7. CASE RocketOf(l) # RocketOf(s.link)
  <2>1. Dual /\ l # s.link
    BY <1>7 DEF RocketOf
  <2>2. l \in touchdownMask
    BY <1>2, <2>1 DEF Complete, Landed
  <2>3. log' = log
    BY <1>2, <2>2 DEF Writes, SessionInv, LandedInLog
  <2>4. PICK g \in 1 .. Flights : /\ << RocketOf(l), g, log >> \in logged
                                  /\ << g, "flying" >> \notin Coming(RocketOf(l))
    BY <2>2 DEF SessionInv, LandedInLog
  <2> QED
    BY <1>2, <1>5, <2>3, <2>4 DEF Coming
<1> QED
  BY <1>6, <1>7

(***************************************************************************)
(* No log is closed as complete on a rocket in the air on its only flight  *)
(* in that log.                                                            *)
(***************************************************************************)
THEOREM NoFlightIsCutOff == Spec => NoneCutOff
<1>1. Init => WorldInv /\ SessionInv
  BY InitWorld, InitSession
<1>2. WorldInv /\ SessionInv /\ [Next]_vars => (WorldInv /\ SessionInv)'
  BY NextWorld, NextSession
<1>3. WorldInv /\ SessionInv /\ [Next]_vars =>
        [ file' = "none" /\ TakeSample /\ armed /\ ~ armed' =>
            \A l \in participantMask' :
               phase[RocketOf(l)] = "flying"
                  => FlightsInLog(l)' # {flight[RocketOf(l)]} ]_vars
  BY LastCutsNone
<1> QED
  BY <1>1, <1>2, <1>3, PTL DEF Spec, NoneCutOff
=============================================================================
