-------------------------- MODULE HallReplay_proofs --------------------------
(***************************************************************************)
(* Theorems about HallReplay for every set of peers, every number of seats *)
(* and every choice of the hall's rules: types, capacity, deadlines and    *)
(* cooldowns, whose turn it is for a seat, and how soon a speaker may      *)
(* speak again.                                                            *)
(***************************************************************************)
EXTENDS HallReplay, HallDerive_proofs, FiniteSetTheorems, TLAPS

-----------------------------------------------------------------------------
(* A queue member's deadline is a time. *)
LEMMA QueueExpiryType ==
    ASSUME NEW p \in Participant
    PROVE  QueueExpiry(p) \in Nat
BY RulesAssumption DEF QueueExpiry, Participant

(* The seat of an occupied index is a seat record. *)
LEMMA OccupiedSeat ==
    ASSUME TypeOK, NEW i \in Occupied
    PROVE  i \in SeatIds /\ seats[i] \in Seat
BY DEF TypeOK, Occupied

(* What every call of removeParticipant keeps well-typed. *)
LEMMA RemoveParticipantType ==
    ASSUME TypeOK, NEW peer \in Peers, NEW at \in Nat, NEW cooldown \in BOOLEAN,
           NEW next \in {"next", "advance"},
           RemoveParticipant(peer, at, cooldown, next)
    PROVE  TypeOK'
<1>1. seats' \in [SeatIds -> Seat \cup {None}]
  BY DEF TypeOK, RemoveParticipant
<1>2. queue' \in SUBSET Participant
  BY DEF TypeOK, RemoveParticipant, Fresh
<1>3. cooldownUntil' \in [Peers -> Nat]
  BY RulesAssumption DEF TypeOK, RemoveParticipant
<1>4. QED BY <1>1, <1>2, <1>3 DEF TypeOK, RemoveParticipant

(* Messages stay a sequence of messages when one is appended and the oldest  *)
(* ones are shifted out.                                                     *)
LEMMA RetainType ==
    ASSUME NEW seq \in Seq(Message)
    PROVE  Retain(seq) \in Seq(Message)
BY RulesAssumption DEF Retain

LEMMA EventFields ==
    ASSUME NEW e \in Events
    PROVE  /\ e.origin \in Peers /\ e.issuedAt \in Nat /\ e.joinedAt \in Nat
           /\ e # NoEvent
<1>1. /\ e.origin \in Peers /\ e.issuedAt \in EventTimes /\ e.joinedAt \in EventTimes
      /\ e.kind # "none"
  BY DEF Events
<1>2. e # NoEvent
  BY <1>1 DEF NoEvent
<1>3. QED BY <1>1, <1>2, TimesAssumption

LEMMA TypeStep ==
    ASSUME TypeOK, [Next]_vars
    PROVE  TypeOK'
<1>1. ASSUME NEW e \in Events, NextEvent(e) PROVE TypeOK'
  BY <1>1, EventFields DEF NextEvent, TypeOK, hall
<1>2. ASSUME NEW now \in EventTimes, Finish(now) PROVE TypeOK'
  BY <1>2, TimesAssumption DEF Finish, TypeOK, hall
<1>3. ASSUME NEW i \in SeatIds, ExpireSeat(i) PROVE TypeOK'
  <2>1. seats[i] \in Seat
    BY <1>3, OccupiedSeat DEF ExpireSeat
  <2>2. seats[i].participant.peerId \in Peers
    BY <2>1 DEF Seat, Participant
  <2>3. SeatExpiry(seats[i]) \in Nat
    BY <2>1, SeatExpiryLeast
  <2>4. QED BY <1>3, <2>2, <2>3, RemoveParticipantType DEF ExpireSeat
<1>4. ASSUME NEW p \in queue, ExpireQueued(p) PROVE TypeOK'
  <2>1. p \in Participant
    BY DEF TypeOK
  <2>2. p.peerId \in Peers /\ QueueExpiry(p) \in Nat
    BY <2>1, QueueExpiryType DEF Participant
  <2>3. QED BY <1>4, <2>2, RemoveParticipantType DEF ExpireQueued
<1>5. CASE AdvanceReturns
  BY <1>5 DEF AdvanceReturns, TypeOK, hall
<1>6. CASE FillSeat
  <2>1. PICK i \in Free, head \in queue :
          /\ seats' = [seats EXCEPT ![i] =
                [participant |-> head, seatedAt |-> fillAt, lastSpokeAt |-> None]]
          /\ queue' = queue \ {head}
    BY <1>6 DEF FillSeat
  <2>2. [participant |-> head, seatedAt |-> fillAt, lastSpokeAt |-> None] \in Seat
    BY DEF TypeOK, Seat
  <2>3. seats' \in [SeatIds -> Seat \cup {None}] /\ queue' \in SUBSET Participant
    BY <2>1, <2>2 DEF TypeOK, Free
  <2>4. QED BY <1>6, <2>3 DEF FillSeat, TypeOK, control
<1>7. CASE FillReturns
  BY <1>7 DEF FillReturns, TypeOK, hall
<1>8. event # NoEvent => event \in Events
  BY DEF TypeOK
<1>9. phase = "apply" /\ event \in Events => event.issuedAt \in Nat /\ event.origin \in Peers
  BY EventFields
<1>10. CASE ApplyLeave
  <2>1. event \in Events
    BY <1>8, <1>10 DEF ApplyLeave, Applying, NoEvent
  <2>2. QED BY <1>10, <2>1, EventFields, RemoveParticipantType DEF ApplyLeave
<1>11. CASE ApplyRefresh
  <2>1. event \in Events
    BY <1>8, <1>11 DEF ApplyRefresh, Applying, NoEvent
  <2>2. event.issuedAt \in Nat
    BY <2>1, EventFields
  <2>3. \A p \in Participant : [p EXCEPT !.lastPresenceAt = event.issuedAt] \in Participant
    BY <2>2 DEF Participant
  <2>4. \A s \in Seat : [s EXCEPT !.participant.lastPresenceAt = event.issuedAt] \in Seat
    BY <2>2, <2>3 DEF Seat, Participant
  <2>5. queue' \in SUBSET Participant
    BY <1>11, <2>3 DEF ApplyRefresh, QueuedAs, TypeOK
  <2>6. seats' \in [SeatIds -> Seat \cup {None}]
    BY <1>11, <2>4 DEF ApplyRefresh, SeatsOf, Occupied, TypeOK
  <2>7. QED BY <1>11, <2>5, <2>6 DEF ApplyRefresh, TypeOK
<1>12. CASE ApplyJoin
  <2>1. event \in Events
    BY <1>8, <1>12 DEF ApplyJoin, Applying, NoEvent
  <2>2. queue' \in SUBSET Participant
    BY <1>12, <2>1, EventFields DEF ApplyJoin, Fresh, TypeOK, Participant
  <2>3. QED BY <1>12, <2>1, <2>2, EventFields DEF ApplyJoin, TypeOK
<1>13. CASE ApplyChat
  <2>1. event \in Events
    BY <1>8, <1>13 DEF ApplyChat, Applying, NoEvent
  <2>2. event.issuedAt \in Nat /\ event.origin \in Peers
    BY <2>1, EventFields
  <2>3. \A s \in Seat : [s EXCEPT !.lastSpokeAt = event.issuedAt] \in Seat
    BY <2>2 DEF Seat
  <2>4. seats' \in [SeatIds -> Seat \cup {None}]
    BY <1>13, <2>3 DEF ApplyChat, MaySpeak, SeatsOf, Occupied, TypeOK
  <2>5. Append(messages, [origin |-> event.origin, sentAt |-> event.issuedAt]) \in Seq(Message)
    BY <2>2 DEF TypeOK, Message
  <2>6. messages' \in Seq(Message)
    BY <1>13, <2>5, RetainType DEF ApplyChat
  <2>7. QED BY <1>13, <2>4, <2>6 DEF ApplyChat, TypeOK
<1>14. CASE ApplySkips
  BY <1>14 DEF ApplySkips, TypeOK, hall
<1>15. CASE Returned \/ UNCHANGED vars
  BY <1>15 DEF Returned, vars, hall, control, TypeOK
<1>16. QED
  BY <1>1, <1>2, <1>3, <1>4, <1>5, <1>6, <1>7, <1>10, <1>11, <1>12, <1>13, <1>14, <1>15
  DEF Next, Loop

(* Type correctness: derive() never builds an ill-formed hall. *)
THEOREM TypeCorrect == Spec => []TypeOK
<1>1. Init => TypeOK
  BY RulesAssumption DEF Init, TypeOK, NoEvent
<1>2. TypeOK /\ [Next]_vars => TypeOK'
  BY TypeStep
<1>3. QED BY <1>1, <1>2, PTL DEF Spec

-----------------------------------------------------------------------------
(* The inductive invariant.  `Frozen` names the part of a run in which the   *)
(* clock is the time of the event under way, all of it but the last advance. *)
Frozen == event # NoEvent \/ phase = "next"

Clock ==
    /\ event # NoEvent => target = event.issuedAt
    /\ phase = "next" /\ event = NoEvent => target = 0
    /\ phase = "apply" => event # NoEvent
    /\ phase = "fill" => fillAt <= target
    /\ phase = "fill" /\ resume = "next" => fillAt = target /\ event # NoEvent

(* Seats are taken in the past, from a queue that fillSeats has filtered.    *)
PastSeats == Frozen => \A i \in Occupied : seats[i].seatedAt <= target
Filtered == phase = "fill" => \A p \in queue : QueueExpiry(p) > fillAt

(* From the end of advance to the next event nothing is due.                 *)
Quiet ==
    phase \in {"next", "apply"} \/ (phase = "fill" /\ resume = "next") => NothingDue

Cooldowns == Frozen => \A p \in Peers : cooldownUntil[p] > target => ~Participates(p)

Bounded == IsFiniteSet(queue) /\ CapacityRespected

IInv ==
    /\ TypeOK /\ OneSpot /\ WorkConserving /\ SeatedAlive
    /\ Clock /\ PastSeats /\ Filtered /\ Quiet /\ Cooldowns

-----------------------------------------------------------------------------
(* What one removal, one seating and one refresh do to seats and queue.      *)
LEMMA RemoveEffect ==
    ASSUME TypeOK, NEW peer \in Peers, NEW at, NEW cooldown, NEW next,
           RemoveParticipant(peer, at, cooldown, next)
    PROVE  /\ Occupied' = Occupied \ SeatsOf(peer)
           /\ \A i \in Occupied' : seats'[i] = seats[i]
           /\ queue' \subseteq queue
           /\ \A p \in queue' : p.peerId # peer /\ QueueExpiry(p) > at
           /\ ~Participates(peer)'
<1>1. Occupied' = Occupied \ SeatsOf(peer) /\ \A i \in Occupied' : seats'[i] = seats[i]
  BY DEF RemoveParticipant, Occupied, SeatsOf
<1>2. queue' \subseteq queue /\ \A p \in queue' : p.peerId # peer /\ QueueExpiry(p) > at
  BY DEF RemoveParticipant, Fresh, QueuedAs
<1>3. SeatsOf(peer)' = {}
  BY <1>1 DEF SeatsOf
<1>4. QED BY <1>1, <1>2, <1>3 DEF Participates, QueuedAs

LEMMA FillEffect ==
    ASSUME TypeOK, FillSeat
    PROVE  \E i \in SeatIds \ Occupied, head \in queue :
             /\ Occupied' = Occupied \cup {i}
             /\ seats'[i] = [participant |-> head, seatedAt |-> fillAt, lastSpokeAt |-> None]
             /\ \A j \in Occupied : seats'[j] = seats[j]
             /\ queue' = queue \ {head}
<1>1. PICK i \in Free, head \in queue :
        /\ seats' = [seats EXCEPT ![i] =
              [participant |-> head, seatedAt |-> fillAt, lastSpokeAt |-> None]]
        /\ queue' = queue \ {head}
  BY DEF FillSeat
<1>2. [participant |-> head, seatedAt |-> fillAt, lastSpokeAt |-> None] \in Seat
  BY DEF TypeOK, Seat
<1>3. [participant |-> head, seatedAt |-> fillAt, lastSpokeAt |-> None] # None
  BY <1>2, RulesAssumption
<1>4. Occupied' = Occupied \cup {i}
  BY <1>1, <1>3 DEF Occupied, Free, TypeOK
<1>5. \A j \in Occupied : seats'[j] = seats[j]
  BY <1>1 DEF Free, Occupied, TypeOK
<1>6. seats'[i] = [participant |-> head, seatedAt |-> fillAt, lastSpokeAt |-> None]
  BY <1>1 DEF Free, TypeOK
<1>7. QED BY <1>1, <1>4, <1>5, <1>6 DEF Free

LEMMA RefreshEffect ==
    ASSUME TypeOK, ApplyRefresh
    PROVE  /\ event \in Events /\ event.issuedAt \in Nat
           /\ Occupied' = Occupied
           /\ \A i \in Occupied :
                \/ seats'[i] = seats[i]
                \/ seats'[i] = [seats[i] EXCEPT !.participant.lastPresenceAt = event.issuedAt]
           /\ \A q \in queue' : \E p \in queue :
                \/ q = p /\ (p.peerId # event.origin \/ queue' = queue)
                \/ q = [p EXCEPT !.lastPresenceAt = event.issuedAt] /\ p.peerId = event.origin
           /\ queue' # {} => queue # {}
<1>1. event \in Events /\ event.issuedAt \in Nat
  BY EventFields DEF TypeOK, ApplyRefresh, Applying, NoEvent
<1>2. CASE SeatsOf(event.origin) # {}
  <2>1. /\ seats' = [i \in SeatIds |->
                 IF i \in SeatsOf(event.origin)
                 THEN [seats[i] EXCEPT !.participant.lastPresenceAt = event.issuedAt]
                 ELSE seats[i]]
        /\ queue' = queue
    BY <1>2 DEF ApplyRefresh
  <2>2. \A i \in SeatIds : seats[i] \in Seat =>
           [seats[i] EXCEPT !.participant.lastPresenceAt = event.issuedAt] \in Seat
    BY <1>1 DEF Seat, Participant
  <2>3. Occupied' = Occupied
    BY <2>1, <2>2, RulesAssumption DEF Occupied, SeatsOf, TypeOK
  <2>4. \A i \in Occupied :
                \/ seats'[i] = seats[i]
                \/ seats'[i] = [seats[i] EXCEPT !.participant.lastPresenceAt = event.issuedAt]
    BY <2>1 DEF Occupied
  <2>5. QED BY <1>1, <2>1, <2>3, <2>4
<1>3. CASE SeatsOf(event.origin) = {}
  <2>1. /\ queue' = (queue \ QueuedAs(event.origin))
              \cup { [p EXCEPT !.lastPresenceAt = event.issuedAt] : p \in QueuedAs(event.origin) }
        /\ seats' = seats
    BY <1>3 DEF ApplyRefresh
  <2>2. QED BY <1>1, <2>1 DEF Occupied, QueuedAs
<1>4. QED BY <1>2, <1>3

LEMMA JoinEffect ==
    ASSUME TypeOK, ApplyJoin
    PROVE  /\ event \in Events /\ event.issuedAt \in Nat /\ event.origin \in Peers
           /\ Occupied' = Occupied /\ seats' = seats
           /\ ~Participates(event.origin)
           /\ cooldownUntil[event.origin] <= event.issuedAt
           /\ \A q \in queue' :
                /\ QueueExpiry(q) > event.issuedAt
                /\ \/ q \in queue
                   \/ q = [peerId |-> event.origin, joinedAt |-> event.joinedAt,
                           lastPresenceAt |-> event.issuedAt]
<1>1. event \in Events
  BY DEF TypeOK, ApplyJoin, Applying, NoEvent
<1>2. cooldownUntil[event.origin] \in Nat
  BY <1>1, EventFields DEF TypeOK
<1>3. cooldownUntil[event.origin] <= event.issuedAt
  BY <1>1, <1>2, EventFields DEF ApplyJoin, Cooling
<1>4. QED BY <1>1, <1>3, EventFields DEF ApplyJoin, Occupied, Fresh

LEMMA ChatEffect ==
    ASSUME TypeOK, ApplyChat
    PROVE  /\ event \in Events /\ event.issuedAt \in Nat
           /\ Occupied' = Occupied /\ queue' = queue
           /\ \A i \in Occupied :
                /\ seats'[i] \in Seat
                /\ seats'[i].participant = seats[i].participant
                /\ seats'[i].seatedAt = seats[i].seatedAt
                /\ seats'[i].lastSpokeAt \in {seats[i].lastSpokeAt, event.issuedAt}
<1>1. PICK k \in SeatIds : MaySpeak(k) /\ seats' = [seats EXCEPT ![k].lastSpokeAt = event.issuedAt]
  BY DEF ApplyChat
<1>2. k \in Occupied /\ seats[k] \in Seat
  BY <1>1, OccupiedSeat DEF MaySpeak, SeatsOf
<1>3. event \in Events
  BY DEF TypeOK, ApplyChat, Applying, NoEvent
<1>4. [seats[k] EXCEPT !.lastSpokeAt = event.issuedAt] \in Seat
  BY <1>2, <1>3, EventFields DEF Seat
<1>5. Occupied' = Occupied
  BY <1>1, <1>2, <1>4, RulesAssumption DEF Occupied, TypeOK
<1>6. ASSUME NEW i \in Occupied
      PROVE  /\ seats'[i] \in Seat
             /\ seats'[i].participant = seats[i].participant
             /\ seats'[i].seatedAt = seats[i].seatedAt
             /\ seats'[i].lastSpokeAt \in {seats[i].lastSpokeAt, event.issuedAt}
  <2>1. CASE i = k
    BY <1>1, <1>2, <1>4, <2>1 DEF TypeOK, Occupied, Seat
  <2>2. CASE i # k
    BY <1>1, <2>2, OccupiedSeat DEF TypeOK, Occupied
  <2>3. QED BY <2>1, <2>2
<1>7. QED BY <1>3, <1>5, <1>6, EventFields DEF ApplyChat

-----------------------------------------------------------------------------
(* One spot per peer.                                                        *)
LEMMA OneSpotInductive ==
    ASSUME TypeOK, OneSpot, [Next]_vars
    PROVE  OneSpot'
<1>1. ASSUME NEW peer \in Peers, NEW at, NEW cooldown, NEW next,
             RemoveParticipant(peer, at, cooldown, next)
      PROVE  OneSpot'
  BY <1>1, RemoveEffect DEF OneSpot
<1>2. ASSUME NEW i \in SeatIds, ExpireSeat(i) PROVE OneSpot'
  BY <1>1, <1>2, OccupiedSeat DEF ExpireSeat, Seat, Participant
<1>3. ASSUME NEW p \in queue, ExpireQueued(p) PROVE OneSpot'
  BY <1>1, <1>3 DEF ExpireQueued, TypeOK, Participant
<1>4. CASE ApplyLeave
  <2>1. event \in Events
    BY <1>4 DEF ApplyLeave, Applying, TypeOK, NoEvent
  <2>2. QED BY <1>1, <1>4, <2>1, EventFields DEF ApplyLeave
<1>5. CASE FillSeat
  <2>1. PICK i \in SeatIds \ Occupied, head \in queue :
             /\ Occupied' = Occupied \cup {i}
             /\ seats'[i] = [participant |-> head, seatedAt |-> fillAt, lastSpokeAt |-> None]
             /\ \A j \in Occupied : seats'[j] = seats[j]
             /\ queue' = queue \ {head}
    BY <1>5, FillEffect
  <2>2. seats'[i].participant = head
    BY <2>1
  <2>3. QED BY <2>1, <2>2 DEF OneSpot
<1>6. CASE ApplyRefresh
  <2>1. \A i \in Occupied : seats'[i].participant.peerId = seats[i].participant.peerId
    <3>1. SUFFICES ASSUME NEW i \in Occupied
                   PROVE  seats'[i].participant.peerId = seats[i].participant.peerId
      OBVIOUS
    <3>2. /\ seats'[i] = seats[i]
             \/ seats'[i] = [seats[i] EXCEPT !.participant.lastPresenceAt = event.issuedAt]
          /\ event.issuedAt \in Nat
      BY <1>6, RefreshEffect
    <3>3. QED BY <3>2, OccupiedSeat, RefreshedSeat
  <2>2. \A i, j \in Occupied' :
          seats'[i].participant.peerId = seats'[j].participant.peerId => i = j
    BY <1>6, <2>1, RefreshEffect DEF OneSpot
  <2>3. \A q \in queue' : \E p \in queue : q.peerId = p.peerId
    <3>1. \A p \in queue : [p EXCEPT !.lastPresenceAt = event.issuedAt].peerId = p.peerId
      BY DEF TypeOK, Participant
    <3>2. SUFFICES ASSUME NEW q \in queue' PROVE \E p \in queue : q.peerId = p.peerId
      OBVIOUS
    <3>3. PICK p \in queue : q = p \/ q = [p EXCEPT !.lastPresenceAt = event.issuedAt]
      BY <1>6, RefreshEffect
    <3>4. q.peerId = p.peerId
      BY <3>1, <3>3
    <3>5. QED BY <3>4
  <2>4. \A i \in Occupied', q \in queue' : seats'[i].participant.peerId # q.peerId
    BY <1>6, <2>1, <2>3, RefreshEffect DEF OneSpot
  <2>5. \A q, r \in queue' : q.peerId = r.peerId => q = r
    <3>1. \A p \in queue : [p EXCEPT !.lastPresenceAt = event.issuedAt].peerId = p.peerId
      BY DEF TypeOK, Participant
    <3>2. SUFFICES ASSUME NEW q \in queue', NEW r \in queue', q.peerId = r.peerId,
                          queue' # queue
                   PROVE  q = r
      BY DEF OneSpot
    <3>3. PICK u \in queue :
                \/ q = u /\ u.peerId # event.origin
                \/ q = [u EXCEPT !.lastPresenceAt = event.issuedAt] /\ u.peerId = event.origin
      BY <1>6, <3>2, RefreshEffect
    <3>4. PICK v \in queue :
                \/ r = v /\ v.peerId # event.origin
                \/ r = [v EXCEPT !.lastPresenceAt = event.issuedAt] /\ v.peerId = event.origin
      BY <1>6, <3>2, RefreshEffect
    <3>5. u = v
      <4>1. q.peerId = u.peerId /\ r.peerId = v.peerId
        BY <3>1, <3>3, <3>4
      <4>2. u.peerId = v.peerId
        BY <3>2, <4>1
      <4>3. QED BY <4>2 DEF OneSpot
    <3>6. CASE u.peerId = event.origin
      BY <3>3, <3>4, <3>5, <3>6, Zenon
    <3>7. CASE u.peerId # event.origin
      BY <3>3, <3>4, <3>5, <3>7, Zenon
    <3>8. QED BY <3>6, <3>7
  <2>6. QED BY <2>2, <2>4, <2>5 DEF OneSpot
<1>7. CASE ApplyJoin
  BY <1>7, JoinEffect DEF OneSpot, Participates, SeatsOf, QueuedAs
<1>8. CASE ApplyChat
  BY <1>8, ChatEffect DEF OneSpot
<1>9. CASE UNCHANGED <<seats, queue>>
  BY <1>9 DEF OneSpot, Occupied
<1>10. QED
  BY <1>2, <1>3, <1>4, <1>5, <1>6, <1>7, <1>8, <1>9
  DEF Next, Loop, NextEvent, Finish, AdvanceReturns, FillReturns, ApplySkips, Returned, vars, hall

-----------------------------------------------------------------------------
(* The clock and the phases of one derivation.                               *)
LEMMA ClockInductive ==
    ASSUME TypeOK, Clock, [Next]_vars
    PROVE  Clock'
<1>1. ASSUME NEW e \in Events, NextEvent(e) PROVE Clock'
  BY <1>1, EventFields DEF NextEvent, Clock
<1>2. ASSUME NEW now \in EventTimes, Finish(now) PROVE Clock'
  BY <1>2 DEF Finish, Clock
<1>3. ASSUME NEW i \in SeatIds, ExpireSeat(i) PROVE Clock'
  BY <1>3 DEF ExpireSeat, RemoveParticipant, Clock
<1>4. ASSUME NEW p \in queue, ExpireQueued(p) PROVE Clock'
  BY <1>4 DEF ExpireQueued, RemoveParticipant, Clock
<1>5. CASE ApplyLeave
  BY <1>5 DEF ApplyLeave, Applying, RemoveParticipant, Clock, TypeOK
<1>6. CASE ApplyJoin
  BY <1>6 DEF ApplyJoin, Applying, Clock, TypeOK
<1>7. CASE AdvanceReturns \/ FillSeat \/ FillReturns
  BY <1>7 DEF AdvanceReturns, FillSeat, FillReturns, Clock, control, TypeOK
<1>8. CASE ApplyRefresh \/ ApplyChat \/ ApplySkips
  BY <1>8 DEF ApplyRefresh, ApplyChat, ApplySkips, Applying, Clock
<1>9. CASE Returned \/ UNCHANGED vars
  BY <1>9 DEF Returned, vars, control, Clock
<1>10. QED
  BY <1>1, <1>2, <1>3, <1>4, <1>5, <1>6, <1>7, <1>8, <1>9 DEF Next, Loop

(* Nobody waits beside a free seat outside fillSeats.                        *)
LEMMA WorkConservingInductive ==
    ASSUME TypeOK, WorkConserving, [Next]_vars
    PROVE  WorkConserving'
<1>1. CASE \/ \E i \in SeatIds : ExpireSeat(i)
           \/ \E p \in queue : ExpireQueued(p)
           \/ ApplyLeave \/ ApplyJoin \/ FillSeat
  BY <1>1 DEF ExpireSeat, ExpireQueued, ApplyLeave, ApplyJoin, FillSeat, RemoveParticipant,
              WorkConserving, control
<1>2. CASE ApplyRefresh
  BY <1>2, RefreshEffect DEF WorkConserving, Free, ApplyRefresh, Applying
<1>3. CASE ApplyChat
  BY <1>3, ChatEffect DEF WorkConserving, Free, ApplyChat, Applying
<1>4. CASE FillReturns
  BY <1>4 DEF FillReturns, WorkConserving, Free, Occupied, hall
<1>5. CASE \/ \E e \in Events : NextEvent(e)
           \/ \E now \in EventTimes : Finish(now)
           \/ AdvanceReturns \/ ApplySkips \/ Returned \/ UNCHANGED vars
  BY <1>5 DEF NextEvent, Finish, AdvanceReturns, ApplySkips, Returned, vars, hall, control,
              WorkConserving, Free, Occupied
<1>6. QED BY <1>1, <1>2, <1>3, <1>4, <1>5 DEF Next, Loop

(* fillSeats never sees a queue member past its deadline.                    *)
LEMMA FilteredInductive ==
    ASSUME TypeOK, Filtered, [Next]_vars
    PROVE  Filtered'
<1>1. ASSUME NEW peer \in Peers, NEW at, NEW cooldown, NEW next,
             RemoveParticipant(peer, at, cooldown, next)
      PROVE  Filtered'
  BY <1>1 DEF RemoveParticipant, Filtered, Fresh
<1>2. ASSUME NEW i \in SeatIds, ExpireSeat(i) PROVE Filtered'
  BY <1>1, <1>2, OccupiedSeat DEF ExpireSeat, Seat, Participant
<1>3. ASSUME NEW p \in queue, ExpireQueued(p) PROVE Filtered'
  BY <1>1, <1>3 DEF ExpireQueued, TypeOK, Participant
<1>4. CASE ApplyLeave
  <2>1. event \in Events
    BY <1>4 DEF ApplyLeave, Applying, TypeOK, NoEvent
  <2>2. QED BY <1>1, <1>4, <2>1, EventFields DEF ApplyLeave
<1>5. CASE ApplyJoin
  BY <1>5, JoinEffect DEF ApplyJoin, Filtered
<1>6. CASE FillSeat
  BY <1>6 DEF FillSeat, Filtered, control
<1>7. CASE FillReturns
  BY <1>7 DEF FillReturns, Filtered, TypeOK
<1>8. CASE ApplyRefresh \/ ApplyChat \/ ApplySkips \/ AdvanceReturns
  BY <1>8 DEF ApplyRefresh, ApplyChat, ApplySkips, AdvanceReturns, Filtered
<1>9. CASE \/ \E e \in Events : NextEvent(e)
           \/ \E now \in EventTimes : Finish(now)
           \/ Returned \/ UNCHANGED vars
  BY <1>9 DEF NextEvent, Finish, Returned, vars, hall, control, Filtered
<1>10. QED
  BY <1>2, <1>3, <1>4, <1>5, <1>6, <1>7, <1>8, <1>9 DEF Next, Loop

(* Seats are taken in the past.                                              *)
LEMMA PastSeatsInductive ==
    ASSUME TypeOK, Clock, PastSeats, [Next]_vars
    PROVE  PastSeats'
<1>1. ASSUME NEW e \in Events, NextEvent(e) PROVE PastSeats'
  <2>1. e.issuedAt \in Nat /\ target <= e.issuedAt
    <3>1. CASE event = NoEvent
      BY <1>1, <3>1, EventFields DEF NextEvent, Clock
    <3>2. CASE event # NoEvent
      <4>1. event \in Events
        BY <3>2 DEF TypeOK
      <4>2. e.issuedAt \in Nat /\ event.issuedAt \in Nat
        BY <4>1, EventFields
      <4>3. QED BY <1>1, <3>2, <4>2 DEF NextEvent, Clock
    <3>3. QED BY <3>1, <3>2
  <2>2. \A i \in Occupied : seats[i].seatedAt \in Nat /\ seats[i].seatedAt <= target
    BY <1>1, OccupiedSeat DEF NextEvent, PastSeats, Frozen, Seat
  <2>3. QED BY <1>1, <2>1, <2>2 DEF NextEvent, PastSeats, Occupied, hall, TypeOK
<1>2. ASSUME NEW now \in EventTimes, Finish(now) PROVE PastSeats'
  BY <1>2 DEF Finish, PastSeats, Frozen
<1>3. ASSUME NEW peer \in Peers, NEW at, NEW cooldown, NEW next,
             RemoveParticipant(peer, at, cooldown, next)
      PROVE  PastSeats'
  <2>1. Frozen' => Frozen
    BY <1>3 DEF RemoveParticipant, Frozen
  <2>2. QED BY <1>3, <2>1, RemoveEffect DEF PastSeats, RemoveParticipant
<1>4. ASSUME NEW i \in SeatIds, ExpireSeat(i) PROVE PastSeats'
  BY <1>3, <1>4, OccupiedSeat DEF ExpireSeat, Seat, Participant
<1>5. ASSUME NEW p \in queue, ExpireQueued(p) PROVE PastSeats'
  BY <1>3, <1>5 DEF ExpireQueued, TypeOK, Participant
<1>6. CASE ApplyLeave
  <2>1. event \in Events
    BY <1>6 DEF ApplyLeave, Applying, TypeOK, NoEvent
  <2>2. QED BY <1>3, <1>6, <2>1, EventFields DEF ApplyLeave
<1>7. CASE FillSeat
  <2>1. PICK i \in SeatIds \ Occupied, head \in queue :
             /\ Occupied' = Occupied \cup {i}
             /\ seats'[i] = [participant |-> head, seatedAt |-> fillAt, lastSpokeAt |-> None]
             /\ \A j \in Occupied : seats'[j] = seats[j]
             /\ queue' = queue \ {head}
    BY <1>7, FillEffect
  <2>2. seats'[i].seatedAt = fillAt /\ fillAt <= target
    BY <1>7, <2>1 DEF FillSeat, Clock
  <2>3. UNCHANGED <<phase, event, target>>
    BY <1>7 DEF FillSeat, control
  <2>4. QED BY <2>1, <2>2, <2>3 DEF PastSeats, Frozen
<1>8. CASE ApplyRefresh
  <2>1. \A i \in Occupied : seats'[i].seatedAt = seats[i].seatedAt
    <3>1. SUFFICES ASSUME NEW i \in Occupied PROVE seats'[i].seatedAt = seats[i].seatedAt
      OBVIOUS
    <3>2. /\ seats'[i] = seats[i]
             \/ seats'[i] = [seats[i] EXCEPT !.participant.lastPresenceAt = event.issuedAt]
          /\ event.issuedAt \in Nat
      BY <1>8, RefreshEffect
    <3>3. QED BY <3>2, OccupiedSeat, RefreshedSeat
  <2>2. QED BY <1>8, <2>1, RefreshEffect DEF PastSeats, Frozen, ApplyRefresh, Applying, Clock
<1>9. CASE ApplyJoin
  BY <1>9, JoinEffect DEF PastSeats, Frozen, ApplyJoin, Applying, Clock
<1>10. CASE ApplyChat
  BY <1>10, ChatEffect DEF PastSeats, Frozen, ApplyChat, Applying, Clock
<1>11. CASE AdvanceReturns \/ FillReturns \/ ApplySkips
  BY <1>11 DEF AdvanceReturns, FillReturns, ApplySkips, PastSeats, Frozen, Clock, Occupied, hall
<1>12. CASE Returned \/ UNCHANGED vars
  BY <1>12 DEF Returned, vars, hall, control, PastSeats, Frozen, Occupied
<1>13. QED
  BY <1>1, <1>2, <1>4, <1>5, <1>6, <1>7, <1>8, <1>9, <1>10, <1>11, <1>12 DEF Next, Loop

(* A seat given by fillSeats goes to a peer whose presence has not expired.  *)
LEMMA SeatedAliveInductive ==
    ASSUME TypeOK, Clock, PastSeats, Filtered, SeatedAlive, [Next]_vars
    PROVE  SeatedAlive'
<1>1. ASSUME NEW peer \in Peers, NEW at, NEW cooldown, NEW next,
             RemoveParticipant(peer, at, cooldown, next)
      PROVE  SeatedAlive'
  BY <1>1, RemoveEffect DEF SeatedAlive
<1>2. ASSUME NEW i \in SeatIds, ExpireSeat(i) PROVE SeatedAlive'
  BY <1>1, <1>2, OccupiedSeat DEF ExpireSeat, Seat, Participant
<1>3. ASSUME NEW p \in queue, ExpireQueued(p) PROVE SeatedAlive'
  BY <1>1, <1>3 DEF ExpireQueued, TypeOK, Participant
<1>4. CASE ApplyLeave
  <2>1. event \in Events
    BY <1>4 DEF ApplyLeave, Applying, TypeOK, NoEvent
  <2>2. QED BY <1>1, <1>4, <2>1, EventFields DEF ApplyLeave
<1>5. CASE FillSeat
  <2>1. PICK i \in SeatIds \ Occupied, head \in queue :
             /\ Occupied' = Occupied \cup {i}
             /\ seats'[i] = [participant |-> head, seatedAt |-> fillAt, lastSpokeAt |-> None]
             /\ \A j \in Occupied : seats'[j] = seats[j]
             /\ queue' = queue \ {head}
    BY <1>5, FillEffect
  <2>2. seats'[i].seatedAt = fillAt /\ seats'[i].participant = head
    BY <2>1
  <2>3. QueueExpiry(head) > fillAt
    BY <1>5 DEF FillSeat, Filtered
  <2>4. QED BY <2>1, <2>2, <2>3 DEF SeatedAlive
<1>6. CASE ApplyRefresh
  <2>1. SUFFICES ASSUME NEW i \in Occupied
                 PROVE  QueueExpiry(seats'[i].participant) > seats'[i].seatedAt
    BY <1>6, RefreshEffect DEF SeatedAlive
  <2>2. /\ \/ seats'[i] = seats[i]
           \/ seats'[i] = [seats[i] EXCEPT !.participant.lastPresenceAt = event.issuedAt]
        /\ event.issuedAt \in Nat
    BY <1>6, RefreshEffect
  <2>3. seats[i] \in Seat /\ seats[i].seatedAt \in Nat
    BY OccupiedSeat DEF Seat
  <2>4. /\ seats'[i].participant.lastPresenceAt
              \in {seats[i].participant.lastPresenceAt, event.issuedAt}
        /\ seats'[i].seatedAt = seats[i].seatedAt
    BY <2>2, <2>3, RefreshedSeat
  <2>5. seats[i].seatedAt <= event.issuedAt
    BY <1>6 DEF ApplyRefresh, Applying, PastSeats, Clock, Frozen
  <2>6. QED BY <2>2, <2>3, <2>4, <2>5, RulesAssumption DEF QueueExpiry, SeatedAlive
<1>7. CASE ApplyChat
  BY <1>7, ChatEffect DEF SeatedAlive
<1>8. CASE UNCHANGED seats
  BY <1>8 DEF SeatedAlive, Occupied
<1>9. QED
  BY <1>2, <1>3, <1>4, <1>5, <1>6, <1>7, <1>8
  DEF Next, Loop, NextEvent, Finish, AdvanceReturns, FillReturns, ApplyJoin, ApplySkips,
      Returned, vars, hall

(* After advance nothing is due until the next event is taken up.            *)
LEMMA QuietInductive ==
    ASSUME TypeOK, Clock, Quiet, [Next]_vars
    PROVE  Quiet'
<1>1. ASSUME NEW i \in SeatIds, ExpireSeat(i) PROVE Quiet'
  BY <1>1 DEF ExpireSeat, RemoveParticipant, Quiet
<1>2. ASSUME NEW p \in queue, ExpireQueued(p) PROVE Quiet'
  BY <1>2 DEF ExpireQueued, RemoveParticipant, Quiet
<1>3. CASE ApplyLeave
  <2>1. event \in Events /\ event.origin \in Peers
    BY <1>3, EventFields DEF ApplyLeave, Applying, TypeOK, NoEvent
  <2>2. NothingDue
    BY <1>3 DEF ApplyLeave, Applying, Quiet
  <2>3. NothingDue'
    BY <1>3, <2>1, <2>2, RemoveEffect DEF ApplyLeave, RemoveParticipant, NothingDue
  <2>4. QED BY <2>3 DEF Quiet
<1>4. CASE FillSeat
  <2>1. CASE resume = "next"
    <3>1. NothingDue /\ fillAt = target
      BY <1>4, <2>1 DEF FillSeat, Quiet, Clock
    <3>2. PICK i \in SeatIds \ Occupied, head \in queue :
             /\ Occupied' = Occupied \cup {i}
             /\ seats'[i] = [participant |-> head, seatedAt |-> fillAt, lastSpokeAt |-> None]
             /\ \A j \in Occupied : seats'[j] = seats[j]
             /\ queue' = queue \ {head}
      BY <1>4, FillEffect
    <3>3. seats'[i] \in Seat
      BY <3>2 DEF TypeOK, Seat
    <3>4. SeatDeadlines(seats'[i]) = {fillAt + MaxLeaseMs, fillAt + IdleMs, QueueExpiry(head)}
      BY <3>2 DEF SeatDeadlines, QueueExpiry
    <3>5. SeatExpiry(seats'[i]) > target
      <4>1. SeatExpiry(seats'[i]) \in {fillAt + MaxLeaseMs, fillAt + IdleMs, QueueExpiry(head)}
        BY <3>3, <3>4, SeatExpiryLeast
      <4>2. QueueExpiry(head) > target
        BY <3>1, <3>2 DEF NothingDue
      <4>3. QED BY <3>1, <4>1, <4>2, RulesAssumption DEF TypeOK
    <3>6. NothingDue'
      BY <1>4, <3>1, <3>2, <3>5 DEF NothingDue, FillSeat, control
    <3>7. QED BY <3>6 DEF Quiet
  <2>2. CASE resume # "next"
    BY <1>4, <2>2 DEF FillSeat, Quiet, control
  <2>3. QED BY <2>1, <2>2
<1>5. CASE ApplyRefresh
  <2>1. NothingDue /\ target = event.issuedAt /\ target' = target
    BY <1>5 DEF ApplyRefresh, Applying, Quiet, Clock
  <2>2. ASSUME NEW i \in Occupied PROVE SeatExpiry(seats'[i]) > target
    <3>1. /\ \/ seats'[i] = seats[i]
             \/ seats'[i] = [seats[i] EXCEPT !.participant.lastPresenceAt = event.issuedAt]
          /\ event.issuedAt \in Nat
      BY <1>5, RefreshEffect
    <3>2. seats[i] \in Seat
      BY OccupiedSeat
    <3>3. /\ seats'[i] \in Seat
          /\ seats'[i].participant.lastPresenceAt
                \in {seats[i].participant.lastPresenceAt, event.issuedAt}
          /\ seats'[i].seatedAt = seats[i].seatedAt
          /\ seats'[i].lastSpokeAt = seats[i].lastSpokeAt
      BY <3>1, <3>2, RefreshedSeat
    <3>4. SeatDeadlines(seats'[i]) \subseteq
             SeatDeadlines(seats[i]) \cup {event.issuedAt + PresenceTtlMs}
      BY <3>3 DEF SeatDeadlines
    <3>5. SeatExpiry(seats[i]) > target
      BY <2>1 DEF NothingDue
    <3>6. \A d \in SeatDeadlines(seats[i]) : d > target
      BY <3>2, <3>5, SeatExpiryLeast DEF TypeOK
    <3>7. event.issuedAt + PresenceTtlMs > target
      BY <2>1, <3>1, RulesAssumption
    <3>8. QED BY <3>3, <3>4, <3>6, <3>7, SeatExpiryLeast
  <2>3. ASSUME NEW q \in queue' PROVE QueueExpiry(q) > target
    <3>1. PICK p \in queue : q = p \/ q = [p EXCEPT !.lastPresenceAt = event.issuedAt]
      BY <1>5, RefreshEffect
    <3>2. event.issuedAt \in Nat /\ p \in Participant
      BY <1>5, RefreshEffect DEF TypeOK
    <3>3. QueueExpiry(q) \in {QueueExpiry(p), event.issuedAt + PresenceTtlMs}
      BY <3>1, <3>2 DEF QueueExpiry, Participant
    <3>4. QueueExpiry(p) > target
      BY <2>1 DEF NothingDue
    <3>5. QED BY <2>1, <3>2, <3>3, <3>4, RulesAssumption
  <2>4. NothingDue'
    BY <1>5, <2>1, <2>2, <2>3, RefreshEffect DEF NothingDue
  <2>5. QED BY <2>4 DEF Quiet
<1>6. CASE ApplyJoin
  <2>1. NothingDue /\ target = event.issuedAt /\ target' = target
    BY <1>6 DEF ApplyJoin, Applying, Quiet, Clock
  <2>2. NothingDue'
    BY <1>6, <2>1, JoinEffect DEF NothingDue
  <2>3. QED BY <2>2 DEF Quiet
<1>7. CASE ApplyChat
  <2>1. NothingDue /\ target = event.issuedAt /\ target' = target
    BY <1>7 DEF ApplyChat, Applying, Quiet, Clock
  <2>2. ASSUME NEW i \in Occupied PROVE SeatExpiry(seats'[i]) > target
    <3>1. /\ seats'[i] \in Seat
          /\ seats'[i].participant = seats[i].participant
          /\ seats'[i].seatedAt = seats[i].seatedAt
          /\ seats'[i].lastSpokeAt \in {seats[i].lastSpokeAt, event.issuedAt}
          /\ event.issuedAt \in Nat
      BY <1>7, ChatEffect
    <3>2. seats[i] \in Seat
      BY OccupiedSeat
    <3>3. SeatDeadlines(seats'[i]) \subseteq
             SeatDeadlines(seats[i]) \cup {event.issuedAt + IdleMs}
      BY <3>1, RulesAssumption DEF SeatDeadlines
    <3>4. SeatExpiry(seats[i]) > target
      BY <2>1 DEF NothingDue
    <3>5. \A d \in SeatDeadlines(seats[i]) : d > target
      BY <3>2, <3>4, SeatExpiryLeast DEF TypeOK
    <3>6. event.issuedAt + IdleMs > target
      BY <2>1, <3>1, RulesAssumption
    <3>7. QED BY <3>1, <3>3, <3>5, <3>6, SeatExpiryLeast
  <2>3. NothingDue'
    BY <1>7, <2>1, <2>2, ChatEffect DEF NothingDue
  <2>4. QED BY <2>3 DEF Quiet
<1>8. CASE AdvanceReturns \/ FillReturns \/ ApplySkips
  <2>1. UNCHANGED <<seats, queue, target>>
    BY <1>8 DEF AdvanceReturns, FillReturns, ApplySkips, hall
  <2>2. NothingDue' = NothingDue
    BY <2>1 DEF NothingDue, Occupied
  <2>3. NothingDue \/ (phase = "fill" /\ resume = "advance")
    BY <1>8 DEF AdvanceReturns, FillReturns, ApplySkips, Quiet, TypeOK
  <2>4. NothingDue \/ phase' = "advance"
    BY <1>8, <2>3 DEF AdvanceReturns, FillReturns, ApplySkips
  <2>5. QED BY <2>2, <2>4 DEF Quiet
<1>9. ASSUME NEW e \in Events, NextEvent(e) PROVE Quiet'
  BY <1>9 DEF NextEvent, Quiet
<1>10. ASSUME NEW now \in EventTimes, Finish(now) PROVE Quiet'
  BY <1>10 DEF Finish, Quiet
<1>11. CASE Returned \/ UNCHANGED vars
  <2>1. UNCHANGED <<seats, queue, target, phase, resume>>
    BY <1>11 DEF Returned, vars, hall, control
  <2>2. NothingDue => NothingDue'
    BY <2>1 DEF NothingDue, Occupied
  <2>3. phase' = phase /\ resume' = resume
    BY <2>1
  <2>4. QED BY <2>2, <2>3 DEF Quiet
<1>12. CASE Loop
  BY <1>1, <1>2, <1>3, <1>4, <1>5, <1>6, <1>7, <1>8, <1>12, Zenon DEF Loop
<1>13. CASE Next
  <2>1. CASE \E e \in Events : NextEvent(e)
    BY <1>9, <2>1
  <2>2. CASE \E now \in EventTimes : Finish(now)
    BY <1>10, <2>2
  <2>3. CASE Returned
    BY <1>11, <2>3
  <2>4. QED BY <1>12, <1>13, <2>1, <2>2, <2>3, Zenon DEF Next
<1>14. QED
  BY <1>11, <1>13

-----------------------------------------------------------------------------
(* A peer in its cooldown is not in the hall.                                *)
LEMMA CooldownsInductive ==
    ASSUME TypeOK, Clock, Cooldowns, [Next]_vars
    PROVE  Cooldowns'
<1>1. ASSUME NEW peer \in Peers, NEW at \in Nat, NEW cooldown, NEW next,
             RemoveParticipant(peer, at, cooldown, next)
      PROVE  Cooldowns'
  <2>1. Frozen' => Frozen
    BY <1>1 DEF RemoveParticipant, Frozen
  <2>2. \A p \in Peers : Participates(p)' => Participates(p)
    BY <1>1, RemoveEffect DEF Participates, SeatsOf, QueuedAs
  <2>3. \A p \in Peers \ {peer} : cooldownUntil'[p] = cooldownUntil[p]
    BY <1>1 DEF RemoveParticipant, TypeOK
  <2>4. ~Participates(peer)' /\ target' = target
    BY <1>1, RemoveEffect DEF RemoveParticipant
  <2>5. QED BY <2>1, <2>2, <2>3, <2>4 DEF Cooldowns
<1>2. ASSUME NEW i \in SeatIds, ExpireSeat(i) PROVE Cooldowns'
  BY <1>1, <1>2, OccupiedSeat, SeatExpiryLeast DEF ExpireSeat, Seat, Participant
<1>3. ASSUME NEW p \in queue, ExpireQueued(p) PROVE Cooldowns'
  BY <1>1, <1>3, QueueExpiryType DEF ExpireQueued, TypeOK, Participant
<1>4. CASE ApplyLeave
  <2>1. event \in Events
    BY <1>4 DEF ApplyLeave, Applying, TypeOK, NoEvent
  <2>2. QED BY <1>1, <1>4, <2>1, EventFields DEF ApplyLeave
<1>5. ASSUME NEW e \in Events, NextEvent(e) PROVE Cooldowns'
  <2>1. e.issuedAt \in Nat /\ target <= e.issuedAt
    <3>1. CASE event = NoEvent
      BY <1>5, <3>1, EventFields DEF NextEvent, Clock
    <3>2. CASE event # NoEvent
      <4>1. event \in Events
        BY <3>2 DEF TypeOK
      <4>2. e.issuedAt \in Nat /\ event.issuedAt \in Nat
        BY <4>1, EventFields
      <4>3. QED BY <1>5, <3>2, <4>2 DEF NextEvent, Clock
    <3>3. QED BY <3>1, <3>2
  <2>2. \A p \in Peers : Participates(p)' <=> Participates(p)
    BY <1>5 DEF NextEvent, hall, Participates, SeatsOf, QueuedAs, Occupied
  <2>3. \A p \in Peers : cooldownUntil[p] > target => ~Participates(p)
    BY <1>5 DEF NextEvent, Cooldowns, Frozen
  <2>4. \A p \in Peers : cooldownUntil'[p] = cooldownUntil[p] /\ cooldownUntil[p] \in Nat
    BY <1>5 DEF NextEvent, hall, TypeOK
  <2>5. target' = e.issuedAt /\ target \in Nat
    BY <1>5 DEF NextEvent, TypeOK
  <2>6. QED BY <2>1, <2>2, <2>3, <2>4, <2>5 DEF Cooldowns
<1>6. ASSUME NEW now \in EventTimes, Finish(now) PROVE Cooldowns'
  BY <1>6 DEF Finish, Cooldowns, Frozen
<1>7. CASE FillSeat
  <2>1. PICK i \in SeatIds \ Occupied, head \in queue :
             /\ Occupied' = Occupied \cup {i}
             /\ seats'[i] = [participant |-> head, seatedAt |-> fillAt, lastSpokeAt |-> None]
             /\ \A j \in Occupied : seats'[j] = seats[j]
             /\ queue' = queue \ {head}
    BY <1>7, FillEffect
  <2>2. seats'[i].participant = head
    BY <2>1
  <2>3. \A p \in Peers : Participates(p)' => Participates(p)
    BY <2>1, <2>2 DEF Participates, SeatsOf, QueuedAs
  <2>4. UNCHANGED <<phase, event, target, cooldownUntil>>
    BY <1>7 DEF FillSeat, control
  <2>5. QED BY <2>3, <2>4 DEF Cooldowns, Frozen
<1>8. CASE ApplyRefresh
  <2>1. \A i \in Occupied : seats'[i].participant.peerId = seats[i].participant.peerId
    <3>1. SUFFICES ASSUME NEW i \in Occupied
                   PROVE  seats'[i].participant.peerId = seats[i].participant.peerId
      OBVIOUS
    <3>2. /\ seats'[i] = seats[i]
             \/ seats'[i] = [seats[i] EXCEPT !.participant.lastPresenceAt = event.issuedAt]
          /\ event.issuedAt \in Nat
      BY <1>8, RefreshEffect
    <3>3. QED BY <3>2, OccupiedSeat, RefreshedSeat
  <2>2. \A q \in queue' : \E p \in queue : q.peerId = p.peerId
    <3>1. \A p \in queue : [p EXCEPT !.lastPresenceAt = event.issuedAt].peerId = p.peerId
      BY DEF TypeOK, Participant
    <3>2. SUFFICES ASSUME NEW q \in queue' PROVE \E p \in queue : q.peerId = p.peerId
      OBVIOUS
    <3>3. PICK p \in queue : q = p \/ q = [p EXCEPT !.lastPresenceAt = event.issuedAt]
      BY <1>8, RefreshEffect
    <3>4. q.peerId = p.peerId
      BY <3>1, <3>3
    <3>5. QED BY <3>4
  <2>3. \A p \in Peers : Participates(p)' => Participates(p)
    BY <1>8, <2>1, <2>2, RefreshEffect DEF Participates, SeatsOf, QueuedAs
  <2>4. QED BY <1>8, <2>3 DEF Cooldowns, Frozen, ApplyRefresh, Applying, Clock
<1>9. CASE ApplyJoin
  <2>1. \A p \in Peers \ {event.origin} : Participates(p)' => Participates(p)
    BY <1>9, JoinEffect DEF Participates, SeatsOf, QueuedAs
  <2>2. /\ cooldownUntil' = cooldownUntil /\ target' = target /\ target = event.issuedAt
        /\ cooldownUntil[event.origin] <= target /\ Frozen
    BY <1>9, JoinEffect DEF ApplyJoin, Applying, Clock, Frozen
  <2>3. cooldownUntil[event.origin] \in Nat /\ target \in Nat
    BY <1>9, JoinEffect DEF TypeOK
  <2>4. QED BY <2>1, <2>2, <2>3 DEF Cooldowns
<1>10. CASE ApplyChat
  <2>1. \A p \in Peers : Participates(p)' => Participates(p)
    BY <1>10, ChatEffect DEF Participates, SeatsOf, QueuedAs
  <2>2. QED BY <1>10, <2>1 DEF Cooldowns, Frozen, ApplyChat, Applying, Clock
<1>11. CASE AdvanceReturns \/ FillReturns \/ ApplySkips
  BY <1>11 DEF AdvanceReturns, FillReturns, ApplySkips, Cooldowns, Frozen, Clock, Occupied,
               Participates, SeatsOf, QueuedAs, hall
<1>12. CASE Returned \/ UNCHANGED vars
  BY <1>12 DEF Returned, vars, hall, control, Cooldowns, Frozen, Occupied,
               Participates, SeatsOf, QueuedAs
<1>13. QED
  BY <1>2, <1>3, <1>4, <1>5, <1>6, <1>7, <1>8, <1>9, <1>10, <1>11, <1>12 DEF Next, Loop

-----------------------------------------------------------------------------
(* Capacity.                                                                 *)
LEMMA OccupiedFinite ==
    ASSUME TypeOK
    PROVE  IsFiniteSet(Occupied)
<1>1. IsFiniteSet(SeatIds)
  BY FS_Interval, RulesAssumption DEF SeatIds
<1>2. QED BY <1>1, FS_Subset DEF Occupied

LEMMA BoundedInductive ==
    ASSUME TypeOK, Bounded, [Next]_vars
    PROVE  Bounded'
<1>1. IsFiniteSet(queue) /\ IsFiniteSet(Occupied) /\ Cardinality(queue) + Cardinality(Occupied) <= Capacity
  BY OccupiedFinite DEF Bounded, CapacityRespected
<1>2. Cardinality(queue) \in Nat /\ Cardinality(Occupied) \in Nat /\ Capacity \in Nat
  BY <1>1, FS_CardinalityType, RulesAssumption
<1>3. ASSUME queue' \subseteq queue, Occupied' \subseteq Occupied PROVE Bounded'
  <2>1. /\ IsFiniteSet(queue') /\ Cardinality(queue') <= Cardinality(queue)
        /\ IsFiniteSet(Occupied') /\ Cardinality(Occupied') <= Cardinality(Occupied)
    BY <1>1, <1>3, FS_Subset
  <2>2. Cardinality(queue') \in Nat /\ Cardinality(Occupied') \in Nat
    BY <2>1, FS_CardinalityType
  <2>3. QED BY <1>1, <1>2, <2>1, <2>2 DEF Bounded, CapacityRespected
<1>4. ASSUME NEW i \in SeatIds, ExpireSeat(i) PROVE Bounded'
  BY <1>3, <1>4, OccupiedSeat, RemoveEffect DEF ExpireSeat, Seat, Participant
<1>5. ASSUME NEW p \in queue, ExpireQueued(p) PROVE Bounded'
  BY <1>3, <1>5, RemoveEffect DEF ExpireQueued, TypeOK, Participant
<1>6. CASE ApplyLeave
  <2>1. event \in Events /\ event.origin \in Peers
    BY <1>6, EventFields DEF ApplyLeave, Applying, TypeOK, NoEvent
  <2>2. QED BY <1>3, <1>6, <2>1, RemoveEffect DEF ApplyLeave
<1>7. CASE FillSeat
  <2>1. PICK i \in SeatIds \ Occupied, head \in queue :
             /\ Occupied' = Occupied \cup {i}
             /\ queue' = queue \ {head}
    BY <1>7, FillEffect
  <2>2. IsFiniteSet(queue') /\ Cardinality(queue') = Cardinality(queue) - 1
    BY <1>1, <2>1, FS_RemoveElement
  <2>3. IsFiniteSet(Occupied') /\ Cardinality(Occupied') = Cardinality(Occupied) + 1
    BY <1>1, <2>1, FS_AddElement
  <2>4. QED BY <1>1, <1>2, <2>2, <2>3 DEF Bounded, CapacityRespected
<1>8. CASE ApplyRefresh
  <2>1. Occupied' = Occupied
    BY <1>8, RefreshEffect
  <2>2. CASE SeatsOf(event.origin) # {}
    <3>1. queue' = queue
      BY <1>8, <2>2 DEF ApplyRefresh
    <3>2. QED BY <1>3, <2>1, <3>1
  <2>3. CASE SeatsOf(event.origin) = {}
    <3> DEFINE mine == QueuedAs(event.origin)
               Renew(p) == [p EXCEPT !.lastPresenceAt = event.issuedAt]
               renewed == { Renew(p) : p \in mine }
               others == queue \ mine
    <3>1. queue' = others \cup renewed
      BY <1>8, <2>3 DEF ApplyRefresh
    <3>2. mine \subseteq queue
      BY DEF QueuedAs
    <3> HIDE DEF mine, Renew
    <3>3. IsFiniteSet(mine) /\ Cardinality(mine) <= Cardinality(queue)
      BY <1>1, <3>2, FS_Subset
    <3>4. IsFiniteSet(renewed) /\ Cardinality(renewed) <= Cardinality(mine)
      <4>1. [p \in mine |-> Renew(p)] \in Surjection(mine, renewed)
        BY DEF Surjection
      <4>2. QED BY <3>3, <4>1, FS_Surjection
    <3>5. /\ IsFiniteSet(others)
          /\ Cardinality(others) = Cardinality(queue) - Cardinality(queue \cap mine)
      BY <1>1, <3>3, FS_Difference
    <3>6. queue \cap mine = mine
      BY <3>2
    <3>7. /\ IsFiniteSet(queue')
          /\ Cardinality(queue') = Cardinality(others) + Cardinality(renewed)
                                     - Cardinality(others \cap renewed)
      BY <3>1, <3>4, <3>5, FS_Union
    <3>8. IsFiniteSet(others \cap renewed)
      BY <3>5, FS_Subset
    <3>9. /\ Cardinality(others) \in Nat /\ Cardinality(renewed) \in Nat
          /\ Cardinality(others \cap renewed) \in Nat /\ Cardinality(mine) \in Nat
      BY <3>3, <3>4, <3>5, <3>8, FS_CardinalityType
    <3>10. Cardinality(queue') <= Cardinality(queue)
      BY <1>2, <3>4, <3>5, <3>6, <3>7, <3>9
    <3>11. Cardinality(queue') \in Nat
      BY <3>7, FS_CardinalityType
    <3>12. QED BY <1>1, <1>2, <2>1, <3>7, <3>10, <3>11 DEF Bounded, CapacityRespected
  <2>4. QED BY <2>2, <2>3
<1>9. CASE ApplyJoin
  <2> DEFINE new == [peerId |-> event.origin, joinedAt |-> event.joinedAt,
                     lastPresenceAt |-> event.issuedAt]
  <2>1. queue' \subseteq queue \cup {new} /\ Occupied' = Occupied
    BY <1>9, JoinEffect
  <2>2. Cardinality(queue) + Cardinality(Occupied) < Capacity
    BY <1>9 DEF ApplyJoin, ParticipantCount
  <2> HIDE DEF new
  <2>3. /\ IsFiniteSet(queue \cup {new})
        /\ Cardinality(queue \cup {new}) \in {Cardinality(queue), Cardinality(queue) + 1}
    BY <1>1, FS_AddElement
  <2>4. IsFiniteSet(queue') /\ Cardinality(queue') <= Cardinality(queue \cup {new})
    BY <2>1, <2>3, FS_Subset
  <2>5. Cardinality(queue') \in Nat
    BY <2>4, FS_CardinalityType
  <2>6. QED BY <1>2, <2>1, <2>2, <2>3, <2>4, <2>5 DEF Bounded, CapacityRespected
<1>10. CASE ApplyChat
  BY <1>3, <1>10, ChatEffect
<1>11. CASE UNCHANGED <<seats, queue>>
  BY <1>3, <1>11 DEF Occupied
<1>12. QED
  BY <1>4, <1>5, <1>6, <1>7, <1>8, <1>9, <1>10, <1>11
  DEF Next, Loop, NextEvent, Finish, AdvanceReturns, FillReturns, ApplySkips, Returned, vars, hall

(* The hall never holds more than its capacity.                              *)
THEOREM CapacityEnforced == Spec => []CapacityRespected
<1>1. Init => Bounded
  <2> SUFFICES ASSUME Init PROVE Bounded
    OBVIOUS
  <2>1. Occupied = {} /\ queue = {}
    BY DEF Init, Occupied
  <2>2. QED BY <2>1, FS_EmptySet, RulesAssumption DEF Bounded, CapacityRespected
<1>2. TypeOK /\ Bounded /\ [Next]_vars => Bounded'
  BY BoundedInductive
<1>3. Bounded => CapacityRespected
  BY DEF Bounded
<1>4. QED BY <1>1, <1>2, <1>3, TypeCorrect, PTL DEF Spec

-----------------------------------------------------------------------------
(* The anti-monologue rule.                                                  *)
LEMMA MonologueAppend ==
    ASSUME NEW said \in Seq(Message), NEW m \in Message,
           \A k \in 1 .. (Len(said) - MaxConsecutive) :
             \E l \in (k + 1) .. (k + MaxConsecutive) : said[l].origin # said[k].origin,
           ~(/\ Len(said) >= MaxConsecutive
             /\ \A k \in (Len(said) - MaxConsecutive + 1) .. Len(said) :
                  said[k].origin = m.origin),
           NEW k \in 1 .. (Len(Append(said, m)) - MaxConsecutive)
    PROVE  \E l \in (k + 1) .. (k + MaxConsecutive) :
             Append(said, m)[l].origin # Append(said, m)[k].origin
<1>1. MaxConsecutive \in Nat \ {0} /\ Len(said) \in Nat /\ Len(Append(said, m)) = Len(said) + 1
  BY RulesAssumption
<1>2. /\ \A j \in 1 .. Len(said) : Append(said, m)[j] = said[j]
      /\ Append(said, m)[Len(said) + 1] = m
  OBVIOUS
<1>3. CASE k <= Len(said) - MaxConsecutive
  <2>1. PICK l \in (k + 1) .. (k + MaxConsecutive) : said[l].origin # said[k].origin
    BY <1>1, <1>3
  <2>2. l \in 1 .. Len(said) /\ k \in 1 .. Len(said)
    BY <1>1, <1>3, <2>1
  <2>3. QED BY <1>2, <2>1, <2>2
<1>4. CASE k = Len(said) - MaxConsecutive + 1
  <2>1. PICK j \in k .. Len(said) : said[j].origin # m.origin
    BY <1>1, <1>4
  <2>2. j \in 1 .. Len(said) /\ k \in 1 .. Len(said)
    BY <1>1, <1>4, <2>1
  <2>3. CASE said[k].origin # m.origin
    <3>1. Len(said) + 1 \in (k + 1) .. (k + MaxConsecutive)
      BY <1>1, <1>4
    <3>2. QED BY <1>2, <2>2, <2>3, <3>1
  <2>4. CASE said[k].origin = m.origin
    <3>1. j # k
      BY <2>1, <2>4
    <3>2. j \in (k + 1) .. (k + MaxConsecutive)
      <4>1. k \in Int /\ j \in Int /\ k <= j /\ j <= Len(said)
        <5>1. k \in Int
          BY <1>1
        <5>2. QED BY <1>1, <2>1, <5>1
      <4>2. k < j
        BY <3>1, <4>1
      <4>3. j <= k + MaxConsecutive
        BY <1>1, <1>4, <4>1
      <4>4. QED BY <1>1, <4>1, <4>2, <4>3
    <3>3. QED BY <1>2, <2>1, <2>2, <2>4, <3>2
  <2>5. QED BY <2>3, <2>4
<1>5. QED BY <1>1, <1>3, <1>4

LEMMA MonologueRetain ==
    ASSUME NEW said \in Seq(Message),
           \A k \in 1 .. (Len(said) - MaxConsecutive) :
             \E l \in (k + 1) .. (k + MaxConsecutive) : said[l].origin # said[k].origin,
           NEW k \in 1 .. (Len(Retain(said)) - MaxConsecutive)
    PROVE  \E l \in (k + 1) .. (k + MaxConsecutive) :
             Retain(said)[l].origin # Retain(said)[k].origin
<1>1. /\ MaxConsecutive \in Nat \ {0} /\ MaxRetainedMessages \in Nat \ {0} /\ Len(said) \in Nat
  BY RulesAssumption
<1>2. CASE Len(said) <= MaxRetainedMessages
  BY <1>2 DEF Retain
<1>3. CASE Len(said) > MaxRetainedMessages
  <2> DEFINE cut == Len(said) - MaxRetainedMessages
             kept == SubSeq(said, cut + 1, Len(said))
  <2>1. cut \in Nat /\ Retain(said) = kept
    BY <1>1, <1>3 DEF Retain
  <2>2. Len(kept) = MaxRetainedMessages
    BY <1>1, <1>3
  <2>3. \A j \in 1 .. MaxRetainedMessages : kept[j] = said[j + cut]
    BY <1>1, <1>3
  <2>4. k + cut \in 1 .. (Len(said) - MaxConsecutive) /\ k \in 1 .. MaxRetainedMessages
    BY <1>1, <2>1, <2>2
  <2>5. PICK l \in (k + cut + 1) .. (k + cut + MaxConsecutive) :
           said[l].origin # said[k + cut].origin
    BY <2>4
  <2>6. /\ l - cut \in (k + 1) .. (k + MaxConsecutive) /\ l - cut \in 1 .. MaxRetainedMessages
        /\ (l - cut) + cut = l
    BY <1>1, <2>1, <2>2, <2>4, <2>5
  <2>7. kept[l - cut] = said[l] /\ kept[k] = said[k + cut]
    BY <2>3, <2>4, <2>6
  <2>8. QED BY <2>1, <2>5, <2>6, <2>7
<1>4. QED BY <1>1, <1>2, <1>3

(* No origin fills more than maxConsecutiveMessages places in a row of what  *)
(* the hall shows, however joins, removals and trimming interleave.          *)
THEOREM MonologuePrevented == Spec => []NoMonologue
<1>1. Init => NoMonologue
  <2>1. Len(<< >>) - MaxConsecutive < 1
    BY RulesAssumption
  <2>2. QED BY <2>1, RulesAssumption DEF Init, NoMonologue
<1>2. TypeOK /\ NoMonologue /\ [Next]_vars => NoMonologue'
  <2> SUFFICES ASSUME TypeOK, NoMonologue, [Next]_vars PROVE NoMonologue'
    OBVIOUS
  <2>1. CASE ApplyChat
    <3> DEFINE m == [origin |-> event.origin, sentAt |-> event.issuedAt]
    <3>1. event \in Events
      BY <2>1 DEF ApplyChat, Applying, TypeOK, NoEvent
    <3>2. m \in Message /\ m.origin = event.origin /\ messages \in Seq(Message)
      BY <3>1, EventFields DEF Message, TypeOK
    <3>3. messages' = Retain(Append(messages, m)) /\ ~Monologue(m.origin)
      BY <2>1 DEF ApplyChat, MaySpeak
    <3> HIDE DEF m
    <3>4. \A k \in 1 .. (Len(Append(messages, m)) - MaxConsecutive) :
             \E l \in (k + 1) .. (k + MaxConsecutive) :
               Append(messages, m)[l].origin # Append(messages, m)[k].origin
      BY <3>2, <3>3, MonologueAppend DEF Monologue, NoMonologue
    <3>5. Append(messages, m) \in Seq(Message)
      BY <3>2
    <3>6. \A k \in 1 .. (Len(messages') - MaxConsecutive) :
             \E l \in (k + 1) .. (k + MaxConsecutive) : messages'[l].origin # messages'[k].origin
      BY <3>3, <3>4, <3>5, MonologueRetain
    <3>7. QED BY <3>6 DEF NoMonologue
  <2>2. CASE UNCHANGED messages
    BY <2>2 DEF NoMonologue
  <2>3. QED
    BY <2>1, <2>2
    DEF Next, Loop, NextEvent, Finish, ExpireSeat, ExpireQueued, RemoveParticipant, AdvanceReturns,
        FillSeat, FillReturns, ApplyLeave, ApplyRefresh, ApplyJoin, ApplySkips, Returned, vars, hall
<1>3. QED BY <1>1, <1>2, TypeCorrect, PTL DEF Spec

-----------------------------------------------------------------------------
(* The inductive invariant holds throughout every derivation.                *)
THEOREM Invariance == Spec => []IInv
<1>1. Init => IInv
  <2> SUFFICES ASSUME Init PROVE IInv
    OBVIOUS
  <2>1. TypeOK
    BY RulesAssumption DEF Init, TypeOK, NoEvent
  <2>2. Occupied = {} /\ queue = {}
    BY DEF Init, Occupied
  <2>3. QED
    BY <2>1, <2>2 DEF Init, IInv, OneSpot, WorkConserving, SeatedAlive, Clock, PastSeats,
       Filtered, Quiet, NothingDue, Cooldowns, Participates, SeatsOf, QueuedAs
<1>2. IInv /\ [Next]_vars => IInv' \/ ~TypeOK'
  BY OneSpotInductive, WorkConservingInductive, SeatedAliveInductive, ClockInductive,
     PastSeatsInductive, FilteredInductive, QuietInductive, CooldownsInductive DEF IInv
<1>3. IInv => TypeOK
  BY DEF IInv
<1>4. QED BY <1>1, <1>2, TypeCorrect, PTL DEF Spec

(* Whatever events arrive in log order, a peer is never in two places of the *)
(* hall: two seats, a seat and the queue, or twice in the queue.             *)
THEOREM NeverTwoPlaces == Spec => []OneSpot
BY Invariance, PTL DEF IInv

(* Nobody waits beside a free seat.                                          *)
THEOREM NoSeatIsWasted == Spec => []WorkConserving
BY Invariance, PTL DEF IInv

(* A seat is only given to a peer that is still there.                       *)
THEOREM NoSeatForTheAbsent == Spec => []SeatedAlive
BY Invariance, PTL DEF IInv

(* After each event every lease, idle and presence deadline lies ahead.      *)
THEOREM DeadlinesEnforced == Spec => []NothingOverdue
<1>1. IInv => NothingOverdue
  BY DEF IInv, Quiet, NothingOverdue
<1>2. QED BY <1>1, Invariance, PTL

(* Losing a seat to an expiry keeps a peer out for the whole cooldown.       *)
THEOREM CooldownEnforced == Spec => []CooldownServed
<1>1. IInv => CooldownServed
  BY DEF IInv, Cooldowns, Frozen, CooldownServed
<1>2. QED BY <1>1, Invariance, PTL

-----------------------------------------------------------------------------
(* Slow mode.  It is kept because a message is never later than the deadline  *)
(* of anyone in the hall, so that nobody is seated at a time before a message *)
(* of the past, and because a seat remembers the last message from it.       *)
Said == 1 .. Len(messages)

Past == Frozen => \A k \in Said : messages[k].sentAt <= target

Ahead ==
    /\ phase = "fill" => \A k \in Said : messages[k].sentAt <= fillAt
    /\ \A k \in Said : \A i \in Occupied : SeatExpiry(seats[i]) > messages[k].sentAt
    /\ \A k \in Said : \A p \in queue : QueueExpiry(p) > messages[k].sentAt

Remembered ==
    \A k \in Said : \A i \in Occupied :
        /\ messages[k].origin = seats[i].participant.peerId
        /\ messages[k].sentAt > seats[i].seatedAt
        => seats[i].lastSpokeAt # None /\ messages[k].sentAt <= seats[i].lastSpokeAt

(* A message has a time and an author.                                       *)
LEMMA MessageFields ==
    ASSUME TypeOK, NEW k \in Said
    PROVE  messages[k].sentAt \in Nat /\ messages[k].origin \in Peers
<1>1. messages \in Seq(Message) /\ k \in 1 .. Len(messages)
  BY DEF TypeOK, Said
<1>2. messages[k] \in Message
  BY <1>1
<1>3. QED BY <1>2 DEF Message

(* The messages that are retained are the last ones, in their order.          *)
LEMMA RetainKeepsLast ==
    ASSUME NEW said \in Seq(Message)
    PROVE  \E cut \in Nat : \A k \in 1 .. Len(Retain(said)) :
              k + cut \in 1 .. Len(said) /\ Retain(said)[k] = said[k + cut]
<1>1. MaxRetainedMessages \in Nat \ {0} /\ Len(said) \in Nat
  BY RulesAssumption
<1>2. CASE Len(said) <= MaxRetainedMessages
  <2>1. Retain(said) = said
    BY <1>2 DEF Retain
  <2>2. \A k \in 1 .. Len(said) : k + 0 \in 1 .. Len(said) /\ said[k] = said[k + 0]
    BY <1>1
  <2>3. QED BY <2>1, <2>2
<1>3. CASE Len(said) > MaxRetainedMessages
  <2> DEFINE cut == Len(said) - MaxRetainedMessages
             kept == SubSeq(said, cut + 1, Len(said))
  <2>1. cut \in Nat /\ Retain(said) = kept
    BY <1>1, <1>3 DEF Retain
  <2>2. Len(kept) = MaxRetainedMessages
    BY <1>1, <1>3
  <2>3. \A j \in 1 .. MaxRetainedMessages : kept[j] = said[j + cut] /\ j + cut \in 1 .. Len(said)
    BY <1>1, <1>3
  <2>4. QED BY <2>1, <2>2, <2>3
<1>4. QED BY <1>1, <1>2, <1>3

(* A chat adds one message, of the event, to those that are retained.         *)
LEMMA ChatMessages ==
    ASSUME TypeOK, ApplyChat
    PROVE  \E cut \in Nat : \A k \in Said' :
              \/ k + cut \in Said /\ messages'[k] = messages[k + cut]
              \/ /\ k + cut = Len(messages) + 1
                 /\ messages'[k].origin = event.origin
                 /\ messages'[k].sentAt = event.issuedAt
<1> DEFINE m == [origin |-> event.origin, sentAt |-> event.issuedAt]
           said == Append(messages, m)
<1>1. event \in Events
  BY DEF ApplyChat, Applying, TypeOK, NoEvent
<1>2. m \in Message /\ messages \in Seq(Message)
  BY <1>1, EventFields DEF Message, TypeOK
<1>3. m.origin = event.origin /\ m.sentAt = event.issuedAt /\ messages' = Retain(said)
  BY DEF ApplyChat
<1> HIDE DEF m
<1>4. /\ said \in Seq(Message) /\ Len(said) = Len(messages) + 1 /\ Len(messages) \in Nat
      /\ \A j \in 1 .. Len(messages) : said[j] = messages[j]
      /\ said[Len(messages) + 1] = m
  BY <1>2
<1> HIDE DEF said
<1>5. PICK cut \in Nat : \A k \in 1 .. Len(Retain(said)) :
              k + cut \in 1 .. Len(said) /\ Retain(said)[k] = said[k + cut]
  BY <1>4, RetainKeepsLast
<1>6. ASSUME NEW k \in Said'
      PROVE  \/ k + cut \in Said /\ messages'[k] = messages[k + cut]
             \/ /\ k + cut = Len(messages) + 1
                /\ messages'[k].origin = event.origin
                /\ messages'[k].sentAt = event.issuedAt
  <2>1. k + cut \in 1 .. (Len(messages) + 1) /\ messages'[k] = said[k + cut]
    BY <1>3, <1>4, <1>5, <1>6 DEF Said
  <2>2. k + cut \in 1 .. Len(messages) \/ k + cut = Len(messages) + 1
    BY <1>4, <2>1
  <2>3. QED BY <1>3, <1>4, <2>1, <2>2 DEF Said
<1>7. QED BY <1>6

(* Every message is of the past: the clock of a replay does not go back.      *)
LEMMA PastInductive ==
    ASSUME TypeOK, Clock, Past, [Next]_vars
    PROVE  Past'
<1>1. CASE ApplyChat
  <2>1. target' = target /\ target = event.issuedAt /\ Frozen /\ event.issuedAt \in Nat
    BY <1>1, ChatEffect DEF ApplyChat, Applying, Clock, Frozen
  <2>2. PICK cut \in Nat : \A k \in Said' :
              \/ k + cut \in Said /\ messages'[k] = messages[k + cut]
              \/ /\ k + cut = Len(messages) + 1
                 /\ messages'[k].origin = event.origin
                 /\ messages'[k].sentAt = event.issuedAt
    BY <1>1, ChatMessages
  <2>3. QED BY <2>1, <2>2 DEF Past
<1>2. ASSUME NEW e \in Events, NextEvent(e) PROVE Past'
  <2>1. target' = e.issuedAt /\ messages' = messages /\ phase = "next" /\ e.issuedAt \in Nat
    BY <1>2, EventFields DEF NextEvent, hall
  <2>2. target <= e.issuedAt
    <3>1. CASE event = NoEvent
      BY <2>1, <3>1 DEF Clock
    <3>2. CASE event # NoEvent
      <4>1. event \in Events /\ target = event.issuedAt
        BY <3>2 DEF TypeOK, Clock
      <4>2. QED BY <1>2, <3>2, <4>1, <2>1, EventFields DEF NextEvent
    <3>3. QED BY <3>1, <3>2
  <2>3. \A k \in Said : messages[k].sentAt <= target
    BY <2>1 DEF Past, Frozen
  <2>4. QED BY <2>1, <2>2, <2>3, MessageFields DEF Past, Said, TypeOK
<1>3. ASSUME NEW now \in EventTimes, Finish(now) PROVE Past'
  BY <1>3 DEF Finish, Past, Frozen
<1>4. CASE UNCHANGED <<messages, event, target>> /\ (phase' = "next" => Frozen)
  BY <1>4 DEF Past, Frozen, Said
<1>5. (Loop \/ Returned \/ UNCHANGED vars) /\ ~ApplyChat
         => UNCHANGED <<messages, event, target>> /\ (phase' = "next" => Frozen)
  <2>1. ASSUME NEW i \in SeatIds, ExpireSeat(i)
        PROVE  UNCHANGED <<messages, event, target>> /\ phase' # "next"
    BY <2>1 DEF ExpireSeat, RemoveParticipant
  <2>2. ASSUME NEW p \in queue, ExpireQueued(p)
        PROVE  UNCHANGED <<messages, event, target>> /\ phase' # "next"
    BY <2>2 DEF ExpireQueued, RemoveParticipant
  <2>3. AdvanceReturns \/ FillSeat =>
            UNCHANGED <<messages, event, target>> /\ phase' # "next"
    BY DEF AdvanceReturns, FillSeat, hall, control
  <2>4. FillReturns => UNCHANGED <<messages, event, target>> /\ (phase' = "next" => Frozen)
    BY DEF FillReturns, hall, Clock, Frozen
  <2>5. ApplyLeave \/ ApplyRefresh \/ ApplyJoin \/ ApplySkips
           => UNCHANGED <<messages, event, target>> /\ Frozen
    BY DEF ApplyLeave, ApplyRefresh, ApplyJoin, ApplySkips, Applying, RemoveParticipant, hall,
           Clock, Frozen
  <2>6. Returned \/ UNCHANGED vars
           => UNCHANGED <<messages, event, target>> /\ (phase' = "next" => Frozen)
    BY DEF Returned, vars, hall, control, Frozen
  <2>7. QED BY <2>1, <2>2, <2>3, <2>4, <2>5, <2>6 DEF Loop
<1>6. QED
  BY <1>1, <1>2, <1>3, <1>4, <1>5 DEF Next

-----------------------------------------------------------------------------
(* A removal at a time that no message is later than keeps Ahead.             *)
LEMMA RemoveAhead ==
    ASSUME TypeOK, Ahead, NEW peer \in Peers, NEW at, NEW cooldown, NEW next,
           RemoveParticipant(peer, at, cooldown, next),
           \A k \in Said : messages[k].sentAt <= at
    PROVE  Ahead'
<1>1. messages' = messages /\ fillAt' = at
  BY DEF RemoveParticipant
<1>2. /\ \A i \in Occupied' : i \in Occupied /\ seats'[i] = seats[i]
      /\ queue' \subseteq queue
  BY RemoveEffect
<1>3. QED BY <1>1, <1>2 DEF Ahead, Said

(* The deadlines of everyone in the hall lie after every message.             *)
LEMMA AheadInductive ==
    ASSUME TypeOK, Clock, Quiet, Past, Ahead, [Next]_vars
    PROVE  Ahead'
<1>1. ASSUME NEW i \in SeatIds, ExpireSeat(i) PROVE Ahead'
  <2>1. seats[i] \in Seat /\ i \in Occupied
    BY <1>1, OccupiedSeat DEF ExpireSeat
  <2>2. \A k \in Said : messages[k].sentAt <= SeatExpiry(seats[i])
    BY <2>1, SeatExpiryLeast, MessageFields DEF Ahead
  <2>3. seats[i].participant.peerId \in Peers
    BY <2>1 DEF Seat, Participant
  <2>4. QED BY <1>1, <2>2, <2>3, RemoveAhead DEF ExpireSeat
<1>2. ASSUME NEW p \in queue, ExpireQueued(p) PROVE Ahead'
  <2>1. p \in Participant /\ p.peerId \in Peers
    BY DEF TypeOK, Participant
  <2>2. \A k \in Said : messages[k].sentAt <= QueueExpiry(p)
    BY <2>1, QueueExpiryType, MessageFields DEF Ahead
  <2>3. QED BY <1>2, <2>1, <2>2, RemoveAhead DEF ExpireQueued
<1>3. phase = "apply" => /\ event \in Events /\ event.issuedAt \in Nat /\ target = event.issuedAt
                         /\ \A k \in Said : messages[k].sentAt <= event.issuedAt
  BY EventFields DEF Clock, Past, Frozen, TypeOK
<1>4. CASE ApplyLeave
  BY <1>3, <1>4, EventFields, RemoveAhead DEF ApplyLeave, Applying
<1>5. CASE FillSeat
  <2>1. PICK i \in SeatIds \ Occupied, head \in queue :
             /\ Occupied' = Occupied \cup {i}
             /\ seats'[i] = [participant |-> head, seatedAt |-> fillAt, lastSpokeAt |-> None]
             /\ \A j \in Occupied : seats'[j] = seats[j]
             /\ queue' = queue \ {head}
    BY <1>5, FillEffect
  <2>2. messages' = messages /\ fillAt' = fillAt /\ phase = "fill" /\ fillAt \in Nat
    BY <1>5 DEF FillSeat, control, TypeOK
  <2>3. seats'[i] \in Seat
    BY <2>1 DEF TypeOK, Seat
  <2>4. SeatDeadlines(seats'[i]) = {fillAt + MaxLeaseMs, fillAt + IdleMs, QueueExpiry(head)}
    BY <2>1 DEF SeatDeadlines, QueueExpiry
  <2>5. SeatExpiry(seats'[i]) \in {fillAt + MaxLeaseMs, fillAt + IdleMs, QueueExpiry(head)}
    BY <2>3, <2>4, SeatExpiryLeast
  <2>6. ASSUME NEW k \in Said PROVE SeatExpiry(seats'[i]) > messages[k].sentAt
    <3>1. messages[k].sentAt \in Nat /\ messages[k].sentAt <= fillAt
      BY <2>2, MessageFields DEF Ahead
    <3>2. QueueExpiry(head) > messages[k].sentAt
      BY DEF Ahead
    <3>3. QED BY <2>2, <2>5, <3>1, <3>2, RulesAssumption
  <2>7. QED BY <2>1, <2>2, <2>6 DEF Ahead, Said
<1>6. CASE ApplyRefresh
  <2>1. messages' = messages /\ phase' = "next" /\ phase = "apply"
    BY <1>6 DEF ApplyRefresh, Applying
  <2>2. ASSUME NEW i \in Occupied, NEW k \in Said
        PROVE  SeatExpiry(seats'[i]) > messages[k].sentAt
    <3>1. \/ seats'[i] = seats[i]
          \/ seats'[i] = [seats[i] EXCEPT !.participant.lastPresenceAt = event.issuedAt]
      BY <1>6, RefreshEffect
    <3>2. seats[i] \in Seat
      BY OccupiedSeat
    <3>3. /\ seats'[i] \in Seat
          /\ seats'[i].participant.lastPresenceAt
                \in {seats[i].participant.lastPresenceAt, event.issuedAt}
          /\ seats'[i].seatedAt = seats[i].seatedAt
          /\ seats'[i].lastSpokeAt = seats[i].lastSpokeAt
      BY <1>3, <2>1, <3>1, <3>2, RefreshedSeat
    <3>4. SeatDeadlines(seats'[i]) \subseteq
             SeatDeadlines(seats[i]) \cup {event.issuedAt + PresenceTtlMs}
      BY <3>3 DEF SeatDeadlines
    <3>5. SeatExpiry(seats[i]) > messages[k].sentAt
      BY DEF Ahead
    <3>6. \A d \in SeatDeadlines(seats[i]) : d > messages[k].sentAt
      BY <3>2, <3>5, SeatExpiryLeast, MessageFields
    <3>7. event.issuedAt + PresenceTtlMs > messages[k].sentAt
      BY <1>3, <2>1, MessageFields, RulesAssumption
    <3>8. QED BY <3>3, <3>4, <3>6, <3>7, SeatExpiryLeast
  <2>3. ASSUME NEW q \in queue', NEW k \in Said
        PROVE  QueueExpiry(q) > messages[k].sentAt
    <3>1. PICK p \in queue : q = p \/ q = [p EXCEPT !.lastPresenceAt = event.issuedAt]
      BY <1>6, RefreshEffect
    <3>2. p \in Participant
      BY DEF TypeOK
    <3>3. QueueExpiry(q) \in {QueueExpiry(p), event.issuedAt + PresenceTtlMs}
      BY <3>1, <3>2 DEF QueueExpiry, Participant
    <3>4. QueueExpiry(p) > messages[k].sentAt
      BY DEF Ahead
    <3>5. event.issuedAt + PresenceTtlMs > messages[k].sentAt
      BY <1>3, <2>1, MessageFields, RulesAssumption
    <3>6. QED BY <3>3, <3>4, <3>5
  <2>4. Occupied' = Occupied /\ Said' = Said
    BY <1>6, <2>1, RefreshEffect DEF Said
  <2>5. QED BY <2>1, <2>2, <2>3, <2>4 DEF Ahead
<1>7. CASE ApplyJoin
  <2>1. messages' = messages /\ phase = "apply" /\ fillAt' = event.issuedAt
    BY <1>7 DEF ApplyJoin, Applying
  <2>2. /\ Occupied' = Occupied /\ seats' = seats
        /\ \A q \in queue' : QueueExpiry(q) > event.issuedAt /\ q \in Participant
    <3>1. \A q \in queue' : q \in Participant
      BY <1>7, JoinEffect, EventFields DEF TypeOK, Participant
    <3>2. QED BY <1>7, <3>1, JoinEffect
  <2>3. ASSUME NEW q \in queue', NEW k \in Said
        PROVE  QueueExpiry(q) > messages[k].sentAt
    BY <1>3, <2>1, <2>2, QueueExpiryType, MessageFields
  <2>4. QED BY <1>3, <2>1, <2>2, <2>3 DEF Ahead, Said
<1>8. CASE ApplyChat
  <2>1. /\ NothingDue /\ target = event.issuedAt /\ phase' = "next" /\ event.issuedAt \in Nat
        /\ \A k \in Said : messages[k].sentAt <= event.issuedAt
    BY <1>3, <1>8 DEF ApplyChat, Applying, Quiet
  <2>2. PICK cut \in Nat : \A k \in Said' :
              \/ k + cut \in Said /\ messages'[k] = messages[k + cut]
              \/ /\ k + cut = Len(messages) + 1
                 /\ messages'[k].origin = event.origin
                 /\ messages'[k].sentAt = event.issuedAt
    BY <1>8, ChatMessages
  <2>3. \A k \in Said' : messages'[k].sentAt <= event.issuedAt /\ messages'[k].sentAt \in Nat
    BY <2>1, <2>2, MessageFields
  <2>4. ASSUME NEW i \in Occupied PROVE SeatExpiry(seats'[i]) > event.issuedAt
                                        /\ SeatExpiry(seats'[i]) \in Nat
    <3>1. /\ seats'[i] \in Seat
          /\ seats'[i].participant = seats[i].participant
          /\ seats'[i].seatedAt = seats[i].seatedAt
          /\ seats'[i].lastSpokeAt \in {seats[i].lastSpokeAt, event.issuedAt}
      BY <1>8, ChatEffect
    <3>2. seats[i] \in Seat
      BY OccupiedSeat
    <3>3. SeatDeadlines(seats'[i]) \subseteq
             SeatDeadlines(seats[i]) \cup {event.issuedAt + IdleMs}
      BY <2>1, <3>1, RulesAssumption DEF SeatDeadlines
    <3>4. SeatExpiry(seats[i]) > event.issuedAt
      BY <2>1 DEF NothingDue
    <3>5. \A d \in SeatDeadlines(seats[i]) : d > event.issuedAt
      BY <2>1, <3>2, <3>4, SeatExpiryLeast
    <3>6. event.issuedAt + IdleMs > event.issuedAt
      BY <2>1, RulesAssumption
    <3>7. QED BY <3>1, <3>3, <3>5, <3>6, SeatExpiryLeast
  <2>5. ASSUME NEW p \in queue PROVE QueueExpiry(p) > event.issuedAt /\ QueueExpiry(p) \in Nat
    BY <2>1, QueueExpiryType DEF NothingDue, TypeOK
  <2>6. Occupied' = Occupied /\ queue' = queue
    BY <1>8, ChatEffect
  <2>7. ASSUME NEW k \in Said'
        PROVE  /\ \A i \in Occupied' : SeatExpiry(seats'[i]) > messages'[k].sentAt
               /\ \A p \in queue' : QueueExpiry(p) > messages'[k].sentAt
    BY <2>1, <2>3, <2>4, <2>5, <2>6
  <2>8. QED BY <2>1, <2>7 DEF Ahead
<1>9. CASE UNCHANGED hall /\ (phase' = "fill" => phase = "fill" /\ fillAt' = fillAt)
  BY <1>9 DEF Ahead, Said, Occupied, hall
<1>10. ASSUME NEW e \in Events, NextEvent(e) PROVE Ahead'
  BY <1>9, <1>10 DEF NextEvent
<1>11. ASSUME NEW now \in EventTimes, Finish(now) PROVE Ahead'
  BY <1>9, <1>11 DEF Finish
<1>12. CASE AdvanceReturns \/ FillReturns \/ ApplySkips \/ Returned \/ UNCHANGED vars
  BY <1>9, <1>12 DEF AdvanceReturns, FillReturns, ApplySkips, Returned, vars, control, TypeOK
<1>13. CASE Loop
  BY <1>1, <1>2, <1>4, <1>5, <1>6, <1>7, <1>8, <1>12, <1>13 DEF Loop
<1>14. QED
  BY <1>10, <1>11, <1>12, <1>13 DEF Next

-----------------------------------------------------------------------------
(* A seat remembers a time no earlier than any message said from it.          *)
LEMMA RememberedInductive ==
    ASSUME TypeOK, OneSpot, Clock, Past, Ahead, Remembered, [Next]_vars
    PROVE  Remembered'
<1>1. ASSUME messages' = messages,
             \A i \in Occupied' :
                /\ i \in Occupied
                /\ seats'[i].participant.peerId = seats[i].participant.peerId
                /\ seats'[i].seatedAt = seats[i].seatedAt
                /\ seats'[i].lastSpokeAt = seats[i].lastSpokeAt
      PROVE  Remembered'
  BY <1>1 DEF Remembered, Said
<1>2. ASSUME NEW peer \in Peers, NEW at, NEW cooldown, NEW next,
             RemoveParticipant(peer, at, cooldown, next)
      PROVE  Remembered'
  <2>1. messages' = messages
    BY <1>2 DEF RemoveParticipant
  <2>2. \A i \in Occupied' : i \in Occupied /\ seats'[i] = seats[i]
    BY <1>2, RemoveEffect
  <2>3. QED BY <1>1, <2>1, <2>2
<1>3. ASSUME NEW i \in SeatIds, ExpireSeat(i) PROVE Remembered'
  BY <1>2, <1>3, OccupiedSeat DEF ExpireSeat, Seat, Participant
<1>4. ASSUME NEW p \in queue, ExpireQueued(p) PROVE Remembered'
  BY <1>2, <1>4 DEF ExpireQueued, TypeOK, Participant
<1>5. CASE ApplyLeave
  <2>1. event \in Events
    BY <1>5 DEF ApplyLeave, Applying, TypeOK, NoEvent
  <2>2. QED BY <1>2, <1>5, <2>1, EventFields DEF ApplyLeave
<1>6. CASE FillSeat
  <2>1. PICK i \in SeatIds \ Occupied, head \in queue :
             /\ Occupied' = Occupied \cup {i}
             /\ seats'[i] = [participant |-> head, seatedAt |-> fillAt, lastSpokeAt |-> None]
             /\ \A j \in Occupied : seats'[j] = seats[j]
             /\ queue' = queue \ {head}
    BY <1>6, FillEffect
  <2>2. messages' = messages /\ phase = "fill" /\ fillAt \in Nat
    BY <1>6 DEF FillSeat, TypeOK
  <2>3. \A k \in Said : ~(messages[k].sentAt > seats'[i].seatedAt)
    BY <2>1, <2>2, MessageFields DEF Ahead
  <2>4. QED BY <2>1, <2>2, <2>3 DEF Remembered, Said
<1>7. CASE ApplyRefresh
  <2>1. messages' = messages
    BY <1>7 DEF ApplyRefresh
  <2>2. ASSUME NEW i \in Occupied'
        PROVE  /\ i \in Occupied
               /\ seats'[i].participant.peerId = seats[i].participant.peerId
               /\ seats'[i].seatedAt = seats[i].seatedAt
               /\ seats'[i].lastSpokeAt = seats[i].lastSpokeAt
    <3>1. /\ i \in Occupied /\ event.issuedAt \in Nat
          /\ \/ seats'[i] = seats[i]
             \/ seats'[i] = [seats[i] EXCEPT !.participant.lastPresenceAt = event.issuedAt]
      BY <1>7, <2>2, RefreshEffect
    <3>2. QED BY <3>1, OccupiedSeat, RefreshedSeat
  <2>3. QED BY <1>1, <2>1, <2>2
<1>8. CASE ApplyChat
  <2>1. SUFFICES ASSUME NEW k \in Said', NEW i \in Occupied',
                        messages'[k].origin = seats'[i].participant.peerId,
                        messages'[k].sentAt > seats'[i].seatedAt
                 PROVE  /\ seats'[i].lastSpokeAt # None
                        /\ messages'[k].sentAt <= seats'[i].lastSpokeAt
    BY DEF Remembered
  <2>2. /\ event \in Events /\ event.issuedAt \in Nat /\ i \in Occupied
        /\ seats'[i].participant = seats[i].participant
        /\ seats'[i].seatedAt = seats[i].seatedAt
        /\ seats'[i].lastSpokeAt \in {seats[i].lastSpokeAt, event.issuedAt}
    BY <1>8, ChatEffect
  <2>3. \A l \in Said : messages[l].sentAt <= event.issuedAt
    BY <1>8 DEF ApplyChat, Applying, Clock, Past, Frozen
  <2>4. PICK speaker \in SeatIds :
            /\ MaySpeak(speaker)
            /\ seats' = [seats EXCEPT ![speaker].lastSpokeAt = event.issuedAt]
    BY <1>8 DEF ApplyChat
  <2>5. speaker \in Occupied /\ seats[speaker].participant.peerId = event.origin
    BY <2>4 DEF MaySpeak, SeatsOf
  <2>6. PICK cut \in Nat :
              \/ k + cut \in Said /\ messages'[k] = messages[k + cut]
              \/ /\ messages'[k].origin = event.origin
                 /\ messages'[k].sentAt = event.issuedAt
    BY <1>8, ChatMessages
  <2>7. event.issuedAt # None
    BY <2>2, RulesAssumption
  <2>8. CASE k + cut \in Said /\ messages'[k] = messages[k + cut]
    <3>1. seats[i].lastSpokeAt # None /\ messages[k + cut].sentAt <= seats[i].lastSpokeAt
      BY <2>1, <2>2, <2>8 DEF Remembered
    <3>2. QED BY <2>2, <2>3, <2>7, <2>8, <3>1
  <2>9. CASE messages'[k].origin = event.origin /\ messages'[k].sentAt = event.issuedAt
    <3>1. i = speaker
      BY <2>1, <2>2, <2>5, <2>9 DEF OneSpot
    <3>2. seats'[i].lastSpokeAt = event.issuedAt
      BY <2>4, <2>5, <3>1, OccupiedSeat DEF TypeOK, Seat
    <3>3. QED BY <2>2, <2>7, <2>9, <3>2
  <2>10. QED BY <2>6, <2>8, <2>9
<1>9. CASE UNCHANGED <<seats, messages>>
  BY <1>9 DEF Remembered, Said, Occupied
<1>10. QED
  BY <1>3, <1>4, <1>5, <1>6, <1>7, <1>8, <1>9
  DEF Next, Loop, NextEvent, Finish, AdvanceReturns, FillReturns, ApplyJoin, ApplySkips,
      Returned, vars, hall

(* Slow mode holds of each tenure, given what its seat remembers.             *)
LEMMA SlowModeInductive ==
    ASSUME TypeOK, OneSpot, Clock, Past, Ahead, Remembered, SlowModeKept, [Next]_vars
    PROVE  SlowModeKept'
<1>1. ASSUME messages' = messages,
             \A i \in Occupied' :
                /\ i \in Occupied
                /\ seats'[i].participant.peerId = seats[i].participant.peerId
                /\ seats'[i].seatedAt = seats[i].seatedAt
      PROVE  SlowModeKept'
  BY <1>1 DEF SlowModeKept
<1>2. ASSUME NEW peer \in Peers, NEW at, NEW cooldown, NEW next,
             RemoveParticipant(peer, at, cooldown, next)
      PROVE  SlowModeKept'
  <2>1. messages' = messages
    BY <1>2 DEF RemoveParticipant
  <2>2. \A i \in Occupied' : i \in Occupied /\ seats'[i] = seats[i]
    BY <1>2, RemoveEffect
  <2>3. QED BY <1>1, <2>1, <2>2
<1>3. ASSUME NEW i \in SeatIds, ExpireSeat(i) PROVE SlowModeKept'
  BY <1>2, <1>3, OccupiedSeat DEF ExpireSeat, Seat, Participant
<1>4. ASSUME NEW p \in queue, ExpireQueued(p) PROVE SlowModeKept'
  BY <1>2, <1>4 DEF ExpireQueued, TypeOK, Participant
<1>5. CASE ApplyLeave
  <2>1. event \in Events
    BY <1>5 DEF ApplyLeave, Applying, TypeOK, NoEvent
  <2>2. QED BY <1>2, <1>5, <2>1, EventFields DEF ApplyLeave
<1>6. CASE FillSeat
  <2>1. PICK i \in SeatIds \ Occupied, head \in queue :
             /\ Occupied' = Occupied \cup {i}
             /\ seats'[i] = [participant |-> head, seatedAt |-> fillAt, lastSpokeAt |-> None]
             /\ \A j \in Occupied : seats'[j] = seats[j]
             /\ queue' = queue \ {head}
    BY <1>6, FillEffect
  <2>2. messages' = messages /\ phase = "fill" /\ fillAt \in Nat
    BY <1>6 DEF FillSeat, TypeOK
  <2>3. \A k \in 1 .. Len(messages) : ~(messages[k].sentAt > seats'[i].seatedAt)
    BY <2>1, <2>2, MessageFields DEF Ahead, Said
  <2>4. QED BY <2>1, <2>2, <2>3 DEF SlowModeKept
<1>7. CASE ApplyRefresh
  <2>1. messages' = messages
    BY <1>7 DEF ApplyRefresh
  <2>2. ASSUME NEW i \in Occupied'
        PROVE  /\ i \in Occupied
               /\ seats'[i].participant.peerId = seats[i].participant.peerId
               /\ seats'[i].seatedAt = seats[i].seatedAt
    <3>1. /\ i \in Occupied /\ event.issuedAt \in Nat
          /\ \/ seats'[i] = seats[i]
             \/ seats'[i] = [seats[i] EXCEPT !.participant.lastPresenceAt = event.issuedAt]
      BY <1>7, <2>2, RefreshEffect
    <3>2. QED BY <3>1, OccupiedSeat, RefreshedSeat
  <2>3. QED BY <1>1, <2>1, <2>2
<1>8. CASE ApplyChat
  <2>1. SUFFICES ASSUME NEW i \in Occupied', NEW k \in Said', NEW l \in Said', k < l,
                        messages'[k].origin = seats'[i].participant.peerId,
                        messages'[l].origin = seats'[i].participant.peerId,
                        messages'[k].sentAt > seats'[i].seatedAt
                 PROVE  messages'[l].sentAt - messages'[k].sentAt >= SlowModeMs
    BY DEF SlowModeKept, Said
  <2>2. /\ event \in Events /\ event.issuedAt \in Nat /\ i \in Occupied
        /\ seats'[i].participant = seats[i].participant
        /\ seats'[i].seatedAt = seats[i].seatedAt
    BY <1>8, ChatEffect
  <2>3. PICK speaker \in SeatIds : MaySpeak(speaker)
    BY <1>8 DEF ApplyChat
  <2>4. speaker \in Occupied /\ seats[speaker].participant.peerId = event.origin
    BY <2>3 DEF MaySpeak, SeatsOf
  <2>5. PICK cut \in Nat : \A j \in Said' :
              \/ j + cut \in Said /\ messages'[j] = messages[j + cut]
              \/ /\ j + cut = Len(messages) + 1
                 /\ messages'[j].origin = event.origin
                 /\ messages'[j].sentAt = event.issuedAt
    BY <1>8, ChatMessages
  <2>6. k \in Nat /\ l \in Nat /\ k + cut < l + cut /\ Len(messages) \in Nat
    BY <2>1 DEF Said, TypeOK
  <2>7. \A j \in Said' : j + cut \in Said \/ j + cut = Len(messages) + 1
    BY <2>5
  <2>8. k + cut \in Said /\ messages'[k] = messages[k + cut]
    <3>1. k + cut <= Len(messages)
      BY <2>6, <2>7 DEF Said
    <3>2. k + cut # Len(messages) + 1
      BY <2>6, <3>1
    <3>3. QED BY <2>5, <3>2
  <2>9. CASE l + cut \in Said /\ messages'[l] = messages[l + cut]
    BY <2>1, <2>2, <2>6, <2>8, <2>9 DEF SlowModeKept, Said
  <2>10. CASE messages'[l].origin = event.origin /\ messages'[l].sentAt = event.issuedAt
    <3>1. i = speaker
      BY <2>1, <2>2, <2>4, <2>10 DEF OneSpot
    <3>2. /\ seats[i].lastSpokeAt # None
          /\ messages[k + cut].sentAt <= seats[i].lastSpokeAt
      BY <2>1, <2>2, <2>8 DEF Remembered
    <3>3. event.issuedAt - seats[i].lastSpokeAt >= SlowModeMs
      BY <2>3, <3>1, <3>2 DEF MaySpeak
    <3>4. messages[k + cut].sentAt \in Nat /\ seats[i].lastSpokeAt \in Nat
      BY <2>2, <2>8, <3>2, MessageFields, OccupiedSeat DEF Seat
    <3>5. QED BY <2>2, <2>8, <2>10, <3>2, <3>3, <3>4, RulesAssumption
  <2>11. QED BY <2>5, <2>9, <2>10
<1>9. CASE UNCHANGED <<seats, messages>>
  BY <1>9 DEF SlowModeKept, Occupied
<1>10. QED
  BY <1>3, <1>4, <1>5, <1>6, <1>7, <1>8, <1>9
  DEF Next, Loop, NextEvent, Finish, AdvanceReturns, FillReturns, ApplyJoin, ApplySkips,
      Returned, vars, hall

(* Slow mode: the messages of one tenure of a seat are slowModeMs apart, for   *)
(* any log, although the replay only compares with the last one               *)
(* (room-events.ts:310-316), and although messages are trimmed meanwhile.     *)
THEOREM SlowModeEnforced == Spec => []SlowModeKept
<1> DEFINE SInv == Past /\ Ahead /\ Remembered /\ SlowModeKept
<1>1. Init => SInv
  <2> SUFFICES ASSUME Init PROVE SInv
    OBVIOUS
  <2>1. messages = << >> /\ Said = {} /\ Occupied = {} /\ phase # "fill"
    BY DEF Init, Said, Occupied
  <2>2. QED BY <2>1 DEF Past, Ahead, Remembered, SlowModeKept
<1>2. IInv /\ SInv /\ [Next]_vars => SInv'
  BY PastInductive, AheadInductive, RememberedInductive, SlowModeInductive DEF IInv
<1>3. SInv => SlowModeKept
  OBVIOUS
<1>4. QED BY <1>1, <1>2, <1>3, Invariance, PTL DEF Spec
=============================================================================
