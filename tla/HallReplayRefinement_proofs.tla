--------------------- MODULE HallReplayRefinement_proofs ---------------------
(***************************************************************************)
(* The loops of derive() implement its closed form, for every log and all  *)
(* rules: HallReplay is HallLog with the operators of HallDerive.          *)
(***************************************************************************)
EXTENDS HallReplayRefinement, HallReplay_proofs

-----------------------------------------------------------------------------
(* The variables of HallReplay as one hall of HallDerive *)
LEMMA HallsEqual ==
    ASSUME NEW g \in Halls, NEW h \in Halls, g.seats = h.seats, g.queue = h.queue,
           g.cooldownUntil = h.cooldownUntil, g.messages = h.messages
    PROVE  g = h
BY DEF Halls

LEMMA HallFields ==
    /\ Hall.seats = seats /\ Hall.queue = queue
    /\ Hall.cooldownUntil = cooldownUntil /\ Hall.messages = messages
    /\ Hall'.seats = seats' /\ Hall'.queue = queue'
    /\ Hall'.cooldownUntil = cooldownUntil' /\ Hall'.messages = messages'
    /\ TakenSeats(Hall) = Occupied /\ FreeSeats(Hall) = Free
    /\ \A p : SeatOf(Hall, p) = SeatsOf(p) /\ InQueue(Hall, p) = QueuedAs(p)
BY DEF Hall, TakenSeats, Occupied, FreeSeats, Free, SeatOf, SeatsOf, InQueue, QueuedAs

LEMMA HallType ==
    /\ TypeOK => Hall \in Halls
    /\ TypeOK' => Hall' \in Halls
BY DEF TypeOK, Hall, Halls

LEMMA HallParticipants ==
    ASSUME NEW p
    PROVE  p \in Participants(Hall) <=> Participates(p)
BY HallFields DEF Participants, Participates, SeatsOf, QueuedAs

(* With one spot for each peer the queue is finite. *)
LEMMA QueueFinite ==
    ASSUME TypeOK, OneSpot
    PROVE  IsFiniteSet(queue)
<1> DEFINE f == [p \in queue |-> p.peerId]
<1>1. \A p \in queue : p.peerId \in Peers
  BY DEF TypeOK, Participant
<1>2. f \in Injection(queue, Peers)
  BY <1>1 DEF Injection, IsInjective, OneSpot
<1>3. QED BY <1>2, RulesAssumption, FS_Injection

-----------------------------------------------------------------------------
(* removeParticipant, its call of fillSeats still to come *)
Released(h, g, peer, at, cooldown) ==
    /\ g.seats = [i \in SeatIds |-> IF i \in SeatOf(h, peer) THEN None ELSE h.seats[i]]
    /\ g.queue = Fresh(h.queue \ InQueue(h, peer), at)
    /\ g.cooldownUntil = IF SeatOf(h, peer) # {} /\ cooldown
                         THEN [h.cooldownUntil EXCEPT ![peer] = at + CooldownMs]
                         ELSE h.cooldownUntil
    /\ g.messages = h.messages

LEMMA ReleaseIs ==
    ASSUME NEW h \in Halls, NEW g \in Halls, NEW peer, NEW at, NEW cooldown \in BOOLEAN,
           Released(h, g, peer, at, cooldown)
    PROVE  Release(h, peer, at, cooldown) = FillSeats(g, at)
<1>1. PICK c : c = [h EXCEPT
           !.seats = [i \in SeatIds |-> IF i \in SeatOf(h, peer) THEN None ELSE h.seats[i]],
           !.queue = h.queue \ InQueue(h, peer),
           !.cooldownUntil =
               IF SeatOf(h, peer) # {} /\ cooldown THEN [@ EXCEPT ![peer] = at + CooldownMs] ELSE @]
  OBVIOUS
<1>2. Release(h, peer, at, cooldown) = FillSeats(c, at)
  BY <1>1 DEF Release
<1>3. c = [seats |-> g.seats, queue |-> h.queue \ InQueue(h, peer),
           cooldownUntil |-> g.cooldownUntil, messages |-> g.messages]
  BY <1>1 DEF Halls, Released
<1>4. c \in Halls
  BY <1>3 DEF Halls
<1>5. /\ g.seats = c.seats /\ g.queue = Fresh(c.queue, at)
      /\ g.cooldownUntil = c.cooldownUntil /\ g.messages = c.messages
  BY <1>3 DEF Released
<1>6. QED BY <1>2, <1>4, <1>5, FillSeatsFilters

LEMMA RemoveReleases ==
    ASSUME TypeOK, NEW peer \in Peers, NEW at \in Nat, NEW cooldown \in BOOLEAN,
           NEW next \in {"next", "advance"}, RemoveParticipant(peer, at, cooldown, next)
    PROVE  Release(Hall, peer, at, cooldown) = FillSeats(Hall', at)
<1>1. Hall \in Halls /\ Hall' \in Halls
  BY RemoveParticipantType, HallType
<1>2. /\ seats' = [i \in SeatIds |-> IF i \in SeatsOf(peer) THEN None ELSE seats[i]]
      /\ queue' = Fresh(queue \ QueuedAs(peer), at)
      /\ cooldownUntil' = IF SeatsOf(peer) # {} /\ cooldown
                          THEN [cooldownUntil EXCEPT ![peer] = at + CooldownMs]
                          ELSE cooldownUntil
      /\ messages' = messages
  BY DEF RemoveParticipant
<1>3. PICK h : h = Hall
  OBVIOUS
<1>4. PICK g : g = Hall'
  OBVIOUS
<1>5. /\ h \in Halls /\ g \in Halls
      /\ h.seats = seats /\ h.queue = queue /\ h.cooldownUntil = cooldownUntil
      /\ h.messages = messages
      /\ g.seats = seats' /\ g.queue = queue' /\ g.cooldownUntil = cooldownUntil'
      /\ g.messages = messages'
      /\ SeatOf(h, peer) = SeatsOf(peer) /\ InQueue(h, peer) = QueuedAs(peer)
  BY <1>1, <1>3, <1>4, HallFields
<1>6. Released(h, g, peer, at, cooldown)
  BY <1>2, <1>5 DEF Released
<1>7. Release(h, peer, at, cooldown) = FillSeats(g, at)
  BY <1>5, <1>6, ReleaseIs
<1>8. QED BY <1>3, <1>4, <1>7

(* The participant that a turn of advance removes is the next one due. *)
LEMMA SeatIsNext ==
    ASSUME TypeOK, NEW i \in SeatIds, ExpireSeat(i)
    PROVE  /\ Due(Hall, target) # {}
           /\ Turn(Hall, target) =
                Release(Hall, seats[i].participant.peerId, SeatExpiry(seats[i]), TRUE)
<1> DEFINE x == [at |-> SeatExpiry(seats[i]), peerId |-> seats[i].participant.peerId,
                 cooldown |-> TRUE, place |-> <<0, i>>]
<1>0. /\ i \in Occupied /\ SeatExpiry(seats[i]) <= target
      /\ \A j \in Occupied : /\ SeatExpiry(seats[i]) <= SeatExpiry(seats[j])
                             /\ j < i => SeatExpiry(seats[i]) < SeatExpiry(seats[j])
      /\ \A p \in queue : SeatExpiry(seats[i]) <= QueueExpiry(p)
      /\ Hall \in Halls /\ SeatIds \subseteq Nat
  BY HallType DEF ExpireSeat, SeatIds
<1>1. x \in Due(Hall, target)
  BY <1>0, HallFields DEF Due, SeatExpiries
<1>2. \A j \in Occupied : SeatExpiry(seats[j]) \in Nat /\ j \in Nat
  BY <1>0, OccupiedSeat, SeatExpiryLeast
<1>3. ASSUME NEW j \in Occupied, NEW y,
             y = [at |-> SeatExpiry(seats[j]), peerId |-> seats[j].participant.peerId,
                  cooldown |-> TRUE, place |-> <<0, j>>]
      PROVE  y = x \/ Sooner(x, y)
  <2>1. y.at = SeatExpiry(seats[j]) /\ y.place[1] = 0 /\ y.place[2] = j
    BY <1>3
  <2>2. x.at = SeatExpiry(seats[i]) /\ x.place[1] = 0 /\ x.place[2] = i
    OBVIOUS
  <2>3. j = i => y = x
    BY <1>3
  <2> HIDE DEF x
  <2>4. j # i => Sooner(x, y)
    BY <1>0, <1>2, <2>1, <2>2 DEF Sooner
  <2>5. QED BY <2>3, <2>4
<1>4. ASSUME NEW p \in queue, NEW y,
             y = [at |-> QueueExpiry(p), peerId |-> p.peerId,
                  cooldown |-> FALSE, place |-> <<p.joinedAt + 1, p.peerId>>]
      PROVE  Sooner(x, y)
  <2>1. p.joinedAt \in Nat /\ QueueExpiry(p) \in Nat
    BY ParticipantFields DEF TypeOK
  <2>2. y.at = QueueExpiry(p) /\ y.place[1] = p.joinedAt + 1
    BY <1>4
  <2>3. x.at = SeatExpiry(seats[i]) /\ x.place[1] = 0
    OBVIOUS
  <2> HIDE DEF x
  <2>4. QED BY <1>0, <1>2, <2>1, <2>2, <2>3 DEF Sooner
<1>5. \A y \in Due(Hall, target) : y = x \/ Sooner(x, y)
  <2> HIDE DEF x
  <2> SUFFICES ASSUME NEW y \in Due(Hall, target) PROVE y = x \/ Sooner(x, y)
    OBVIOUS
  <2>1. y \in SeatExpiries(Hall) \/ y \in QueueExpiries(Hall)
    BY DEF Due
  <2>2. CASE y \in SeatExpiries(Hall)
    <3>1. PICK j \in Occupied :
             y = [at |-> SeatExpiry(seats[j]), peerId |-> seats[j].participant.peerId,
                  cooldown |-> TRUE, place |-> <<0, j>>]
      BY <2>2, HallFields DEF SeatExpiries
    <3>2. QED BY <1>3, <3>1
  <2>3. CASE y \in QueueExpiries(Hall)
    <3>1. PICK p \in queue :
             y = [at |-> QueueExpiry(p), peerId |-> p.peerId,
                  cooldown |-> FALSE, place |-> <<p.joinedAt + 1, p.peerId>>]
      BY <2>3, HallFields DEF QueueExpiries
    <3>2. QED BY <1>4, <3>1
  <2>4. QED BY <2>1, <2>2, <2>3
<1>6. x.peerId = seats[i].participant.peerId /\ x.at = SeatExpiry(seats[i]) /\ x.cooldown = TRUE
  OBVIOUS
<1> HIDE DEF x
<1>7. NextDue(Hall, target) = x
  BY <1>0, <1>1, <1>5, NextDueIs
<1>8. QED BY <1>1, <1>6, <1>7 DEF Turn

LEMMA QueuedIsNext ==
    ASSUME TypeOK, OneSpot, NEW p \in queue, ExpireQueued(p)
    PROVE  /\ Due(Hall, target) # {}
           /\ Turn(Hall, target) = Release(Hall, p.peerId, QueueExpiry(p), FALSE)
<1> DEFINE x == [at |-> QueueExpiry(p), peerId |-> p.peerId,
                 cooldown |-> FALSE, place |-> <<p.joinedAt + 1, p.peerId>>]
<1>0. /\ QueueExpiry(p) <= target
      /\ \A j \in Occupied : QueueExpiry(p) < SeatExpiry(seats[j])
      /\ \A other \in queue : /\ QueueExpiry(p) <= QueueExpiry(other)
                              /\ Before(other, p) => QueueExpiry(p) < QueueExpiry(other)
      /\ Hall \in Halls
  BY HallType DEF ExpireQueued
<1>1. x \in Due(Hall, target)
  BY <1>0, HallFields DEF Due, QueueExpiries
<1>2. \A q \in queue : QueueExpiry(q) \in Nat /\ q.joinedAt \in Nat /\ q.peerId \in Nat
  BY ParticipantFields DEF TypeOK
<1>3. ASSUME NEW j \in Occupied, NEW y,
             y = [at |-> SeatExpiry(seats[j]), peerId |-> seats[j].participant.peerId,
                  cooldown |-> TRUE, place |-> <<0, j>>]
      PROVE  Sooner(x, y)
  <2>1. y.at = SeatExpiry(seats[j])
    BY <1>3
  <2>2. x.at = QueueExpiry(p)
    OBVIOUS
  <2> HIDE DEF x
  <2>3. QED BY <1>0, <2>1, <2>2 DEF Sooner
<1>4. ASSUME NEW q \in queue, NEW y,
             y = [at |-> QueueExpiry(q), peerId |-> q.peerId,
                  cooldown |-> FALSE, place |-> <<q.joinedAt + 1, q.peerId>>]
      PROVE  y = x \/ Sooner(x, y)
  <2>1. y.at = QueueExpiry(q) /\ y.place[1] = q.joinedAt + 1 /\ y.place[2] = q.peerId
    BY <1>4
  <2>2. x.at = QueueExpiry(p) /\ x.place[1] = p.joinedAt + 1 /\ x.place[2] = p.peerId
    OBVIOUS
  <2>3. q = p => y = x
    BY <1>4
  <2> HIDE DEF x
  <2>4. ASSUME q # p PROVE Sooner(x, y)
    <3>1. q.peerId # p.peerId
      BY <2>4 DEF OneSpot
    <3>2. /\ QueueExpiry(p) \in Nat /\ p.joinedAt \in Nat /\ p.peerId \in Nat
          /\ QueueExpiry(q) \in Nat /\ q.joinedAt \in Nat /\ q.peerId \in Nat
      BY <1>2
    <3>3. /\ QueueExpiry(p) <= QueueExpiry(q)
          /\ Before(q, p) => QueueExpiry(p) < QueueExpiry(q)
      BY <1>0
    <3>4. QED BY <2>1, <2>2, <3>1, <3>2, <3>3 DEF Sooner, Before
  <2>5. QED BY <2>3, <2>4
<1>5. \A y \in Due(Hall, target) : y = x \/ Sooner(x, y)
  <2> HIDE DEF x
  <2> SUFFICES ASSUME NEW y \in Due(Hall, target) PROVE y = x \/ Sooner(x, y)
    OBVIOUS
  <2>1. y \in SeatExpiries(Hall) \/ y \in QueueExpiries(Hall)
    BY DEF Due
  <2>2. CASE y \in SeatExpiries(Hall)
    <3>1. PICK j \in Occupied :
             y = [at |-> SeatExpiry(seats[j]), peerId |-> seats[j].participant.peerId,
                  cooldown |-> TRUE, place |-> <<0, j>>]
      BY <2>2, HallFields DEF SeatExpiries
    <3>2. QED BY <1>3, <3>1
  <2>3. CASE y \in QueueExpiries(Hall)
    <3>1. PICK q \in queue :
             y = [at |-> QueueExpiry(q), peerId |-> q.peerId,
                  cooldown |-> FALSE, place |-> <<q.joinedAt + 1, q.peerId>>]
      BY <2>3, HallFields DEF QueueExpiries
    <3>2. QED BY <1>4, <3>1
  <2>4. QED BY <2>1, <2>2, <2>3
<1>6. x.peerId = p.peerId /\ x.at = QueueExpiry(p) /\ x.cooldown = FALSE
  OBVIOUS
<1> HIDE DEF x
<1>7. NextDue(Hall, target) = x
  BY <1>0, <1>1, <1>5, NextDueIs
<1>8. QED BY <1>1, <1>6, <1>7 DEF Turn

(* A turn of advance, up to the loop of fillSeats *)
LEMMA TurnTaken ==
    ASSUME TypeOK, OneSpot,
           \/ \E i \in SeatIds : ExpireSeat(i)
           \/ \E p \in queue : ExpireQueued(p)
    PROVE  /\ Advance(Hall, target) = Advance(FillSeats(Hall', fillAt'), target)
           /\ phase = "advance" /\ phase' = "fill" /\ resume' = "advance"
           /\ target' = target /\ event' = event
<1>0. Hall \in Halls
  BY HallType
<1>1. ASSUME NEW i \in SeatIds, ExpireSeat(i)
      PROVE  /\ Due(Hall, target) # {} /\ Turn(Hall, target) = FillSeats(Hall', fillAt')
             /\ phase = "advance" /\ phase' = "fill" /\ resume' = "advance"
             /\ target' = target /\ event' = event
  <2>1. seats[i] \in Seat
    BY <1>1, OccupiedSeat DEF ExpireSeat
  <2>2. seats[i].participant.peerId \in Peers /\ SeatExpiry(seats[i]) \in Nat
    BY <2>1, SeatExpiryLeast DEF Seat, Participant
  <2>3. RemoveParticipant(seats[i].participant.peerId, SeatExpiry(seats[i]), TRUE, "advance")
    BY <1>1 DEF ExpireSeat
  <2>4. Release(Hall, seats[i].participant.peerId, SeatExpiry(seats[i]), TRUE)
           = FillSeats(Hall', SeatExpiry(seats[i]))
    BY <2>2, <2>3, RemoveReleases
  <2>5. QED BY <1>1, <2>3, <2>4, SeatIsNext DEF ExpireSeat, RemoveParticipant
<1>2. ASSUME NEW p \in queue, ExpireQueued(p)
      PROVE  /\ Due(Hall, target) # {} /\ Turn(Hall, target) = FillSeats(Hall', fillAt')
             /\ phase = "advance" /\ phase' = "fill" /\ resume' = "advance"
             /\ target' = target /\ event' = event
  <2>1. p \in Participant
    BY DEF TypeOK
  <2>2. p.peerId \in Peers /\ QueueExpiry(p) \in Nat
    BY <2>1, ParticipantFields
  <2>3. RemoveParticipant(p.peerId, QueueExpiry(p), FALSE, "advance")
    BY <1>2 DEF ExpireQueued
  <2>4. Release(Hall, p.peerId, QueueExpiry(p), FALSE) = FillSeats(Hall', QueueExpiry(p))
    BY <2>2, <2>3, RemoveReleases
  <2>5. QED BY <1>2, <2>3, <2>4, QueuedIsNext DEF ExpireQueued, RemoveParticipant
<1>3. /\ Due(Hall, target) # {} /\ Turn(Hall, target) = FillSeats(Hall', fillAt')
      /\ phase = "advance" /\ phase' = "fill" /\ resume' = "advance"
      /\ target' = target /\ event' = event
  BY <1>1, <1>2
<1>4. QED BY <1>0, <1>3, AdvanceEquation

(* advance returns when its loop finds nothing due. *)
LEMMA AdvanceIsDone ==
    ASSUME TypeOK, AdvanceReturns
    PROVE  Advance(Hall, target) = Hall /\ Hall' = Hall
<1>1. Hall \in Halls /\ target \in Int
  BY HallType DEF TypeOK
<1>2. /\ \A i \in TakenSeats(Hall) : SeatExpiry(Hall.seats[i]) > target
      /\ \A p \in Hall.queue : QueueExpiry(p) > target
  BY HallFields DEF AdvanceReturns, NothingDue
<1>3. Due(Hall, target) = {}
  BY <1>1, <1>2, NothingIsDue
<1>4. Hall' = Hall
  BY DEF AdvanceReturns, hall, Hall
<1>5. QED BY <1>1, <1>3, <1>4, AdvanceEquation

(* A turn of fillSeats leaves its outcome as it was. *)
LEMMA SeatFilled ==
    ASSUME TypeOK, OneSpot, Filtered, FillSeat
    PROVE  FillSeats(Hall', fillAt) = FillSeats(Hall, fillAt)
<1>1. Hall \in Halls /\ Hall' \in Halls
  <2>1. TypeOK'
    BY TypeStep DEF Next, Loop
  <2>2. QED BY <2>1, HallType
<1>2. PICK i \in Free, head \in queue :
         /\ \A j \in Free : i <= j
         /\ \A p \in queue : ~Before(p, head)
         /\ seats' = [seats EXCEPT ![i] = NewSeat(head, fillAt)]
         /\ queue' = queue \ {head}
  BY DEF FillSeat, NewSeat
<1>3. cooldownUntil' = cooldownUntil /\ messages' = messages /\ phase = "fill"
  BY DEF FillSeat
<1>4. \A p \in queue : p = head \/ Before(head, p)
  <2>1. \A p \in queue : p # head => p.peerId # head.peerId
    BY DEF OneSpot
  <2>2. \A p \in queue : p.joinedAt \in Nat /\ p.peerId \in Nat
    BY ParticipantFields DEF TypeOK
  <2>3. QED BY <1>2, <2>1, <2>2 DEF Before
<1>5. NewSeat(head, fillAt) # None
  <2>1. NewSeat(head, fillAt) \in Seat
    BY DEF NewSeat, Seat, TypeOK
  <2>2. QED BY <2>1, RulesAssumption
<1>6. IsFiniteSet(queue) /\ \A p \in queue : QueueExpiry(p) > fillAt
  BY <1>3, QueueFinite DEF Filtered
<1>7. PICK h : h = Hall
  OBVIOUS
<1>8. PICK g : g = Hall'
  OBVIOUS
<1>9. /\ h \in Halls /\ g \in Halls
      /\ h.seats = seats /\ h.queue = queue /\ h.cooldownUntil = cooldownUntil
      /\ h.messages = messages /\ FreeSeats(h) = Free
      /\ g.seats = seats' /\ g.queue = queue' /\ g.cooldownUntil = cooldownUntil'
      /\ g.messages = messages'
  BY <1>1, <1>7, <1>8, HallFields
<1>10. /\ IsFiniteSet(h.queue) /\ \A p \in h.queue : QueueExpiry(p) > fillAt
       /\ i \in FreeSeats(h) /\ \A j \in FreeSeats(h) : i <= j
       /\ head \in h.queue /\ \A p \in h.queue : p = head \/ Before(head, p)
       /\ g.seats = [h.seats EXCEPT ![i] = NewSeat(head, fillAt)]
       /\ g.queue = h.queue \ {head}
       /\ g.cooldownUntil = h.cooldownUntil /\ g.messages = h.messages
  BY <1>2, <1>3, <1>4, <1>6, <1>9
<1>11. FillSeats(g, fillAt) = FillSeats(h, fillAt)
  BY <1>5, <1>9, <1>10, FillSeatsTurn
<1>12. QED BY <1>7, <1>8, <1>11

LEMMA FillIsDone ==
    ASSUME TypeOK, OneSpot, Filtered, FillReturns
    PROVE  FillSeats(Hall, fillAt) = Hall /\ Hall' = Hall
<1>1. Hall \in Halls /\ IsFiniteSet(queue)
  BY HallType, QueueFinite
<1>2. \A p \in queue : QueueExpiry(p) > fillAt
  BY DEF FillReturns, Filtered
<1>3. FreeSeats(Hall) = {} \/ Hall.queue = {}
  BY HallFields DEF FillReturns
<1>4. FillSeats(Hall, fillAt) = Hall
  BY <1>1, <1>2, <1>3, HallFields, FillSeatsDone
<1>5. Hall' = Hall
  BY DEF FillReturns, hall, Hall
<1>6. QED BY <1>4, <1>5

-----------------------------------------------------------------------------
(* The body of the loop over the events, kind by kind *)
LEMMA EventApplied ==
    ASSUME TypeOK, Clock, phase = "apply"
    PROVE  /\ event \in Events /\ event # NoEvent /\ target = event.issuedAt
           /\ event.origin \in Peers /\ event.issuedAt \in Nat /\ event.joinedAt \in Nat
           /\ event.kind \in {"join", "heartbeat", "leave", "chat", "checkpoint"}
<1>1. event # NoEvent /\ target = event.issuedAt
  BY DEF Clock
<1>2. event \in Events
  BY <1>1 DEF TypeOK
<1>3. event.kind \in {"join", "heartbeat", "leave", "chat", "checkpoint"}
  BY <1>2 DEF Events
<1>4. QED BY <1>1, <1>2, <1>3, EventFields

LEMMA LeaveReleases ==
    ASSUME TypeOK, Clock, ApplyLeave
    PROVE  Apply(Hall, event) = FillSeats(Hall', fillAt') /\ phase' = "fill" /\ resume' = "next"
<1>1. phase = "apply" /\ event.kind = "leave"
      /\ RemoveParticipant(event.origin, event.issuedAt, FALSE, "next")
  BY DEF ApplyLeave, Applying
<1>2. event.origin \in Peers /\ event.issuedAt \in Nat
  BY <1>1, EventApplied
<1>3. Release(Hall, event.origin, event.issuedAt, FALSE) = FillSeats(Hall', event.issuedAt)
  BY <1>1, <1>2, RemoveReleases
<1>4. Apply(Hall, event) = Release(Hall, event.origin, event.issuedAt, FALSE)
  BY <1>1 DEF Apply
<1>5. QED BY <1>1, <1>3, <1>4 DEF RemoveParticipant

LEMMA PresenceRefreshes ==
    ASSUME TypeOK, OneSpot, Clock, ApplyRefresh
    PROVE  Apply(Hall, event) = Hall' /\ phase' = "next"
<1>1. /\ phase = "apply" /\ event.kind \in {"join", "heartbeat"} /\ Participates(event.origin)
      /\ phase' = "next" /\ cooldownUntil' = cooldownUntil /\ messages' = messages
  BY DEF ApplyRefresh, Applying
<1> DEFINE renewed(p) == [p EXCEPT !.lastPresenceAt = event.issuedAt]
           seats1 == [i \in SeatIds |->
                 IF i \in SeatsOf(event.origin)
                 THEN [seats[i] EXCEPT !.participant.lastPresenceAt = event.issuedAt]
                 ELSE seats[i]]
           queue1 == { IF p.peerId = event.origin THEN renewed(p) ELSE p : p \in queue }
<1>2. Apply(Hall, event) = Refresh(Hall, event)
  BY <1>1, HallParticipants DEF Apply
<1>3. Refresh(Hall, event) =
        [seats |-> seats1, queue |-> queue1,
         cooldownUntil |-> cooldownUntil, messages |-> messages]
  <2>1. PICK h : h = Hall
    OBVIOUS
  <2>2. /\ h \in Halls /\ h.seats = seats /\ h.queue = queue
        /\ h.cooldownUntil = cooldownUntil /\ h.messages = messages
        /\ SeatOf(h, event.origin) = SeatsOf(event.origin)
    BY <2>1, HallType, HallFields
  <2>3. /\ seats1 = [i \in SeatIds |->
                 IF i \in SeatOf(h, event.origin)
                 THEN [h.seats[i] EXCEPT !.participant.lastPresenceAt = event.issuedAt]
                 ELSE h.seats[i]]
        /\ queue1 = { IF p.peerId = event.origin THEN [p EXCEPT !.lastPresenceAt = event.issuedAt]
                      ELSE p : p \in h.queue }
    BY <2>2
  <2> HIDE DEF seats1, queue1
  <2>4. Refresh(h, event) = [seats |-> seats1, queue |-> queue1,
                             cooldownUntil |-> h.cooldownUntil, messages |-> h.messages]
    BY <2>2, <2>3, RefreshParts
  <2>5. QED BY <2>1, <2>2, <2>4
<1>4. CASE SeatsOf(event.origin) # {}
  <2>1. seats' = seats1 /\ queue' = queue
    BY <1>4 DEF ApplyRefresh
  <2>2. \A p \in queue : p.peerId # event.origin
    BY <1>4 DEF OneSpot, SeatsOf
  <2> HIDE DEF renewed
  <2>3. queue1 = queue
    BY <2>2
  <2>4. QED BY <1>1, <1>2, <1>3, <2>1, <2>3 DEF Hall
<1>5. CASE SeatsOf(event.origin) = {}
  <2>1. seats' = seats
        /\ queue' = (queue \ QueuedAs(event.origin)) \cup { renewed(p) : p \in QueuedAs(event.origin) }
    BY <1>5 DEF ApplyRefresh
  <2>2. seats1 = seats
    <3>1. seats1 = [i \in SeatIds |-> seats[i]]
      BY <1>5
    <3>2. QED BY <3>1 DEF TypeOK
  <2> HIDE DEF renewed, seats1
  <2>3. queue1 = queue'
    BY <2>1 DEF QueuedAs
  <2>4. QED BY <1>1, <1>2, <1>3, <2>1, <2>2, <2>3 DEF Hall
<1>6. QED BY <1>1, <1>4, <1>5

LEMMA JoinAdmits ==
    ASSUME TypeOK, Clock, ApplyJoin
    PROVE  Apply(Hall, event) = FillSeats(Hall', fillAt') /\ phase' = "fill" /\ resume' = "next"
<1> DEFINE new == [peerId |-> event.origin, joinedAt |-> event.joinedAt,
                   lastPresenceAt |-> event.issuedAt]
<1>1. /\ phase = "apply" /\ event.kind = "join" /\ ~Participates(event.origin)
      /\ ~Cooling /\ ParticipantCount < Capacity
      /\ queue' = Fresh(queue \cup {new}, event.issuedAt)
      /\ phase' = "fill" /\ fillAt' = event.issuedAt /\ resume' = "next"
      /\ UNCHANGED <<seats, cooldownUntil, messages>>
  BY DEF ApplyJoin, Applying
<1>2. /\ event.origin \in Peers /\ event.issuedAt \in Nat /\ event.joinedAt \in Nat
  BY <1>1, EventApplied
<1>3. Admissible(Hall, event.origin, event.issuedAt)
  <2>1. cooldownUntil[event.origin] \in Nat
    BY <1>2 DEF TypeOK
  <2>2. cooldownUntil[event.origin] <= event.issuedAt
    BY <1>1, <1>2, <2>1 DEF Cooling
  <2>3. QED BY <1>1, <2>2, HallFields DEF Admissible, ParticipantCount
<1>4. Apply(Hall, event) = Admit(Hall, event)
  BY <1>1, <1>3, HallParticipants DEF Apply
<1>5. new \in Participant
  BY <1>2 DEF Participant
<1> HIDE DEF new
<1>6. PICK h : h = Hall
  OBVIOUS
<1>7. PICK g : g = Hall'
  OBVIOUS
<1>8. /\ h \in Halls /\ h.seats = seats /\ h.queue = queue
      /\ h.cooldownUntil = cooldownUntil /\ h.messages = messages
      /\ g.seats = seats' /\ g.queue = queue' /\ g.cooldownUntil = cooldownUntil'
      /\ g.messages = messages'
  BY <1>6, <1>7, HallType, HallFields
<1>9. g \in Halls
  <2>1. TypeOK'
    BY TypeStep DEF Next, Loop
  <2>2. QED BY <1>7, <2>1, HallType
<1>10. /\ g.seats = h.seats /\ g.queue = Fresh(h.queue \cup {new}, event.issuedAt)
       /\ g.cooldownUntil = h.cooldownUntil /\ g.messages = h.messages
  BY <1>1, <1>8
<1>11. Admit(h, event) = FillSeats(g, event.issuedAt)
  BY <1>5, <1>8, <1>9, <1>10, AdmitIs DEF new
<1>12. QED BY <1>1, <1>4, <1>6, <1>7, <1>11

LEMMA PostParts ==
    ASSUME NEW h \in Halls, NEW e, e.origin \in Peers, e.issuedAt \in Nat
    PROVE  Post(h, e) =
             [seats |-> [i \in SeatIds |->
                 IF i \in SeatOf(h, e.origin)
                 THEN [h.seats[i] EXCEPT !.lastSpokeAt = e.issuedAt] ELSE h.seats[i]],
              queue |-> h.queue, cooldownUntil |-> h.cooldownUntil,
              messages |-> Retain(Append(h.messages, [origin |-> e.origin, sentAt |-> e.issuedAt]))]
<1> DEFINE said == Append(h.messages, [origin |-> e.origin, sentAt |-> e.issuedAt])
           surplus == Len(said) - MaxRetainedMessages
           messages1 == IF surplus > 0 THEN SubSeq(said, surplus + 1, Len(said)) ELSE said
           seats1 == [i \in SeatIds |->
              IF i \in SeatOf(h, e.origin)
              THEN [h.seats[i] EXCEPT !.lastSpokeAt = e.issuedAt] ELSE h.seats[i]]
<1>1. PICK g : g = [h EXCEPT !.seats = seats1, !.messages = messages1]
  OBVIOUS
<1>2. Post(h, e) = g
  BY <1>1 DEF Post
<1>3. messages1 = Retain(said)
  <2>1. said \in Seq(Message) /\ MaxRetainedMessages \in Nat
    BY RulesAssumption DEF Halls, Message
  <2> HIDE DEF said
  <2>2. Len(said) \in Nat
    BY <2>1
  <2>3. surplus > 0 <=> ~(Len(said) <= MaxRetainedMessages)
    BY <2>1, <2>2
  <2>4. QED BY <2>3 DEF Retain
<1> HIDE DEF seats1, messages1
<1>4. g = [seats |-> seats1, queue |-> h.queue, cooldownUntil |-> h.cooldownUntil,
           messages |-> messages1]
  BY <1>1 DEF Halls
<1>5. QED BY <1>2, <1>3, <1>4 DEF seats1

LEMMA FloorIsMonologue ==
    \A peer : HasFloor(Hall, peer) <=> Monologue(peer)
BY HallFields DEF HasFloor, Monologue

LEMMA MayPostIsMaySpeak ==
    MayPost(Hall, event) <=> \E i \in SeatIds : MaySpeak(i)
<1>1. \A i : i \in SeatsOf(event.origin) => i \in SeatIds
  BY DEF SeatsOf, Occupied
<1>2. QED BY <1>1, HallFields, FloorIsMonologue DEF MayPost, MaySpeak

LEMMA ChatPosts ==
    ASSUME TypeOK, OneSpot, Clock, ApplyChat
    PROVE  Apply(Hall, event) = Hall' /\ phase' = "next"
<1>1. PICK k \in SeatIds :
         MaySpeak(k) /\ seats' = [seats EXCEPT ![k].lastSpokeAt = event.issuedAt]
  BY DEF ApplyChat
<1>2. /\ phase = "apply" /\ event.kind = "chat" /\ phase' = "next"
      /\ queue' = queue /\ cooldownUntil' = cooldownUntil
      /\ messages' = Retain(Append(messages, [origin |-> event.origin, sentAt |-> event.issuedAt]))
  BY DEF ApplyChat, Applying
<1>3. event.origin \in Peers /\ event.issuedAt \in Nat
  BY <1>2, EventApplied
<1>4. Apply(Hall, event) = Post(Hall, event)
  BY <1>1, <1>2, MayPostIsMaySpeak DEF Apply
<1> DEFINE seats1 == [i \in SeatIds |->
              IF i \in SeatsOf(event.origin)
              THEN [seats[i] EXCEPT !.lastSpokeAt = event.issuedAt] ELSE seats[i]]
<1>5. Post(Hall, event) =
        [seats |-> seats1, queue |-> queue, cooldownUntil |-> cooldownUntil,
         messages |-> Retain(Append(messages, [origin |-> event.origin, sentAt |-> event.issuedAt]))]
  BY <1>3, HallType, HallFields, PostParts
<1>6. seats1 = seats'
  <2>1. SeatsOf(event.origin) = {k}
    BY <1>1 DEF MaySpeak, SeatsOf, OneSpot
  <2>2. seats' = [i \in SeatIds |->
           IF i = k THEN [seats[i] EXCEPT !.lastSpokeAt = event.issuedAt] ELSE seats[i]]
    BY <1>1 DEF TypeOK
  <2>3. QED BY <2>1, <2>2
<1> HIDE DEF seats1
<1>7. QED BY <1>2, <1>4, <1>5, <1>6 DEF Hall

LEMMA SkipsNothing ==
    ASSUME TypeOK, OneSpot, Clock, ApplySkips
    PROVE  Apply(Hall, event) = Hall /\ Hall' = Hall /\ phase = "apply" /\ phase' = "next"
<1>1. phase = "apply" /\ phase' = "next" /\ Hall' = Hall
  BY DEF ApplySkips, hall, Hall
<1>2. /\ event.origin \in Peers /\ event.issuedAt \in Nat
      /\ event.kind \in {"join", "heartbeat", "leave", "chat", "checkpoint"}
  BY <1>1, EventApplied
<1>3. Participates(event.origin) <=> event.origin \in Participants(Hall)
  BY HallParticipants
<1>4. CASE event.kind \in {"checkpoint", "heartbeat"}
  BY <1>1, <1>3, <1>4 DEF ApplySkips, Apply
<1>5. CASE event.kind = "chat"
  BY <1>1, <1>5, MayPostIsMaySpeak DEF ApplySkips, Apply
<1>6. CASE event.kind = "join"
  <2>1. ~Participates(event.origin) /\ (Cooling \/ ParticipantCount >= Capacity)
    BY <1>6 DEF ApplySkips
  <2>2. cooldownUntil[event.origin] \in Nat
    BY <1>2 DEF TypeOK
  <2>3. ParticipantCount \in Nat /\ Capacity \in Nat
    <3>1. Cardinality(queue) \in Nat /\ Cardinality(Occupied) \in Nat
      BY QueueFinite, OccupiedFinite, FS_CardinalityType
    <3>2. QED BY <3>1, RulesAssumption DEF ParticipantCount
  <2>4. ~(cooldownUntil[event.origin] <= event.issuedAt) \/ ~(ParticipantCount < Capacity)
    BY <1>2, <2>1, <2>2, <2>3 DEF Cooling
  <2>5. ~Admissible(Hall, event.origin, event.issuedAt)
    BY <2>4, HallFields DEF Admissible, ParticipantCount
  <2>6. QED BY <1>1, <1>3, <1>6, <2>1, <2>5 DEF Apply
<1>7. event.kind # "leave"
  BY DEF ApplySkips
<1>8. QED BY <1>2, <1>4, <1>5, <1>6, <1>7, <1>1

-----------------------------------------------------------------------------
(* The inductive invariant of the refinement: what the loops still have to do *)
(* to the hall, in closed form, is what one step does to the hall `base`.     *)
Owed ==
    /\ Settled => base = Hall
    /\ phase = "advance" => Advance(Hall, target) = Advance(base, target)
    /\ phase = "fill" /\ resume = "advance" =>
         Advance(FillSeats(Hall, fillAt), target) = Advance(base, target)
    /\ phase = "apply" => Hall = Advance(base, event.issuedAt)
    /\ phase = "fill" /\ resume = "next" => FillSeats(Hall, fillAt) = Step(base, event)

NotBefore(e, f) == e.issuedAt > f.issuedAt \/ (e.issuedAt = f.issuedAt /\ e.origin >= f.origin)

(* and the event under way, or the end of the log, may come next.             *)
Upcoming ==
    /\ phase \in {"advance", "fill"} /\ event = NoEvent => target \in EventTimes
    /\ phase = "next" => baseEvent = IF event = NoEvent THEN None ELSE event
    /\ phase \in {"advance", "fill", "apply"} /\ event # NoEvent /\ baseEvent # None =>
         NotBefore(event, baseEvent)

Follows == Owed /\ Upcoming

LEMMA PhaseType ==
    ASSUME TypeOK
    PROVE  /\ phase \in {"next", "advance", "apply", "fill", "returned"}
           /\ resume \in {"next", "advance"}
           /\ event = NoEvent \/ event \in Events
BY DEF TypeOK

LEMMA EventPicked ==
    ASSUME IInv, Follows, NextH,
           \/ \E e \in Events : NextEvent(e)
           \/ \E now \in EventTimes : Finish(now)
    PROVE  Follows' /\ UNCHANGED Log!vars
<1>1. ASSUME NEW e \in Events, NextEvent(e) PROVE Follows' /\ UNCHANGED Log!vars
  <2>1. /\ phase = "next" /\ phase' = "advance" /\ event' = e /\ target' = e.issuedAt
        /\ event = NoEvent \/ NotBefore(e, event)
        /\ Hall' = Hall
    BY <1>1 DEF NextEvent, NotBefore, hall, Hall
  <2>2. base' = base /\ baseEvent' = baseEvent /\ base = Hall
    BY <2>1 DEF NextH, Follows, Owed, Settled
  <2>3. baseEvent # None => NotBefore(e, baseEvent)
    BY <2>1 DEF Follows, Upcoming
  <2>4. e # NoEvent
    BY EventFields
  <2>5. Owed'
    BY <2>1, <2>2 DEF Owed, Settled
  <2>6. Upcoming'
    BY <2>1, <2>2, <2>3, <2>4 DEF Upcoming
  <2>7. QED BY <2>1, <2>2, <2>5, <2>6 DEF Follows, Log!vars
<1>2. ASSUME NEW now \in EventTimes, Finish(now) PROVE Follows' /\ UNCHANGED Log!vars
  <2>1. /\ phase = "next" /\ phase' = "advance" /\ event' = NoEvent /\ target' = now
        /\ Hall' = Hall
    BY <1>2 DEF Finish, hall, Hall
  <2>2. base' = base /\ baseEvent' = baseEvent /\ base = Hall
    BY <2>1 DEF NextH, Follows, Owed, Settled
  <2>3. Owed'
    BY <2>1, <2>2 DEF Owed, Settled
  <2>4. Upcoming'
    BY <2>1, <2>2 DEF Upcoming
  <2>5. QED BY <2>1, <2>2, <2>3, <2>4 DEF Follows, Log!vars
<1>3. QED BY <1>1, <1>2

LEMMA TurnFollows ==
    ASSUME IInv, Follows, NextH,
           \/ \E i \in SeatIds : ExpireSeat(i)
           \/ \E p \in queue : ExpireQueued(p)
    PROVE  Follows' /\ UNCHANGED Log!vars
<1>1. /\ Advance(Hall, target) = Advance(FillSeats(Hall', fillAt'), target)
      /\ phase = "advance" /\ phase' = "fill" /\ resume' = "advance"
      /\ target' = target /\ event' = event
  BY TurnTaken DEF IInv
<1>2. base' = base /\ baseEvent' = baseEvent
  BY <1>1 DEF NextH
<1>3. Advance(Hall, target) = Advance(base, target)
  BY <1>1 DEF Follows, Owed
<1>4. Owed'
  BY <1>1, <1>2, <1>3 DEF Owed, Settled
<1>5. Upcoming'
  BY <1>1, <1>2 DEF Follows, Upcoming
<1>6. QED BY <1>1, <1>2, <1>4, <1>5 DEF Follows, Log!vars

LEMMA SeatingFollows ==
    ASSUME IInv, Follows, NextH, FillSeat
    PROVE  Follows' /\ UNCHANGED Log!vars
<1>1. FillSeats(Hall', fillAt) = FillSeats(Hall, fillAt)
  BY SeatFilled DEF IInv
<1>2. /\ phase = "fill" /\ phase' = "fill" /\ resume' = resume /\ target' = target
      /\ event' = event /\ fillAt' = fillAt
  BY DEF FillSeat, control
<1>3. base' = base /\ baseEvent' = baseEvent
  BY <1>2 DEF NextH
<1>4. Owed'
  BY <1>1, <1>2, <1>3 DEF Follows, Owed, Settled
<1>5. Upcoming'
  BY <1>2, <1>3 DEF Follows, Upcoming
<1>6. QED BY <1>2, <1>3, <1>4, <1>5 DEF Follows, Log!vars

(* An event has had its effect: one step of the specification. *)
LEMMA EventReflected ==
    ASSUME IInv, Follows, NextH, phase \in {"apply", "fill"}, phase' = "next",
           event \in Events, event' = event, Hall' = Step(base, event)
    PROVE  Follows' /\ Log!Next
<1>1. base' = Hall' /\ baseEvent' = event /\ event # NoEvent
  BY EventFields DEF NextH
<1>2. baseEvent # None => NotBefore(event, baseEvent)
  BY <1>1 DEF Follows, Upcoming
<1>3. Log!Reflect(event)
  BY <1>1, <1>2 DEF Log!Reflect, NotBefore
<1>4. Owed' /\ Upcoming'
  BY <1>1 DEF Owed, Upcoming, Settled
<1>5. QED BY <1>3, <1>4 DEF Follows, Log!Next

LEMMA ReturnFollows ==
    ASSUME IInv, Follows, NextH, AdvanceReturns
    PROVE  Follows' /\ [Log!Next]_Log!vars
<1>1. /\ Advance(Hall, target) = Hall /\ Hall' = Hall
      /\ phase = "advance" /\ event' = event /\ target' = target
      /\ phase' = IF event = NoEvent THEN "returned" ELSE "apply"
  BY AdvanceIsDone DEF IInv, AdvanceReturns
<1>2. Hall = Advance(base, target)
  BY <1>1 DEF Follows, Owed
<1>3. CASE event = NoEvent
  <2>1. phase' = "returned" /\ base' = Hall' /\ baseEvent' = baseEvent
    BY <1>1, <1>3 DEF NextH
  <2>2. target \in EventTimes
    BY <1>1, <1>3 DEF Follows, Upcoming
  <2>3. Log!Return(target)
    BY <1>1, <1>2, <2>1 DEF Log!Return
  <2>4. Owed' /\ Upcoming'
    BY <2>1 DEF Owed, Upcoming, Settled
  <2>5. QED BY <2>2, <2>3, <2>4 DEF Follows, Log!Next
<1>4. CASE event # NoEvent
  <2>1. phase' = "apply" /\ base' = base /\ baseEvent' = baseEvent
    BY <1>1, <1>4 DEF NextH
  <2>2. target = event.issuedAt
    BY <1>4 DEF IInv, Clock
  <2>3. Owed'
    BY <1>1, <1>2, <2>1, <2>2 DEF Owed, Settled
  <2>4. Upcoming'
    BY <1>1, <2>1 DEF Follows, Upcoming
  <2>5. QED BY <1>1, <2>1, <2>3, <2>4 DEF Follows, Log!vars
<1>5. QED BY <1>3, <1>4

LEMMA FillFollows ==
    ASSUME IInv, Follows, NextH, FillReturns
    PROVE  Follows' /\ [Log!Next]_Log!vars
<1>1. /\ FillSeats(Hall, fillAt) = Hall /\ Hall' = Hall
      /\ phase = "fill" /\ phase' = resume /\ event' = event /\ target' = target
  BY FillIsDone DEF IInv, FillReturns
<1>2. CASE resume = "next"
  <2>1. event # NoEvent
    BY <1>1, <1>2 DEF IInv, Clock
  <2>2. event \in Events
    BY <2>1, PhaseType DEF IInv
  <2>3. Hall' = Step(base, event)
    BY <1>1, <1>2 DEF Follows, Owed
  <2>4. QED BY <1>1, <1>2, <2>2, <2>3, EventReflected
<1>3. CASE resume = "advance"
  <2>1. phase' = "advance" /\ base' = base /\ baseEvent' = baseEvent
    BY <1>1, <1>3 DEF NextH
  <2>2. Owed'
    BY <1>1, <1>3, <2>1 DEF Follows, Owed, Settled
  <2>3. Upcoming'
    BY <1>1, <2>1 DEF Follows, Upcoming
  <2>4. QED BY <1>1, <2>1, <2>2, <2>3 DEF Follows, Log!vars
<1>4. QED BY <1>2, <1>3, PhaseType DEF IInv

LEMMA ApplyFollows ==
    ASSUME IInv, Follows, NextH,
           ApplyLeave \/ ApplyRefresh \/ ApplyJoin \/ ApplyChat \/ ApplySkips
    PROVE  Follows' /\ [Log!Next]_Log!vars
<1>1. phase = "apply" /\ event' = event /\ target' = target
  BY DEF ApplyLeave, ApplyRefresh, ApplyJoin, ApplyChat, ApplySkips, Applying, RemoveParticipant
<1>2. event \in Events /\ event # NoEvent
  BY <1>1, EventApplied DEF IInv
<1>3. Step(base, event) = Apply(Hall, event)
  BY <1>1 DEF Follows, Owed, Step
<1>4. CASE ApplyRefresh \/ ApplyChat \/ ApplySkips
  <2>1. Apply(Hall, event) = Hall' /\ phase' = "next"
    BY <1>4, PresenceRefreshes, ChatPosts, SkipsNothing DEF IInv
  <2>2. QED BY <1>1, <1>2, <1>3, <2>1, EventReflected
<1>5. CASE ApplyLeave \/ ApplyJoin
  <2>1. Apply(Hall, event) = FillSeats(Hall', fillAt') /\ phase' = "fill" /\ resume' = "next"
    BY <1>5, LeaveReleases, JoinAdmits DEF IInv
  <2>2. base' = base /\ baseEvent' = baseEvent
    BY <2>1 DEF NextH
  <2>3. Owed'
    BY <1>1, <1>3, <2>1, <2>2 DEF Owed, Settled
  <2>4. Upcoming'
    BY <1>1, <1>2, <2>1, <2>2 DEF Follows, Upcoming
  <2>5. QED BY <1>1, <2>1, <2>2, <2>3, <2>4 DEF Follows, Log!vars
<1>6. QED BY <1>4, <1>5

LEMMA StepFollows ==
    ASSUME IInv, Follows, [NextH]_<<vars, base, baseEvent>>
    PROVE  Follows' /\ [Log!Next]_Log!vars
<1>1. CASE UNCHANGED <<vars, base, baseEvent>>
  <2>1. Hall' = Hall
    BY <1>1 DEF vars, hall, Hall
  <2>2. /\ phase' = phase /\ event' = event /\ target' = target /\ fillAt' = fillAt
        /\ resume' = resume /\ base' = base /\ baseEvent' = baseEvent
    BY <1>1 DEF vars, control
  <2>3. Owed' /\ Upcoming'
    BY <2>1, <2>2 DEF Follows, Owed, Upcoming, Settled
  <2>4. QED BY <2>2, <2>3 DEF Follows, Log!vars
<1>2. CASE NextH /\ Returned
  <2>1. Hall' = Hall
    BY <1>2 DEF Returned, vars, hall, Hall
  <2>2. /\ phase = "returned" /\ phase' = "returned"
    BY <1>2 DEF Returned, vars, control
  <2>3. base' = base /\ baseEvent' = baseEvent /\ base' = Hall'
    BY <1>2, <2>1, <2>2 DEF NextH, Follows, Owed, Settled
  <2>4. Owed' /\ Upcoming'
    BY <2>2, <2>3 DEF Owed, Upcoming, Settled
  <2>5. QED BY <2>2, <2>3, <2>4 DEF Follows, Log!vars
<1>3. CASE NextH /\ ~Returned
  BY <1>3, EventPicked, TurnFollows, SeatingFollows, ReturnFollows, FillFollows, ApplyFollows
  DEF NextH, Next, Loop
<1>4. QED BY <1>1, <1>2, <1>3

(* Whatever the log and the rules, the loops of derive() change the hall one  *)
(* event at a time, as the closed form says; what it returns is the closed    *)
(* form at the time asked for (room-events.ts:217-325).                       *)
THEOREM DeriveRefinesLog == SpecH => ReplaysLikeDerive
<1>1. InitH => Follows /\ Log!Init
  <2> SUFFICES ASSUME InitH PROVE Follows /\ Log!Init
    OBVIOUS
  <2>1. Hall = EmptyHall
    BY DEF InitH, Init, Hall, EmptyHall
  <2>2. phase = "next" /\ event = NoEvent /\ base = Hall /\ baseEvent = None
    BY DEF InitH, Init
  <2>3. QED BY <2>1, <2>2 DEF Follows, Owed, Upcoming, Settled, Log!Init
<1>2. InitH => Init
  BY DEF InitH
<1>3. [NextH]_<<vars, base, baseEvent>> => [Next]_vars
  BY DEF NextH
<1>4. IInv /\ Follows /\ [NextH]_<<vars, base, baseEvent>> => Follows' /\ [Log!Next]_Log!vars
  BY StepFollows
<1>5. QED
  BY <1>1, <1>2, <1>3, <1>4, Invariance, PTL DEF SpecH, Spec, ReplaysLikeDerive, Log!Spec
=============================================================================
