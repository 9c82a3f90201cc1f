------------------------------ MODULE HallDerive -----------------------------
(***************************************************************************)
(* derive() of room-events.ts as a pure function of an event log and a     *)
(* time: what a snapshot, an admission check or a checkpoint is computed   *)
(* from.  HallReplay is the same algorithm loop by loop; here every loop   *)
(* is one value: fillSeats matches the free seats with the waiting peers   *)
(* by rank, and advance and the loop over the log are recursive functions. *)
(*                                                                         *)
(* A hall is a record [seats, queue, cooldownUntil, messages]; an event a  *)
(* record with at least origin, sequence, issuedAt, kind, joinedAt.        *)
(***************************************************************************)
EXTENDS HallRules, Sequences

Halls ==
    [seats : [SeatIds -> Seat \cup {None}], queue : SUBSET Participant,
     cooldownUntil : [Peers -> Nat], messages : Seq(Message)]

EmptyHall ==
    [seats |-> [i \in SeatIds |-> None], queue |-> {},
     cooldownUntil |-> [p \in Peers |-> 0], messages |-> <<>>]

TakenSeats(hall) == { i \in SeatIds : hall.seats[i] # None }
FreeSeats(hall) == SeatIds \ TakenSeats(hall)
SeatOf(hall, peer) == { i \in TakenSeats(hall) : hall.seats[i].participant.peerId = peer }
InQueue(hall, peer) == { p \in hall.queue : p.peerId = peer }
Participants(hall) ==
    { hall.seats[i].participant.peerId : i \in TakenSeats(hall) }
        \cup { p.peerId : p \in hall.queue }

(* The k-th free seat goes to the k-th of the queue                          *)
FillSeats(hall, at) ==
    LET waiting == Fresh(hall.queue, at)
        free == FreeSeats(hall)
        Place(p) == Cardinality({ q \in waiting : Before(q, p) })
        Rank(i) == Cardinality({ j \in free : j < i })
        Takers(i) == { p \in waiting : Place(p) = Rank(i) }
    IN [hall EXCEPT
          !.seats = [i \in SeatIds |->
              IF i \in free /\ Takers(i) # {}
              THEN [participant |-> CHOOSE p \in Takers(i) : TRUE,
                    seatedAt |-> at, lastSpokeAt |-> None]
              ELSE hall.seats[i]],
          !.queue = { p \in waiting : Place(p) >= Cardinality(free) }]

Release(hall, peer, at, cooldown) ==
    FillSeats(
        [hall EXCEPT
           !.seats = [i \in SeatIds |-> IF i \in SeatOf(hall, peer) THEN None ELSE hall.seats[i]],
           !.queue = hall.queue \ InQueue(hall, peer),
           !.cooldownUntil =
               IF SeatOf(hall, peer) # {} /\ cooldown THEN [@ EXCEPT ![peer] = at + CooldownMs] ELSE @],
        at)

(* nextExpiry: the earliest deadline, seats before the queue                 *)
SeatExpiries(hall) ==
    { [at |-> SeatExpiry(hall.seats[i]), peerId |-> hall.seats[i].participant.peerId,
       cooldown |-> TRUE, place |-> <<0, i>>] : i \in TakenSeats(hall) }
QueueExpiries(hall) ==
    { [at |-> QueueExpiry(p), peerId |-> p.peerId,
       cooldown |-> FALSE, place |-> <<p.joinedAt + 1, p.peerId>>] : p \in hall.queue }

Sooner(x, y) ==
    \/ x.at < y.at
    \/ x.at = y.at /\ x.place[1] < y.place[1]
    \/ x.at = y.at /\ x.place[1] = y.place[1] /\ x.place[2] < y.place[2]

Due(hall, time) ==
    { x \in SeatExpiries(hall) \cup QueueExpiries(hall) : x.at <= time }

(* for (;;) in advance                                                       *)
Advance(hall, time) ==
    LET turn[h \in Halls] ==
          LET next == CHOOSE x \in Due(h, time) : \A y \in Due(h, time) : ~Sooner(y, x)
          IN IF Due(h, time) = {} THEN h
             ELSE turn[Release(h, next.peerId, next.at, next.cooldown)]
    IN turn[hall]

(* A presence event of a participant renews lastPresenceAt                   *)
Refresh(hall, e) ==
    [hall EXCEPT
       !.seats = [i \in SeatIds |->
           IF i \in SeatOf(hall, e.origin)
           THEN [hall.seats[i] EXCEPT !.participant.lastPresenceAt = e.issuedAt]
           ELSE hall.seats[i]],
       !.queue = { IF p.peerId = e.origin THEN [p EXCEPT !.lastPresenceAt = e.issuedAt] ELSE p
                   : p \in hall.queue }]

Admissible(hall, peer, at) ==
    /\ hall.cooldownUntil[peer] <= at
    /\ Cardinality(hall.queue) + Cardinality(TakenSeats(hall)) < Capacity

Admit(hall, e) ==
    FillSeats(
        [hall EXCEPT !.queue = @ \cup
           {[peerId |-> e.origin, joinedAt |-> e.joinedAt, lastPresenceAt |-> e.issuedAt]}],
        e.issuedAt)

(* Own messages among the last maxConsecutiveMessages                        *)
HasFloor(hall, peer) ==
    LET n == Len(hall.messages)
    IN n >= MaxConsecutive /\
       \A k \in (n - MaxConsecutive + 1) .. n : hall.messages[k].origin = peer

MayPost(hall, e) ==
    /\ \E i \in SeatOf(hall, e.origin) :
         hall.seats[i].lastSpokeAt # None
            => e.issuedAt - hall.seats[i].lastSpokeAt >= SlowModeMs
    /\ ~HasFloor(hall, e.origin)

Post(hall, e) ==
    LET said == Append(hall.messages, [origin |-> e.origin, sentAt |-> e.issuedAt])
        surplus == Len(said) - MaxRetainedMessages
    IN [hall EXCEPT
          !.seats = [i \in SeatIds |->
              IF i \in SeatOf(hall, e.origin)
              THEN [hall.seats[i] EXCEPT !.lastSpokeAt = e.issuedAt] ELSE hall.seats[i]],
          !.messages = IF surplus > 0 THEN SubSeq(said, surplus + 1, Len(said)) ELSE said]

(* The body of the loop over the events                                      *)
Apply(hall, e) ==
    CASE e.kind = "leave" -> Release(hall, e.origin, e.issuedAt, FALSE)
      [] e.kind \in {"join", "heartbeat"} /\ e.origin \in Participants(hall) -> Refresh(hall, e)
      [] e.kind = "join" /\ e.origin \notin Participants(hall)
            /\ Admissible(hall, e.origin, e.issuedAt) -> Admit(hall, e)
      [] e.kind = "chat" /\ MayPost(hall, e) -> Post(hall, e)
      [] OTHER -> hall

Step(hall, e) == Apply(Advance(hall, e.issuedAt), e)

(* eventOrder: issuedAt, then origin, then sequence                          *)
Earlier(e, f) ==
    \/ e.issuedAt < f.issuedAt
    \/ e.issuedAt = f.issuedAt /\ e.origin < f.origin
    \/ e.issuedAt = f.issuedAt /\ e.origin = f.origin /\ e.sequence < f.sequence

(* The loop over the sorted log: the hall after the last event of those seen  *)
Replay(events) ==
    LET after[seen \in SUBSET events] ==
          LET last == CHOOSE e \in seen : \A f \in seen \ {e} : Earlier(f, e)
          IN IF seen = {} THEN EmptyHall ELSE Step(after[seen \ {last}], last)
    IN after[events]

Derive(events, now) == Advance(Replay(events), now)
=============================================================================
