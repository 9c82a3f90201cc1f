------------------------------ MODULE HallReplay -----------------------------
(***************************************************************************)
(* derive() of room-events.ts, loop by loop: the hall (eight seats, a      *)
(* queue, cooldowns, the retained messages) computed by replaying a signed *)
(* event log in eventOrder.  The log is any log in that order: each turn   *)
(* of the outer loop picks the next event.  Between two events `advance`   *)
(* expires what is overdue, one participant per turn of its loop, and each *)
(* removal or admission ends in `fillSeats`, one seat per turn.            *)
(*                                                                         *)
(* The array `queue` is a set of participant records: the code sorts it    *)
(* after its only insertion and only ever filters or shifts it, so that    *)
(* the array is this set in the order Before.                              *)
(***************************************************************************)
EXTENDS HallRules, Sequences

CONSTANTS
    EventTimes    \* the times at which events are issued: Nat, or a bound for TLC

ASSUME TimesAssumption == EventTimes \subseteq Nat

VARIABLES
    \* the DerivedHall that derive() returns
    seats, queue, cooldownUntil, messages,
    \* control: the phase, the event being applied, the target of advance,
    \* the time argument of fillSeats and the phase it returns to
    phase, event, target, fillAt, resume

hall == <<seats, queue, cooldownUntil, messages>>
control == <<phase, event, target, fillAt, resume>>
vars == <<hall, control>>

(* What verifyRoomEvent lets through: a join says when it joined, at most    *)
(* JoinBackdateMs before it was issued; for other kinds joinedAt is unread.   *)
Events ==
    { e \in [origin : Peers, issuedAt : EventTimes, joinedAt : EventTimes,
             kind : {"join", "heartbeat", "leave", "chat", "checkpoint"}] :
        IF e.kind = "join" THEN e.joinedAt \in JoinTimes(e.issuedAt)
                           ELSE e.joinedAt = e.issuedAt }

-----------------------------------------------------------------------------
Occupied == { i \in SeatIds : seats[i] # None }
Free == SeatIds \ Occupied
SeatsOf(peer) == { i \in Occupied : seats[i].participant.peerId = peer }
QueuedAs(peer) == { p \in queue : p.peerId = peer }
(* Mutant of Participates: a lookup that forgets the queue                  *)
ParticipatesSeatedOnly(peer) == SeatsOf(peer) # {}

Participates(peer) == SeatsOf(peer) # {} \/ QueuedAs(peer) # {}

NoEvent == [origin |-> None, issuedAt |-> 0, kind |-> "none", joinedAt |-> 0]

(* Mutant of Init: cooldownUntil.get(...) without its default of 0           *)
InitWithoutDefault ==
    /\ seats = [i \in SeatIds |-> None]
    /\ queue = {}
    /\ cooldownUntil = [p \in Peers |-> None]
    /\ messages = <<>>
    /\ phase = "next"
    /\ event = NoEvent
    /\ target = 0
    /\ fillAt = 0
    /\ resume = "next"

Init ==
    /\ seats = [i \in SeatIds |-> None]
    /\ queue = {}
    /\ cooldownUntil = [p \in Peers |-> 0]
    /\ messages = <<>>
    /\ phase = "next"
    /\ event = NoEvent
    /\ target = 0
    /\ fillAt = 0
    /\ resume = "next"

-----------------------------------------------------------------------------
(* for (const event of [...events].sort(eventOrder)): the next event is not *)
(* before the previous one; sequence numbers order the events of one origin *)
(* at one instant, in any way.                                              *)
NextEvent(e) ==
    /\ phase = "next"
    /\ \/ event = NoEvent
       \/ e.issuedAt > event.issuedAt
       \/ e.issuedAt = event.issuedAt /\ e.origin >= event.origin
    /\ event' = e
    /\ target' = e.issuedAt
    /\ phase' = "advance"
    /\ UNCHANGED <<hall, fillAt, resume>>

(* The log is exhausted: advance(state, now).  A clock behind the last      *)
(* event (issuedAt may lie in the future) simply expires nothing.           *)
Finish(now) ==
    /\ phase = "next"
    /\ event' = NoEvent
    /\ target' = now
    /\ phase' = "advance"
    /\ UNCHANGED <<hall, fillAt, resume>>

(* Mutant of RemoveParticipant: on expiry the seat is not cleared            *)
RemoveParticipantKeepsSeat(peer, at, cooldown, next) ==
    /\ seats' = [i \in SeatIds |->
                   IF i \in SeatsOf(peer) /\ ~cooldown THEN None ELSE seats[i]]
    /\ queue' = Fresh(queue \ QueuedAs(peer), at)
    /\ cooldownUntil' =
         IF SeatsOf(peer) # {} /\ cooldown
         THEN [cooldownUntil EXCEPT ![peer] = at + CooldownMs]
         ELSE cooldownUntil
    /\ phase' = "fill"
    /\ fillAt' = at
    /\ resume' = next
    /\ UNCHANGED <<messages, event, target>>

(* Mutant of RemoveParticipant: without the call of fillSeats                *)
RemoveParticipantWithoutFill(peer, at, cooldown, next) ==
    /\ seats' = [i \in SeatIds |-> IF i \in SeatsOf(peer) THEN None ELSE seats[i]]
    /\ queue' = queue \ QueuedAs(peer)
    /\ cooldownUntil' =
         IF SeatsOf(peer) # {} /\ cooldown
         THEN [cooldownUntil EXCEPT ![peer] = at + CooldownMs]
         ELSE cooldownUntil
    /\ phase' = next
    /\ UNCHANGED <<messages, event, target, fillAt, resume>>

(* removeParticipant up to its call of fillSeats, whose first statement     *)
(* filters the queue                                                        *)
RemoveParticipant(peer, at, cooldown, next) ==
    /\ seats' = [i \in SeatIds |-> IF i \in SeatsOf(peer) THEN None ELSE seats[i]]
    /\ queue' = Fresh(queue \ QueuedAs(peer), at)
    /\ cooldownUntil' =
         IF SeatsOf(peer) # {} /\ cooldown
         THEN [cooldownUntil EXCEPT ![peer] = at + CooldownMs]
         ELSE cooldownUntil
    /\ phase' = "fill"
    /\ fillAt' = at
    /\ resume' = next
    /\ UNCHANGED <<messages, event, target>>

(* Mutant of ExpireSeat: at <= next.at, which keeps the last of equals       *)
ExpireSeatLastOfEquals(i) ==
    /\ phase = "advance"
    /\ i \in Occupied
    /\ SeatExpiry(seats[i]) <= target
    /\ \A j \in Occupied :
         /\ SeatExpiry(seats[i]) <= SeatExpiry(seats[j])
         /\ j > i => SeatExpiry(seats[i]) < SeatExpiry(seats[j])
    /\ \A p \in queue : SeatExpiry(seats[i]) <= QueueExpiry(p)
    /\ RemoveParticipant(seats[i].participant.peerId, SeatExpiry(seats[i]), TRUE, "advance")

(* One turn of advance: seat i is the first to expire.  nextExpiry keeps    *)
(* the first of equals, seats in index order before the queue.              *)
ExpireSeat(i) ==
    /\ phase = "advance"
    /\ i \in Occupied
    /\ SeatExpiry(seats[i]) <= target
    /\ \A j \in Occupied :
         /\ SeatExpiry(seats[i]) <= SeatExpiry(seats[j])
         /\ j < i => SeatExpiry(seats[i]) < SeatExpiry(seats[j])
    /\ \A p \in queue : SeatExpiry(seats[i]) <= QueueExpiry(p)
    /\ RemoveParticipant(seats[i].participant.peerId, SeatExpiry(seats[i]), TRUE, "advance")

(* One turn of advance: queue member p expires strictly before every seat   *)
ExpireQueued(p) ==
    /\ phase = "advance"
    /\ p \in queue
    /\ QueueExpiry(p) <= target
    /\ \A j \in Occupied : QueueExpiry(p) < SeatExpiry(seats[j])
    /\ \A other \in queue :
         /\ QueueExpiry(p) <= QueueExpiry(other)
         /\ Before(other, p) => QueueExpiry(p) < QueueExpiry(other)
    /\ RemoveParticipant(p.peerId, QueueExpiry(p), FALSE, "advance")

NothingDue ==
    /\ \A i \in Occupied : SeatExpiry(seats[i]) > target
    /\ \A p \in queue : QueueExpiry(p) > target

(* Mutant of AdvanceReturns: nextExpiry without its loop over the queue      *)
AdvanceReturnsQueueUnread ==
    /\ phase = "advance"
    /\ \A i \in Occupied : SeatExpiry(seats[i]) > target
    /\ phase' = IF event = NoEvent THEN "returned" ELSE "apply"
    /\ UNCHANGED <<hall, event, target, fillAt, resume>>

AdvanceReturns ==
    /\ phase = "advance"
    /\ NothingDue
    /\ phase' = IF event = NoEvent THEN "returned" ELSE "apply"
    /\ UNCHANGED <<hall, event, target, fillAt, resume>>

(* One turn of fillSeats: the head of the queue takes the lowest free seat  *)
FillSeat ==
    /\ phase = "fill"
    /\ \E i \in Free, head \in queue :
         /\ \A j \in Free : i <= j
         /\ \A p \in queue : ~Before(p, head)
         /\ seats' = [seats EXCEPT ![i] =
                        [participant |-> head, seatedAt |-> fillAt, lastSpokeAt |-> None]]
         /\ queue' = queue \ {head}
    /\ UNCHANGED <<cooldownUntil, messages, control>>

FillReturns ==
    /\ phase = "fill"
    /\ Free = {} \/ queue = {}
    /\ phase' = resume
    /\ fillAt' = 0
    /\ resume' = "next"
    /\ UNCHANGED <<hall, event, target>>

-----------------------------------------------------------------------------
(* The body of the loop, once advance(state, event.issuedAt) has returned   *)
Applying(kinds) == phase = "apply" /\ event.kind \in kinds

ApplyLeave ==
    /\ Applying({"leave"})
    /\ RemoveParticipant(event.origin, event.issuedAt, FALSE, "next")

(* join or heartbeat of a participant: only lastPresenceAt changes          *)
ApplyRefresh ==
    /\ Applying({"join", "heartbeat"})
    /\ Participates(event.origin)
    /\ IF SeatsOf(event.origin) # {}
       THEN /\ seats' = [i \in SeatIds |->
                 IF i \in SeatsOf(event.origin)
                 THEN [seats[i] EXCEPT !.participant.lastPresenceAt = event.issuedAt]
                 ELSE seats[i]]
            /\ UNCHANGED queue
       ELSE /\ queue' = (queue \ QueuedAs(event.origin))
                 \cup { [p EXCEPT !.lastPresenceAt = event.issuedAt] : p \in QueuedAs(event.origin) }
            /\ UNCHANGED seats
    /\ phase' = "next"
    /\ UNCHANGED <<cooldownUntil, messages, event, target, fillAt, resume>>

(* Mutants of Cooling, over as soon as it starts, and of ParticipantCount,   *)
(* without the seats                                                         *)
CoolingSinceUntil == cooldownUntil[event.origin] - CooldownMs > event.issuedAt
QueueCount == Cardinality(queue)

Cooling == cooldownUntil[event.origin] > event.issuedAt
ParticipantCount == Cardinality(queue) + Cardinality(Occupied)

ApplyJoin ==
    /\ Applying({"join"})
    /\ ~Participates(event.origin)
    /\ ~Cooling
    /\ ParticipantCount < Capacity
    /\ queue' = Fresh(queue \cup {[peerId |-> event.origin, joinedAt |-> event.joinedAt,
                                   lastPresenceAt |-> event.issuedAt]}, event.issuedAt)
    /\ phase' = "fill"
    /\ fillAt' = event.issuedAt
    /\ resume' = "next"
    /\ UNCHANGED <<seats, cooldownUntil, messages, event, target>>

(* Mutant of Monologue: slice(-(maxConsecutiveMessages + 1))                 *)
MonologueTooLong(peer) ==
    /\ Len(messages) > MaxConsecutive
    /\ \A k \in (Len(messages) - MaxConsecutive) .. Len(messages) :
         messages[k].origin = peer

(* messages.slice(-maxConsecutiveMessages), all by the origin               *)
Monologue(peer) ==
    /\ Len(messages) >= MaxConsecutive
    /\ \A k \in (Len(messages) - MaxConsecutive + 1) .. Len(messages) :
         messages[k].origin = peer

MaySpeak(i) ==
    /\ i \in SeatsOf(event.origin)
    /\ seats[i].lastSpokeAt # None => event.issuedAt - seats[i].lastSpokeAt >= SlowModeMs
    /\ ~Monologue(event.origin)

(* push, then shift until at most MAX_RETAINED_MESSAGES are left            *)
Retain(seq) ==
    IF Len(seq) <= MaxRetainedMessages THEN seq
    ELSE SubSeq(seq, Len(seq) - MaxRetainedMessages + 1, Len(seq))

ApplyChat ==
    /\ Applying({"chat"})
    /\ \E i \in SeatIds :
         /\ MaySpeak(i)
         /\ seats' = [seats EXCEPT ![i].lastSpokeAt = event.issuedAt]
    /\ messages' = Retain(Append(messages, [origin |-> event.origin, sentAt |-> event.issuedAt]))
    /\ phase' = "next"
    /\ UNCHANGED <<queue, cooldownUntil, event, target, fillAt, resume>>

(* Every `continue` that leaves the hall as it is                           *)
ApplySkips ==
    /\ phase = "apply"
    /\ \/ event.kind = "checkpoint"
       \/ event.kind = "heartbeat" /\ ~Participates(event.origin)
       \/ /\ event.kind = "join" /\ ~Participates(event.origin)
          /\ Cooling \/ ParticipantCount >= Capacity
       \/ event.kind = "chat" /\ ~\E i \in SeatIds : MaySpeak(i)
    /\ phase' = "next"
    /\ UNCHANGED <<hall, event, target, fillAt, resume>>

(* derive() has returned; a snapshot starts over from an empty hall          *)
Returned == phase = "returned" /\ UNCHANGED vars

-----------------------------------------------------------------------------
Loop ==
    \/ \E i \in SeatIds : ExpireSeat(i)
    \/ \E p \in queue : ExpireQueued(p)
    \/ AdvanceReturns
    \/ FillSeat
    \/ FillReturns
    \/ ApplyLeave
    \/ ApplyRefresh
    \/ ApplyJoin
    \/ ApplyChat
    \/ ApplySkips

Next ==
    \/ \E e \in Events : NextEvent(e)
    \/ \E now \in EventTimes : Finish(now)
    \/ Loop
    \/ Returned

Spec == Init /\ [][Next]_vars

(* derive() is synchronous: once called, its loops run without interruption *)
FairSpec == Spec /\ WF_vars(Loop)

-----------------------------------------------------------------------------
(* Type invariant *)
TypeOK ==
    /\ seats \in [SeatIds -> Seat \cup {None}]
    /\ queue \in SUBSET Participant
    /\ cooldownUntil \in [Peers -> Nat]
    /\ messages \in Seq(Message)
    /\ phase \in {"next", "advance", "apply", "fill", "returned"}
    /\ event \in Events \cup {NoEvent}
    /\ target \in Nat
    /\ fillAt \in Nat
    /\ resume \in {"next", "advance"}

(* A peer is in one place: never in two seats, in a seat and the queue, or   *)
(* twice in the queue, whatever joins, refreshes and removals came before.   *)
OneSpot ==
    /\ \A i, j \in Occupied :
         seats[i].participant.peerId = seats[j].participant.peerId => i = j
    /\ \A i \in Occupied, p \in queue : seats[i].participant.peerId # p.peerId
    /\ \A p, q \in queue : p.peerId = q.peerId => p = q

(* The hall never holds more than `capacity` participants.                   *)
CapacityRespected == Cardinality(queue) + Cardinality(Occupied) <= Capacity

(* Outside fillSeats nobody waits while a seat is free.                      *)
WorkConserving == phase # "fill" => Free = {} \/ queue = {}

(* Once an event is applied no occupant or queue member is past a deadline   *)
(* at that time: a seat never outlives its lease, its idle limit or the      *)
(* presence of its peer, and a newly filled seat is not already overdue.     *)
NothingOverdue == phase = "next" => NothingDue

(* A seat is only ever given to a peer whose presence had not expired, so    *)
(* that no peer waiting offline is charged a speaking-seat cooldown.         *)
SeatedAlive ==
    \A i \in Occupied : QueueExpiry(seats[i].participant) > seats[i].seatedAt

(* A peer that lost its seat to an expiry stays out for the whole cooldown.  *)
CooldownServed ==
    event # NoEvent => \A p \in Peers : cooldownUntil[p] > target => ~Participates(p)

(* No origin has more than maxConsecutiveMessages retained messages in a row. *)
NoMonologue ==
    \A k \in 1 .. (Len(messages) - MaxConsecutive) :
        \E l \in (k + 1) .. (k + MaxConsecutive) : messages[l].origin # messages[k].origin

(* Slow mode: while a peer holds a seat, its messages from that seat are     *)
(* slowModeMs apart.                                                         *)
SlowModeKept ==
    \A i \in Occupied : \A k, l \in 1 .. Len(messages) :
        /\ k < l
        /\ messages[k].origin = seats[i].participant.peerId
        /\ messages[l].origin = seats[i].participant.peerId
        /\ messages[k].sentAt > seats[i].seatedAt
        => messages[l].sentAt - messages[k].sentAt >= SlowModeMs

(* The for(;;) loop of advance returns: every turn removes a participant.    *)
AdvanceTerminates == phase = "advance" ~> phase \in {"apply", "returned"}
=============================================================================
