------------------------------ MODULE HallRules ------------------------------
(***************************************************************************)
(* The constants of the lobby hall and the records it is derived from:     *)
(* NETWORK_HALL_RULES, the retention limits of room-events.ts, and the     *)
(* participant, seat and event records.  Everything here is constant-level *)
(* and shared by the modules that replay, store and exchange events.       *)
(*                                                                         *)
(* A peer id is a natural number: the numbers are the peer ids in their    *)
(* localeCompare order, the only relation the code asks of two ids.        *)
(* A profile (name, avatar) is left out: no rule of the hall reads it.     *)
(* Times are ticks of one common unit, the Date.now() of the code.         *)
(***************************************************************************)
EXTENDS Integers, FiniteSets

CONSTANTS
    Peers,               \* peer ids, numbered in localeCompare order
    SeatCount,           \* speaking seats                              (8)
    Capacity,            \* participants, seated or queued            (500)
    IdleMs,              \* a silent seat is released after         (2 min)
    MaxLeaseMs,          \* any seat is released after              (5 min)
    CooldownMs,          \* wait after losing a seat to expiry     (10 min)
    SlowModeMs,          \* gap between two messages of one seat      (8 s)
    MaxConsecutive,      \* messages in a row from one origin           (2)
    PresenceTtlMs,       \* a participant not heard of is dropped   (2 min)
    MaxRetainedMessages, \* derived messages kept                     (200)
    JoinBackdateMs,      \* how far joinedAt may trail issuedAt      (10 s)
    None                 \* null and undefined

SeatIds == 1 .. SeatCount

Participant == [peerId : Peers, joinedAt : Nat, lastPresenceAt : Nat]

Seat == [participant : Participant, seatedAt : Nat, lastSpokeAt : Nat \cup {None}]

Message == [origin : Peers, sentAt : Nat]

(***************************************************************************)
(* Every duration is positive and the hall has a seat.  None is not a time *)
(* nor a seat, so that "undefined" and "null" are never mistaken for one.  *)
(***************************************************************************)
ASSUME RulesAssumption ==
    /\ Peers \subseteq Nat
    /\ IsFiniteSet(Peers)
    /\ {SeatCount, IdleMs, MaxLeaseMs, CooldownMs, SlowModeMs, PresenceTtlMs}
           \subseteq Nat \ {0}
    /\ {MaxConsecutive, MaxRetainedMessages} \subseteq Nat \ {0}
    /\ {Capacity, JoinBackdateMs} \subseteq Nat
    /\ None \notin Nat
    /\ None \notin Seat

(* The order of the queue: left.joinedAt - right.joinedAt || localeCompare *)
Before(left, right) ==
    \/ left.joinedAt < right.joinedAt
    \/ left.joinedAt = right.joinedAt /\ left.peerId < right.peerId

(* The earliest of the three deadlines of an occupied seat *)
SeatDeadlines(seat) ==
    { seat.seatedAt + MaxLeaseMs,
      (IF seat.lastSpokeAt = None THEN seat.seatedAt ELSE seat.lastSpokeAt) + IdleMs,
      seat.participant.lastPresenceAt + PresenceTtlMs }

SeatExpiry(seat) ==
    CHOOSE at \in SeatDeadlines(seat) : \A other \in SeatDeadlines(seat) : at <= other

QueueExpiry(participant) == participant.lastPresenceAt + PresenceTtlMs

(* Mutant of Fresh: fillSeats without its filter                             *)
Unfiltered(queue, at) == queue

(* The queue members that fillSeats keeps at time `at` *)
Fresh(queue, at) == { p \in queue : QueueExpiry(p) > at }

(* Joins backdate joinedAt by at most JoinBackdateMs, see assertPayload *)
JoinTimes(issuedAt) == { t \in 0 .. issuedAt : issuedAt - t <= JoinBackdateMs }

=============================================================================
