-------------------------------- MODULE Ledger -------------------------------
(***************************************************************************)
(* RoomEventLedger of room-events.ts: the events one host retains, and the *)
(* indexes that decide which event is accepted next and which is dropped.  *)
(* A ledger is a record, and each method a function of it, so that a host, *)
(* a relay and a set of replicas can all be built from these definitions.  *)
(*                                                                         *)
(*   log             the accepted events, in the order of their acceptance *)
(*   marks           the highest sequence of each origin, least recently   *)
(*                   raised first (the insertion order of the Map)         *)
(*   joinBasis       per origin, its last join; None unless it is active   *)
(*   latestPresence  per origin, its last join or heartbeat                *)
(*   checkpoint      the last accepted checkpoint                          *)
(*   revision        how many events were ever accepted                    *)
(*                                                                         *)
(* seenEventIds and eventById hold exactly the events of the log: all      *)
(* three change together in accept and in prune.  An event is its own id.  *)
(***************************************************************************)
EXTENDS HallDerive, SequencesExt

CONSTANTS
    MaxRetainedEvents,   \* events kept in the log                      (2200)
    MaxTrackedJoins,     \* origins with a join basis                    (750)
    MaxTrackedSequences, \* origins with a sequence mark                (1500)
    MaxClockSkewMs,      \* how far an event may lie in the future      (5 min)
    MaxEventAgeMs,       \* how old an event may be                      (24 h)
    JoinFreshnessMs      \* how old a join may be when gossiped          (30 s)

(***************************************************************************)
(* The limits leave room for everything the log must not lose, and every   *)
(* active origin keeps its mark: 2 * 750 + 200 + 1 < 2200, 750 < 1500.     *)
(***************************************************************************)
ASSUME LimitsAssumption ==
    /\ {MaxRetainedEvents, MaxTrackedJoins, MaxTrackedSequences} \subseteq Nat \ {0}
    /\ 2 * MaxTrackedJoins + MaxRetainedMessages + 1 <= MaxRetainedEvents
    /\ MaxTrackedJoins <= MaxTrackedSequences
    /\ {MaxClockSkewMs, MaxEventAgeMs, JoinFreshnessMs} \subseteq Nat

Presence == {"join", "heartbeat"}

EmptyLedger ==
    [log |-> <<>>, marks |-> <<>>,
     joinBasis |-> [p \in Peers |-> None], latestPresence |-> [p \in Peers |-> None],
     checkpoint |-> None, revision |-> 0]

Logged(ledger) == ToSet(ledger.log)
HasBasis(ledger, peer) == ledger.joinBasis[peer] # None
Tracked(ledger) == { p \in Peers : HasBasis(ledger, p) }
HighWaterMark(ledger, peer) ==
    LET own == { m \in ToSet(ledger.marks) : m.origin = peer }
    IN IF own = {} THEN 0 ELSE (CHOOSE m \in own : TRUE).sequence

HallAt(ledger, now) == Derive(Logged(ledger), now)

-----------------------------------------------------------------------------
(* expirePresenceIndexes: an origin silent for longer than its TTL is no      *)
(* longer active, whatever time `now` is taken from                          *)
Lapsed(ledger, now) ==
    { p \in Peers : /\ ledger.latestPresence[p] # None
                    /\ \/ ledger.latestPresence[p] \notin Logged(ledger)
                       \/ ledger.latestPresence[p].issuedAt < now - PresenceTtlMs }

Forget(ledger, origins) ==
    [ledger EXCEPT
       !.joinBasis = [p \in Peers |-> IF p \in origins THEN None ELSE @[p]],
       !.latestPresence = [p \in Peers |-> IF p \in origins THEN None ELSE @[p]]]

ExpireIndexes(ledger, now) == Forget(ledger, Lapsed(ledger, now))

-----------------------------------------------------------------------------
(* stateHash: equal hashes are equal seats, queue orders and last messages.   *)
(* Of the last 32 messages the model keeps all it retains.                   *)
StateHash(hall) ==
    [seats |-> [i \in SeatIds |-> IF hall.seats[i] = None THEN None
                                  ELSE hall.seats[i].participant.peerId],
     queue |-> { <<p.peerId, Cardinality({ q \in hall.queue : Before(q, p) })>> : p \in hall.queue },
     messages |-> hall.messages]

(* checkpointPayload, its epoch and witnesses left out; None when nobody is   *)
(* in the hall                                                               *)
CheckpointPayload(events, now) ==
    LET hall == Derive(events, now)
        ids == Participants(hall)
    IN IF ids = {} THEN None
       ELSE [steward |-> CHOOSE p \in ids : \A q \in ids : p <= q,
             stateHash |-> StateHash(hall)]

CheckpointIsValid(ledger, e) ==
    \E expected \in {CheckpointPayload(Logged(ledger), e.issuedAt)} :
        expected # None /\ e.origin = expected.steward /\ e.claim = expected

-----------------------------------------------------------------------------
(* verifyRoomEvent, of an event whose fields and signature are good: is it of *)
(* its time?  A direct catch-up may carry an old join (`historical`).        *)
Timely(e, at, historical) ==
    /\ e.issuedAt <= at + MaxClockSkewMs
    /\ e.issuedAt >= at - MaxEventAgeMs \/ (historical /\ e.kind = "join")
    /\ e.kind = "join" /\ ~historical => e.issuedAt >= at - JoinFreshnessMs

-----------------------------------------------------------------------------
(* Mutant of Acceptable: the sequence is not compared                        *)
AcceptableAnySequence(ledger, e) ==
    /\ e.kind # "join" => HasBasis(ledger, e.origin)
    /\ e.kind = "join" /\ ~HasBasis(ledger, e.origin)
           => Cardinality(Tracked(ledger)) < MaxTrackedJoins
    /\ e.kind = "checkpoint" => CheckpointIsValid(ledger, e)

(* The guards of accept, after the indexes were expired at e.issuedAt         *)
Acceptable(ledger, e) ==
    /\ e.kind # "join" => HasBasis(ledger, e.origin)
    /\ e.sequence > HighWaterMark(ledger, e.origin)
    /\ e.kind = "join" /\ ~HasBasis(ledger, e.origin)
           => Cardinality(Tracked(ledger)) < MaxTrackedJoins
    /\ e.kind = "checkpoint" => CheckpointIsValid(ledger, e)

(* Mutant of Indexed: a leave deletes the join basis only                    *)
IndexedLeaveKeepsPresence(ledger, e) ==
    CASE e.kind = "join" -> [ledger EXCEPT !.joinBasis[e.origin] = e,
                                           !.latestPresence[e.origin] = e]
      [] e.kind = "heartbeat" -> [ledger EXCEPT !.latestPresence[e.origin] = e]
      [] e.kind = "leave" -> [ledger EXCEPT !.joinBasis[e.origin] = None]
      [] e.kind = "checkpoint" -> [ledger EXCEPT !.checkpoint = e]
      [] OTHER -> ledger

(* Mutant of Indexed: a heartbeat renews nothing                             *)
IndexedWithoutHeartbeat(ledger, e) ==
    CASE e.kind = "join" -> [ledger EXCEPT !.joinBasis[e.origin] = e,
                                           !.latestPresence[e.origin] = e]
      [] e.kind = "leave" -> Forget(ledger, {e.origin})
      [] e.kind = "checkpoint" -> [ledger EXCEPT !.checkpoint = e]
      [] OTHER -> ledger

Indexed(ledger, e) ==
    CASE e.kind = "join" -> [ledger EXCEPT !.joinBasis[e.origin] = e,
                                           !.latestPresence[e.origin] = e]
      [] e.kind = "heartbeat" -> [ledger EXCEPT !.latestPresence[e.origin] = e]
      [] e.kind = "leave" -> Forget(ledger, {e.origin})
      [] e.kind = "checkpoint" -> [ledger EXCEPT !.checkpoint = e]
      [] OTHER -> ledger

(* The marks without the one of an origin                                    *)
Without(marks, origin) ==
    LET own == { k \in DOMAIN marks : marks[k].origin = origin }
    IN IF own = {} THEN marks ELSE RemoveAt(marks, Min(own))

(* Mutant of Append1: the next sequence expected, off by one                 *)
AppendMarksBelow(ledger, e) ==
    [ledger EXCEPT
       !.log = Append(@, e),
       !.marks = Append(Without(@, e.origin),
                        [origin |-> e.origin, sequence |-> e.sequence - 1]),
       !.revision = @ + 1]

Append1(ledger, e) ==
    [ledger EXCEPT
       !.log = Append(@, e),
       !.marks = Append(Without(@, e.origin),
                        [origin |-> e.origin, sequence |-> e.sequence]),
       !.revision = @ + 1]

(* pruneSequenceOrigins: the size grew by one at most, so that one turn of    *)
(* the loop is enough                                                        *)
PruneMarks(ledger) ==
    LET inactive == { k \in DOMAIN ledger.marks : ~HasBasis(ledger, ledger.marks[k].origin) }
    IN IF Len(ledger.marks) <= MaxTrackedSequences \/ inactive = {} THEN ledger
       ELSE [ledger EXCEPT !.marks = RemoveAt(@, Min(inactive))]

(* The last MAX_RETAINED_MESSAGES chat events of the log                     *)
RecentChats(log) ==
    { log[k] : k \in { k \in DOMAIN log :
        log[k].kind = "chat" /\
        Cardinality({ j \in DOMAIN log : j > k /\ log[j].kind = "chat" }) < MaxRetainedMessages } }

(* Mutant of Protected: the presence of active origins is not               *)
ProtectedWithoutPresence(ledger) == {ledger.checkpoint} \cup RecentChats(ledger.log)

Protected(ledger) ==
    { ledger.joinBasis[p] : p \in Peers } \cup { ledger.latestPresence[p] : p \in Peers }
        \cup {ledger.checkpoint} \cup RecentChats(ledger.log)

Loose(ledger) == { k \in DOMAIN ledger.log : ledger.log[k] \notin Protected(ledger) }

(* Mutant of Prune: the last unprotected event is dropped                    *)
PruneNewest(ledger) ==
    LET loose == Loose(ledger)
    IN IF Len(ledger.log) <= MaxRetainedEvents THEN ledger
       ELSE [ledger EXCEPT !.log = RemoveAt(@, IF loose = {} THEN 1 ELSE Max(loose))]

(* Mutant of Prune: one event too many stays                                 *)
PruneOneLate(ledger) ==
    LET loose == Loose(ledger)
    IN IF Len(ledger.log) <= MaxRetainedEvents + 1 THEN ledger
       ELSE [ledger EXCEPT !.log = RemoveAt(@, IF loose = {} THEN 1 ELSE Min(loose))]

(* prune: the first event that nothing protects leaves the log; one turn of   *)
(* the loop is enough, as above.  The expiry it begins with finds what accept *)
(* left after its own at the same time, and a new event that has not lapsed.  *)
Prune(ledger) ==
    LET loose == Loose(ledger)
    IN IF Len(ledger.log) <= MaxRetainedEvents THEN ledger
       ELSE [ledger EXCEPT !.log = RemoveAt(@, IF loose = {} THEN 1 ELSE Min(loose))]

(* accept, the whole method.  A sync request, or an event already in the log, *)
(* changes nothing; a refused event still expires the indexes.               *)
Accept(ledger, e) ==
    IF e.kind = "sync" \/ e \in Logged(ledger) THEN ledger
    ELSE LET current == ExpireIndexes(ledger, e.issuedAt)
         IN IF Acceptable(current, e)
            THEN Prune(PruneMarks(Indexed(Append1(current, e), e)))
            ELSE current

-----------------------------------------------------------------------------
(* Mutant of AdmissionError: no cooldown check                               *)
AdmissionErrorWithoutCooldown(ledger, peer, now) ==
    LET hall == HallAt(ledger, now)
    IN IF peer \in Participants(hall) THEN None
       ELSE IF Cardinality(hall.queue) + Cardinality(TakenSeats(hall)) >= Capacity THEN "HALL_FULL"
       ELSE None

(* admissionError: why a join of the peer would not be admitted now           *)
AdmissionError(ledger, peer, now) ==
    LET hall == HallAt(ledger, now)
    IN IF peer \in Participants(hall) THEN None
       ELSE IF hall.cooldownUntil[peer] > now THEN "HALL_COOLDOWN"
       ELSE IF Cardinality(hall.queue) + Cardinality(TakenSeats(hall)) >= Capacity THEN "HALL_FULL"
       ELSE None
=============================================================================
