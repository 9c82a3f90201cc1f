------------------------------- MODULE ClubNode ------------------------------
(***************************************************************************)
(* CarbonClubNode of node.ts and the service of index.ts that starts and   *)
(* stops it: one Host, the calls it is serving and its two timers.         *)
(*                                                                         *)
(* A call of the node is a record in `calls`, at the await it stands at:   *)
(* "mine" (the proof of work of a join, which yields to the event loop) or *)
(* "publish" (waiting for a topic subscriber, then for GossipSub).  What   *)
(* runs between two awaits is one step; signing any event but a join takes *)
(* no turn of the event loop.  There is one call of each caller at a time: *)
(* the browser chains its own (see NetworkStore), and a heartbeat or a     *)
(* checkpoint is over before the next is due.                              *)
(*                                                                         *)
(* `room` is the ledger of a peer that hears what this node publishes      *)
(* while the link is up.  Profiles, dialling and discovery are left out.   *)
(***************************************************************************)
EXTENDS Ledger

CONSTANTS
    Self,                 \* this node's peer id
    PresenceHeartbeatMs,  \* the period of the heartbeat timer         (45 s)
    \* bounds: of time, of the user's calls, messages, checkpoints and outages
    \* together, and of two of these on their own
    MaxTime, MaxDisturbances, MaxTalk, MaxOutages

ASSUME NodeAssumption ==
    /\ Self \in Peers
    /\ PresenceHeartbeatMs \in Nat \ {0}

Callers == {"user", "heartbeat", "steward", "stop"}

VARIABLES
    \* the node: libp2p exists, its phase, how far start() got, whether the
    \* plugin was disposed of, and the local presence
    node, phase, startPc, disposed, present, lastJoinAt, localSequence,
    \* when the heartbeat timer fires next, or None; whether the checkpoint
    \* timer runs
    nextBeat, checkpointTimer,
    calls,       \* per caller, its call in progress or NoCall
    answer,      \* what the browser was last shown: "in", "out" or None
    ledger, room, linkUpSince, now,
    userCalls, talk, outages   \* what was used up of the bounds

lifecycle == <<node, phase, startPc, disposed, checkpointTimer>>
presence == <<present, lastJoinAt, nextBeat>>
budget == <<userCalls, talk, outages>>
world == <<linkUpSince, now>>
vars == <<lifecycle, presence, localSequence, calls, answer, ledger, room, world, budget>>

Call(op, pc, event) == [op |-> op, pc |-> pc, event |-> event]
NoCall == Call("none", "none", None)

Init ==
    /\ node = FALSE /\ phase = "starting" /\ startPc = "loading" /\ disposed = FALSE
    /\ present = FALSE /\ lastJoinAt = 0 /\ localSequence = 0
    /\ nextBeat = None /\ checkpointTimer = FALSE
    /\ calls = [c \in Callers |-> NoCall] /\ answer = None
    /\ ledger = EmptyLedger /\ room = EmptyLedger
    /\ linkUpSince = 1 /\ now = 1
    /\ userCalls = 0 /\ talk = 0 /\ outages = 0

(* requiredNode: what every call asks for first                              *)
Online == node /\ phase = "online"
Idle(c) == calls[c].op = "none"
(* The bound on what disturbs the node                                       *)
Spare == userCalls + talk + outages < MaxDisturbances
Settled == \A c \in Callers : Idle(c)
Answer(c, told) == answer' = IF c = "user" THEN told ELSE answer

-----------------------------------------------------------------------------
(* initialize of the service: the credentials are read, or cannot be          *)
KeysLoaded ==
    /\ startPc = "loading"
    /\ startPc' \in {"creating", "done"}
    /\ UNCHANGED <<node, phase, disposed, checkpointTimer, presence, localSequence,
                   calls, answer, ledger, room, world, budget>>

(* The catch block of start                                                  *)
StartFails ==
    /\ startPc \in {"creating", "transports"}
    /\ node' = FALSE /\ phase' = "error" /\ startPc' = "done"
    /\ UNCHANGED <<disposed, checkpointTimer, presence, localSequence,
                   calls, answer, ledger, room, world, budget>>

(* createLibp2p has returned, the handlers are registered                    *)
Created ==
    /\ startPc = "creating"
    /\ node' = TRUE /\ startPc' = "transports"
    /\ UNCHANGED <<phase, disposed, checkpointTimer, presence, localSequence,
                   calls, answer, ledger, room, world, budget>>

(* Mutant of TransportsUp: without the second look at this.node              *)
TransportsUpUnchecked ==
    /\ startPc = "transports"
    /\ startPc' = "done" /\ phase' = "online" /\ checkpointTimer' = TRUE
    /\ UNCHANGED <<node, disposed, presence, localSequence,
                   calls, answer, ledger, room, world, budget>>

(* node.start() has returned; a stop() may have come first                   *)
TransportsUp ==
    /\ startPc = "transports"
    /\ startPc' = "done"
    /\ IF node THEN phase' = "online" /\ checkpointTimer' = TRUE
               ELSE UNCHANGED <<phase, checkpointTimer>>
    /\ UNCHANGED <<node, disposed, presence, localSequence,
                   calls, answer, ledger, room, world, budget>>

-----------------------------------------------------------------------------
(* Mutant of NextSequence: the clock alone                                   *)
NextSequenceOfClock == now * 1000

(* Sequence numbers follow the clock in microseconds, a thousand to a tick    *)
NextSequence == Max({now * 1000, localSequence + 1})

NewEvent(kind, claim) ==
    [origin |-> Self, sequence |-> NextSequence, issuedAt |-> now, kind |-> kind,
     joinedAt |-> now, claim |-> claim]

(* publishEvent up to its first await, of an event the ledger was given       *)
Publishing(c, op, event) ==
    calls' = [calls EXCEPT ![c] = IF Online THEN Call(op, "publish", event) ELSE NoCall]

(* GossipSub hands the event to those who can be reached                      *)
Deliver(event) ==
    room' = IF linkUpSince # None /\ Timely(event, now, FALSE) THEN Accept(room, event) ELSE room

Here(events, at) == Self \in Participants(Derive(events, at))

(* What the snapshot that a call returns shows the browser of its own peer    *)
Shown == IF Here(Logged(ledger), now) THEN "in" ELSE "out"

(* Mutant of ClearLocalPresence: stops the timer and keeps the presence      *)
ClearTimerOnly == nextBeat' = None /\ UNCHANGED present

ClearLocalPresence == present' = FALSE /\ nextBeat' = None

NextFiring(at) == at + PresenceHeartbeatMs

(* HALL_PRESENCE_REFRESH_MS and presenceActionFor; its mutant rejoins only    *)
(* once the basis is a whole TTL old                                         *)
ActionForTtl(had) ==
    IF had /\ now - lastJoinAt < PresenceTtlMs THEN "heartbeat" ELSE "join"

PresenceActionFor(had) ==
    IF had /\ now - lastJoinAt < PresenceTtlMs \div 2 THEN "heartbeat" ELSE "join"

(* joinHall of a caller, its timer due next at `beat`: refused at the door    *)
JoinRefused(c) ==
    /\ Idle(c) /\ Online
    /\ AdmissionError(ledger, Self, now) # None
    /\ ClearLocalPresence
    /\ Answer(c, None)
    /\ UNCHANGED <<lifecycle, lastJoinAt, localSequence, calls, ledger, room, world>>

(* ... or let in, up to its first await: a heartbeat is signed and accepted   *)
(* at once, a join has to be mined                                           *)
JoinBegins(c, beat) ==
    /\ Idle(c) /\ Online
    /\ AdmissionError(ledger, Self, now) = None
    /\ LET member == Here(Logged(ledger), now)
           event == NewEvent(PresenceActionFor(present /\ member), None)
           current == ExpireIndexes(ledger, now)
       IN /\ present' = TRUE
          /\ nextBeat' = IF member THEN beat ELSE None
          /\ localSequence' = event.sequence
          /\ IF event.kind = "join"
             THEN /\ lastJoinAt' = now
                  /\ ledger' = current
                  /\ calls' = [calls EXCEPT ![c] = Call("join", "mine", event)]
             ELSE /\ lastJoinAt' = lastJoinAt
                  /\ ledger' = Accept(current, event)
                  /\ Publishing(c, "join", event)
    /\ Answer(c, None)
    /\ UNCHANGED <<lifecycle, room, world>>

(* Mutant of Mined: the sequence is taken once the proof is there            *)
MinedLateSequence(c) ==
    /\ calls[c].pc = "mine"
    /\ LET event == [calls[c].event EXCEPT !.sequence = NextSequence]
       IN /\ localSequence' = NextSequence
          /\ ledger' = Accept(ledger, event)
          /\ Publishing(c, "join", event)
    /\ UNCHANGED <<lifecycle, presence, answer, room, world, budget>>

(* The join is mined and signed                                              *)
Mined(c) ==
    /\ calls[c].pc = "mine"
    /\ ledger' = Accept(ledger, calls[c].event)
    /\ Publishing(c, "join", calls[c].event)
    /\ UNCHANGED <<lifecycle, presence, localSequence, answer, room, world, budget>>

Publishes(c, op) == calls[c].pc = "publish" /\ calls[c].op = op

(* Mutant of Joined: does not look whether its own hall has admitted it      *)
JoinedUnchecked(c) ==
    /\ Publishes(c, "join")
    /\ Deliver(calls[c].event)
    /\ ledger' = ExpireIndexes(ledger, now)
    /\ nextBeat' = IF nextBeat = None THEN NextFiring(now) ELSE nextBeat
    /\ Answer(c, "in")
    /\ calls' = [calls EXCEPT ![c] = NoCall]
    /\ UNCHANGED <<lifecycle, present, lastJoinAt, localSequence, world, budget>>

(* The rest of joinHall: is the peer in its own hall now?               *)
Joined(c) ==
    /\ Publishes(c, "join")
    /\ Deliver(calls[c].event)
    /\ ledger' = ExpireIndexes(ledger, now)
    /\ IF Here(Logged(ledger), now)
       THEN /\ nextBeat' = IF nextBeat = None THEN NextFiring(now) ELSE nextBeat
            /\ UNCHANGED present
            /\ Answer(c, "in")
       ELSE ClearLocalPresence /\ Answer(c, None)
    /\ calls' = [calls EXCEPT ![c] = NoCall]
    /\ UNCHANGED <<lifecycle, lastJoinAt, localSequence, world, budget>>

(* leaveHall of a node that is present, up to its publish                     *)
LeaveBegins(c, op) ==
    LET event == NewEvent("leave", None)
    IN /\ present' = FALSE
       /\ localSequence' = event.sequence
       /\ ledger' = Accept(ledger, event)
       /\ Publishing(c, op, event)
       /\ UNCHANGED <<lastJoinAt, nextBeat, room>>

Left(c) ==
    /\ Publishes(c, "leave")
    /\ Deliver(calls[c].event)
    /\ ClearLocalPresence
    /\ ledger' = ExpireIndexes(ledger, now)
    /\ Answer(c, Shown)
    /\ calls' = [calls EXCEPT ![c] = NoCall]
    /\ UNCHANGED <<lifecycle, lastJoinAt, localSequence, world, budget>>

-----------------------------------------------------------------------------
(* The browser's joinHall and leaveHall, one at a time                        *)
UserJoin ==
    /\ Spare
    /\ JoinRefused("user") \/ JoinBegins("user", nextBeat)
    /\ userCalls' = userCalls + 1
    /\ UNCHANGED <<talk, outages>>

UserLeave ==
    /\ Spare /\ Idle("user") /\ Online
    /\ IF present
       THEN LeaveBegins("user", "leave") /\ answer' = None
       ELSE /\ ledger' = ExpireIndexes(ledger, now)
            /\ answer' = Shown
            /\ UNCHANGED <<presence, localSequence, calls, room>>
    /\ userCalls' = userCalls + 1
    /\ UNCHANGED <<lifecycle, world, talk, outages>>

(* The heartbeat timer fires                                                 *)
Beat ==
    /\ nextBeat # None /\ nextBeat <= now
    /\ IF present /\ node
       THEN JoinRefused("heartbeat") \/ JoinBegins("heartbeat", NextFiring(nextBeat))
       ELSE /\ nextBeat' = NextFiring(nextBeat)
            /\ UNCHANGED <<lifecycle, present, lastJoinAt, localSequence, calls, answer,
                           ledger, room, world>>
    /\ UNCHANGED budget

(* publishHallMessage: accepted by its own ledger before it is published, and *)
(* not published when its own hall does not show it                           *)
Say ==
    /\ Spare /\ talk < MaxTalk
    /\ Idle("user") /\ Online /\ present
    /\ SeatOf(HallAt(ledger, now), Self) # {}
    /\ LET event == NewEvent("chat", None)
       IN /\ localSequence' = event.sequence
          /\ ledger' = Accept(ExpireIndexes(ledger, now), event)
          /\ IF \E m \in ToSet(HallAt(ledger', now).messages) : m.origin = Self /\ m.sentAt = now
             THEN Publishing("user", "say", event)
             ELSE UNCHANGED calls
    /\ talk' = talk + 1
    /\ UNCHANGED <<lifecycle, presence, answer, room, world, userCalls, outages>>

(* publishCheckpoint, by the timer, if this node is the steward               *)
Checkpoint ==
    /\ Spare /\ talk < MaxTalk
    /\ checkpointTimer /\ Idle("steward") /\ Online
    /\ \E event \in {NewEvent("checkpoint", CheckpointPayload(Logged(ledger), now))} :
          /\ event.claim # None /\ event.claim.steward = Self
          /\ localSequence' = event.sequence
          /\ ledger' = Accept(ledger, event)
          /\ Publishing("steward", "say", event)
    /\ talk' = talk + 1
    /\ UNCHANGED <<lifecycle, presence, answer, room, world, userCalls, outages>>

Said(c) ==
    /\ Publishes(c, "say")
    /\ Deliver(calls[c].event)
    /\ calls' = [calls EXCEPT ![c] = NoCall]
    /\ UNCHANGED <<lifecycle, presence, localSequence, answer, ledger, world, budget>>

(* publishEvent throws: the transport was stopped in the meantime             *)
PublishFails(c) ==
    /\ calls[c].pc = "publish" /\ ~node
    /\ calls' = [calls EXCEPT ![c] = NoCall]
    /\ UNCHANGED <<lifecycle, presence, localSequence, answer, ledger, room, world, budget>>

-----------------------------------------------------------------------------
(* stop() once its leaveHall is over                                         *)
StopEnds ==
    /\ nextBeat' = None /\ checkpointTimer' = FALSE
    /\ node' = FALSE /\ phase' = "starting"

(* The plugin is disposed of: this.node?.stop(), which returns at once while  *)
(* there is no libp2p node                                                   *)
Dispose ==
    /\ ~disposed /\ disposed' = TRUE
    /\ IF node /\ present
       THEN LeaveBegins("stop", "stop") /\ UNCHANGED <<node, phase, checkpointTimer>>
       ELSE /\ IF node THEN StopEnds ELSE UNCHANGED <<node, phase, checkpointTimer, nextBeat>>
            /\ ledger' = IF node THEN ExpireIndexes(ledger, now) ELSE ledger
            /\ UNCHANGED <<present, lastJoinAt, localSequence, calls, room>>
    /\ UNCHANGED <<startPc, answer, world, budget>>

Stopped ==
    /\ Publishes("stop", "stop")
    /\ Deliver(calls["stop"].event)
    /\ present' = FALSE
    /\ StopEnds
    /\ ledger' = ExpireIndexes(ledger, now)
    /\ calls' = [calls EXCEPT !["stop"] = NoCall]
    /\ UNCHANGED <<startPc, disposed, lastJoinAt, localSequence, answer, world, budget>>

-----------------------------------------------------------------------------
(* The link to the room goes and comes; the node notices nothing              *)
LinkChanges ==
    /\ linkUpSince # None => Spare /\ outages < MaxOutages
    /\ linkUpSince' = IF linkUpSince = None THEN now ELSE None
    /\ outages' = IF linkUpSince = None THEN outages ELSE outages + 1
    /\ UNCHANGED <<lifecycle, presence, localSequence, calls, answer, ledger, room, now,
                   userCalls, talk>>

(* Time passes in ticks far longer than mining and publishing take, and no     *)
(* timer is late by a tick                                                   *)
Tick ==
    /\ now < MaxTime
    /\ Settled /\ node /\ ledger.log # <<>>
    /\ nextBeat # None => now < nextBeat
    /\ now' = now + 1
    /\ UNCHANGED <<lifecycle, presence, localSequence, calls, answer, ledger, room,
                   linkUpSince, budget>>

Next ==
    \/ KeysLoaded \/ StartFails \/ Created \/ TransportsUp
    \/ UserJoin \/ UserLeave \/ Beat \/ Say \/ Checkpoint
    \/ \E c \in Callers : Mined(c) \/ Joined(c) \/ Left(c) \/ Said(c) \/ PublishFails(c)
    \/ Dispose \/ Stopped
    \/ LinkChanges \/ Tick

Spec == Init /\ [][Next]_vars

-----------------------------------------------------------------------------
(* Type invariant: and no two calls under way hold the same sequence number.  *)
TypeOK ==
    /\ {node, disposed, present, checkpointTimer} \subseteq BOOLEAN
    /\ phase \in {"starting", "online", "error"}
    /\ startPc \in {"loading", "creating", "transports", "done"}
    /\ nextBeat \in Nat \cup {None}
    /\ \A c \in Callers : ~Idle(c) => calls[c].pc \in {"mine", "publish"}
    /\ \A c \in Callers : ~Idle(c) => calls[c].event.sequence <= localSequence
    /\ \A c, d \in Callers :
          ~Idle(c) /\ ~Idle(d) /\ c # d
              => calls[c].event.sequence # calls[d].event.sequence

(* A node that says it is online, or whose checkpoint timer runs, is one that *)
(* stop() can still reach: stop() returns early once this.node is undefined. *)
OnlineReachable == phase = "online" \/ checkpointTimer => node

(* With no call under way, a local presence is a presence with heartbeats.    *)
PresenceBeats == Settled /\ node /\ present => nextBeat # None

(* The presence of a node that beats does not lapse in its own ledger,         *)
(* although a join that was overtaken while it was mined is refused.          *)
PresenceKept ==
    node /\ present /\ nextBeat # None
        => HasBasis(ledger, Self) /\ Self \notin Lapsed(ledger, now)

(* ... however the user's joins and leaves overtake the heartbeat's: what the *)
(* refused joins need is a node that signs no message and no checkpoint then, *)
(* for with one of those as well a whole TTL can pass without a join.         *)
PresenceKeptInSilence == talk = 0 => PresenceKept

(* "Re-sending a real join at half the TTL rebuilds that basis within one TTL *)
(* of the network returning" (node.ts:41-42): the room holds the basis of a   *)
(* node that has been present and linked that long.                          *)
RoomRegained ==
    /\ Settled /\ node /\ present /\ nextBeat # None /\ now < nextBeat
    /\ linkUpSince # None /\ now >= linkUpSince + PresenceTtlMs
    => HasBasis(room, Self) /\ Self \notin Lapsed(room, now)

(* ... which holds of a node that signs nothing while it mines its joins.     *)
RoomRegainedInSilence == talk = 0 => RoomRegained

(* Once the browser was shown that it left, the node is out of its own hall   *)
(* until the user joins again, whatever heartbeat was under way, as long as    *)
(* the node has signed no message and no checkpoint (talk = 0).               *)
LeftStaysLeft ==
    talk = 0 /\ answer = "out" /\ ~disposed => ~present /\ ~Here(Logged(ledger), now)

(* "retains local presence beyond the 24-person queue preview so leaving still *)
(* works" (tests/network.spec.ts:356): a browser that was last shown itself in *)
(* the hall, and still is, has the local presence that leaveHall needs.       *)
PresenceRetained ==
    answer = "in" /\ Settled /\ Online /\ Here(Logged(ledger), now) => present

(* A stopped plugin stays stopped: a stop() during startup must not leave     *)
(* "phase: online with a checkpoint timer" behind (CHANGELOG.md:7).           *)
StoppedStaysStopped ==
    disposed /\ Settled /\ startPc = "done" => ~checkpointTimer /\ phase # "online"
=============================================================================
