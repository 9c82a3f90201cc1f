------------------------------ MODULE LedgerHost -----------------------------
(***************************************************************************)
(* One host's RoomEventLedger among peers that sign events of their own.   *)
(* The network keeps every event ever signed and hands any of them over at *)
(* any time, any number of times or never: delay, reordering, duplication  *)
(* and loss.  Each call of accept and snapshot is one step, as it is in    *)
(* the event loop of the host: neither contains an await.                  *)
(*                                                                         *)
(* A peer signs with increasing sequence numbers at the time of its clock, *)
(* which may be ahead of the host's by one of ClockLeads.                  *)
(***************************************************************************)
EXTENDS Ledger

CONSTANTS
    Kinds,        \* the kinds of event that peers sign
    ClockLeads,   \* by how much a signer's clock may be ahead
    MaxTime,      \* bound: the last tick of the host's clock
    MaxSent,      \* bound: how many events are signed
    MaxRevision   \* bound: how many events are accepted

VARIABLES ledger, sent, now

vars == <<ledger, sent, now>>

Init == ledger = EmptyLedger /\ sent = {} /\ now = 1

NextSequence(peer) == Cardinality({ e \in sent : e.origin = peer }) + 1

(* A checkpoint claims what its signer derives: from all that was sent, or    *)
(* from what this host has.                                                  *)
Claims(kind, at) ==
    IF kind = "checkpoint"
    THEN { CheckpointPayload(sent, at), CheckpointPayload(Logged(ledger), at) } \ {None}
    ELSE {None}

Sign(peer, kind, lead) ==
    /\ Cardinality(sent) < MaxSent
    /\ \A e \in sent : e.origin = peer => e.issuedAt <= now + lead
    /\ \E claim \in Claims(kind, now + lead) :
         /\ claim # None => claim.steward = peer
         /\ sent' = sent \cup
              {[origin |-> peer, sequence |-> NextSequence(peer), issuedAt |-> now + lead,
                kind |-> kind, joinedAt |-> now + lead, claim |-> claim]}
    /\ UNCHANGED <<ledger, now>>

(* From the hall topic, or from the answer to a sync request                 *)
Receive(e, historical) ==
    /\ Timely(e, now, historical)
    /\ ledger' = Accept(ledger, e)
    /\ ledger'.revision <= MaxRevision
    /\ UNCHANGED <<sent, now>>

(* snapshot, eventsForSync and diagnostics expire the indexes on the way      *)
Look ==
    /\ ledger' = ExpireIndexes(ledger, now)
    /\ UNCHANGED <<sent, now>>

Tick ==
    /\ now < MaxTime
    /\ now' = now + 1
    /\ UNCHANGED <<ledger, sent>>

Next ==
    \/ \E p \in Peers, k \in Kinds, lead \in ClockLeads : Sign(p, k, lead)
    \/ \E e \in sent, historical \in BOOLEAN : Receive(e, historical)
    \/ Look
    \/ Tick

Spec == Init /\ [][Next]_vars

-----------------------------------------------------------------------------
Hall == HallAt(ledger, now)

(* Type invariant *)
TypeOK ==
    /\ Logged(ledger) \subseteq sent
    /\ IsInjective(ledger.log)
    /\ ToSet(ledger.marks) \subseteq [origin : Peers, sequence : Nat \ {0}]
    /\ ledger.revision \in Nat
    /\ now \in Nat

(* No limit is exceeded, and no origin has two marks.                        *)
Bounded ==
    /\ Len(ledger.log) <= MaxRetainedEvents
    /\ Cardinality(Tracked(ledger)) <= MaxTrackedJoins
    /\ Len(ledger.marks) <= MaxTrackedSequences
    /\ \A j, k \in DOMAIN ledger.marks :
         ledger.marks[j].origin = ledger.marks[k].origin => j = k

(* Pruning never drops what the indexes point to: a join basis is a logged    *)
(* join of its origin, its latest presence a logged event not before it, and *)
(* the last checkpoint is logged too.                                        *)
IndexesLogged ==
    /\ \A p \in Tracked(ledger) :
         LET basis == ledger.joinBasis[p]
             latest == ledger.latestPresence[p]
         IN /\ {basis, latest} \subseteq Logged(ledger)
            /\ basis.origin = p /\ basis.kind = "join"
            /\ latest.origin = p /\ latest.kind \in Presence
            /\ basis.sequence <= latest.sequence
    /\ \A p \in Peers : ledger.latestPresence[p] # None => HasBasis(ledger, p)
    /\ ledger.checkpoint # None => ledger.checkpoint \in Logged(ledger)

(* Whoever is in the hall is indexed, with the presence its place rests on:   *)
(* its events are accepted and protected, and it can catch others up.  Whoever *)
(* left is not brought back by what pruning leaves of its past.              *)
ActiveIndexed ==
    \A p \in Participants(Hall) :
        /\ HasBasis(ledger, p)
        /\ \A q \in Hall.queue : q.peerId = p =>
             q.lastPresenceAt = ledger.latestPresence[p].issuedAt
        /\ \A i \in SeatOf(Hall, p) :
             Hall.seats[i].participant.lastPresenceAt = ledger.latestPresence[p].issuedAt

(* "Each active identity's join basis and latest heartbeat are protected from *)
(* rolling-log eviction" (docs/PROTOCOL.md:69): prune protects what the        *)
(* indexes name, so the indexes name those of everyone in the hall.           *)
ActiveProtected ==
    \A p \in Participants(Hall) :
        HasBasis(ledger, p) /\ {ledger.joinBasis[p], ledger.latestPresence[p]} \subseteq Protected(ledger)

(* As long as no more origins sign than have marks, the mark of an origin     *)
(* covers every event of it that is logged, in whatever order they arrived:  *)
(* no event is accepted after a later one of its origin.  Beyond that number *)
(* the mark of an inactive origin is dropped, and its past may come again.   *)
MarksCover ==
    Cardinality(Peers) <= MaxTrackedSequences =>
        \A e \in Logged(ledger) : e.sequence <= HighWaterMark(ledger, e.origin)

(* What admissionError promises: a join accepted at a moment when it reports  *)
(* nothing puts the peer in the hall.  Events of that same instant may sort    *)
(* after the join and are set aside.                                          *)
AdmissionHeld ==
    \A e \in Logged(ledger') \ Logged(ledger) :
        /\ e.kind = "join" /\ e.issuedAt = now
        /\ \A f \in Logged(ledger) : f.issuedAt < now
        /\ AdmissionError(ledger, e.origin, now) = None
        => e.origin \in Participants(HallAt(ledger', now))

AdmissionKept == [][AdmissionHeld]_vars
=============================================================================
