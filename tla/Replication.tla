----------------------------- MODULE Replication -----------------------------
(***************************************************************************)
(* Direct catch-up between two hosts: what eventsForSync answers and what  *)
(* requestHistory makes of it.  The sender is the host of LedgerHost at    *)
(* any moment; the receiver starts with an empty ledger, so that all it    *)
(* has is a function of the sender's ledger and the time: Late.            *)
(***************************************************************************)
EXTENDS LedgerHost

CONSTANT MaxSyncEvents  \* events in one answer (1300)

(***************************************************************************)
(* An answer has room for the basis and the latest presence of everyone in *)
(* the hall, the messages and a checkpoint: 2 * 500 + 200 + 1 <= 1300.     *)
(***************************************************************************)
ASSUME SyncAssumption ==
    /\ MaxSyncEvents \in Nat
    /\ 2 * Capacity + MaxRetainedMessages + 1 <= MaxSyncEvents

(* Mutant of SyncEvents: the latest presence stands for the join basis       *)
SyncEventsLatestOnly(l, at) ==
    { ExpireIndexes(l, at).latestPresence[p] : p \in Participants(HallAt(l, at)) }
        \cup RecentChats(l.log) \cup {l.checkpoint}

SyncEvents(l, at) ==
    LET current == ExpireIndexes(l, at)
        active == Participants(HallAt(l, at))
    IN { current.joinBasis[p] : p \in active } \cup { current.latestPresence[p] : p \in active }
        \cup RecentChats(l.log) \cup {l.checkpoint}

(* eventsForSync: the latest MaxSyncEvents of them                           *)
EventsForSync(l, at) ==
    LET events == SyncEvents(l, at) \cap Logged(l)
    IN { e \in events : Cardinality({ f \in events : Earlier(e, f) }) < MaxSyncEvents }

(* The loop of requestHistory over the answer, in its order: it ends at the   *)
(* first event that is refused by verifyRoomEvent, which throws, but not at   *)
(* one the ledger refuses.                                                   *)
CatchUp(l, events, at) ==
    LET heard == { e \in events :
            \A f \in events : f = e \/ Earlier(f, e) => Timely(f, at, TRUE) }
        after[seen \in SUBSET heard] ==
            LET last == CHOOSE e \in seen : \A f \in seen \ {e} : Earlier(f, e)
            IN IF seen = {} THEN l ELSE Accept(after[seen \ {last}], last)
    IN after[heard]

Late == CatchUp(EmptyLedger, EventsForSync(ledger, now), now)
LateHall == HallAt(Late, now)

-----------------------------------------------------------------------------
(* The presence of everyone in the hall was renewed by a join within the time  *)
(* a seat may stay silent: nodes renew it after 60 s, at their next heartbeat. *)
RecentlyJoined ==
    \A p \in Participants(Hall) :
        /\ HasBasis(ledger, p)
        /\ ledger.joinBasis[p].issuedAt > now - Min({IdleMs, PresenceTtlMs})

(* No message and no checkpoint of the answer is too old to be verified        *)
AllTimely ==
    \A e \in RecentChats(ledger.log) \cup ({ledger.checkpoint} \ {None}) : Timely(e, now, TRUE)

(* A late host finds everyone in the hall that is in it, and nobody else,       *)
(* although it gets two events of each, forgets their cooldowns and seats     *)
(* them in another order; unless an event too old to be verified ends its     *)
(* catch-up.                                                                 *)
LateHostSeesMembers ==
    RecentlyJoined /\ AllTimely => Participants(LateHall) = Participants(Hall)

(* presenceActionFor: joins of one peer are at least half a TTL apart          *)
Cadenced ==
    \A e, f \in Logged(ledger) :
        e.kind = "join" /\ f.kind = "join" /\ e.origin = f.origin /\ e.sequence < f.sequence
            => f.issuedAt - e.issuedAt >= PresenceTtlMs \div 2

(* "Late-node catch-up" (docs/PROTOCOL.md:71) brings "active join bases, latest *)
(* heartbeats, recent messages and the latest checkpoint": what those in the   *)
(* hall said is in the hall of the late host.                                 *)
LateHostHasMessages ==
    Cadenced =>
        \A k \in DOMAIN Hall.messages :
            Hall.messages[k].origin \in Participants(Hall)
                => Hall.messages[k] \in ToSet(LateHall.messages)
=============================================================================
