----------------------------- MODULE LedgerTenure ----------------------------
(***************************************************************************)
(* A ledger over a perfect network: whatever a peer signs, the host has at  *)
(* once and in order, and all clocks agree.  What is left to go wrong is    *)
(* the ledger's own retention.  In every tick, the heartbeat interval, each *)
(* peer may refresh its presence once, the way ClubNode.joinHall does: with *)
(* a heartbeat, or with a join when the last one is old.                   *)
(*                                                                         *)
(* At the real rates the log turns over within a lease: 500 peers refresh   *)
(* every 45 s, which is 3333 presence events in 5 minutes, and the log      *)
(* keeps 2200 events.                                                      *)
(***************************************************************************)
EXTENDS Ledger

CONSTANT MaxTime     \* bound: the last tick

VARIABLES
    ledger, now,
    refreshed,    \* the peers that refreshed their presence in this tick
    seatedSince   \* history: since when the snapshots show a peer seated

vars == <<ledger, now, refreshed, seatedSince>>

Seated(hall) == { hall.seats[i].participant.peerId : i \in TakenSeats(hall) }

Observe(hall, at) ==
    seatedSince' = [p \in Peers |-> IF p \notin Seated(hall) THEN None
                                    ELSE IF seatedSince[p] = None THEN at ELSE seatedSince[p]]

Init ==
    /\ ledger = EmptyLedger
    /\ now = 1
    /\ refreshed = {}
    /\ seatedSince = [p \in Peers |-> None]

RefreshPresence(peer, kind) ==
    /\ peer \notin refreshed
    /\ ledger' = Accept(ledger,
                   [origin |-> peer, sequence |-> HighWaterMark(ledger, peer) + 1, issuedAt |-> now,
                    kind |-> kind, joinedAt |-> now, claim |-> None])
    /\ refreshed' = refreshed \cup {peer}
    /\ Observe(HallAt(ledger', now), now)
    /\ UNCHANGED now

Tick ==
    /\ now < MaxTime
    /\ now' = now + 1
    /\ ledger' = ExpireIndexes(ledger, now')
    /\ refreshed' = {}
    /\ Observe(HallAt(ledger', now'), now')

Next == Tick \/ \E p \in Peers, k \in Presence : RefreshPresence(p, k)

Spec == Init /\ [][Next]_vars

-----------------------------------------------------------------------------
(* "maximum seat lease: 5 minutes" (docs/PROTOCOL.md:41): no peer is shown    *)
(* seated, without interruption, for a whole lease.                          *)
LeaseEnds ==
    \A p \in Peers : seatedSince[p] # None => now - seatedSince[p] < MaxLeaseMs
=============================================================================
