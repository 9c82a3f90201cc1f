----------------------------- MODULE NetworkStore ----------------------------
(***************************************************************************)
(* network-store.ts: what one browser shows of the room of its Host, and   *)
(* the calls it has under way.  Polls are coalesced, hall actions and      *)
(* messages are chained, an answer is used only if nothing overtook it,    *)
(* and a call is given up after 20 s, although the Host may still do it.   *)
(*                                                                         *)
(* A call is a record in `polls`, `running` or `asides` between its        *)
(* request and what is done with its answer; the Host reads or changes its *)
(* room at any moment in between (Serve), or after the call was given up   *)
(* (HostMoves).  A message is its sentAt, a natural number; each event has *)
(* its own.  Profiles, avatars and error texts are left out.               *)
(***************************************************************************)
EXTENDS Integers, FiniteSets, SequencesExt

CONSTANTS
    MessageWindow,  \* clientMessageWindow (50)
    MaxSentAt, MaxMoves, MaxBindings, MaxActions, MaxAsides, MaxFaults, MaxOrphans, MaxEvents, \* bounds
    None

(* The room of a browser is [from, cursor, messages] and three fields of       *)
(* history: when it was read (readAt), what the Host showed then (window),    *)
(* and whether a message of the user's own was put behind a later one.        *)
Rooms ==
    [from : Nat, cursor : Nat, readAt : Nat, window : SUBSET (1 .. MaxSentAt),
     messages : Seq(1 .. MaxSentAt), outrun : BOOLEAN]

ASSUME StoreAssumption ==
    /\ {MessageWindow, MaxSentAt, MaxMoves, MaxBindings, MaxActions, MaxEvents} \subseteq Nat \ {0}
    /\ {MaxAsides, MaxFaults, MaxOrphans} \subseteq Nat
    /\ None \notin Nat /\ None \notin Rooms /\ None \notin {"hall", "invite", "connect"}

VARIABLES
    \* module state: the binding and whether a remote is bound, roomVersion,
    \* refreshInFlight, the mutations chained in hallActions and not begun
    binding, bound, roomVersion, refreshInFlight, hallActions,
    phase, room, busy, posting,   \* the snapshot
    polls, running, asides,       \* calls under way: polls, mutations, invitations
    host,                         \* the Host
    answeredAt, posted,           \* history: its last hall answer, the last message sent
    used, faults                  \* what was used up of the bounds

snapshot == <<phase, room, busy, posting>>
store == <<binding, bound, roomVersion, hallActions>>
pending == <<polls, running, asides, refreshInFlight>>
history == <<answeredAt, posted>>
vars == <<store, snapshot, pending, host, history, used, faults>>

Init ==
    /\ binding = 0 /\ bound = FALSE /\ roomVersion = 0
    /\ refreshInFlight = None /\ hallActions = <<>>
    /\ phase = "starting" /\ room = None /\ busy = None /\ posting = FALSE
    /\ polls = {} /\ running = {} /\ asides = {}
    \* the Host: nothing has been said there, somebody is in the hall
    /\ host = [moves |-> 0, revision |-> 1, chats |-> [t \in 1 .. MaxSentAt |-> 0],
               shown |-> {}, absent |-> {}, belated |-> {}]
    /\ answeredAt = 0 /\ posted = None
    /\ used = 0 /\ faults = 0

-----------------------------------------------------------------------------
(* A bound on all that happens to the browser from outside                   *)
MoreHappens == host.moves + binding + used + faults < MaxEvents

(* slice(-clientMessageWindow) of messages in the order of their sentAt       *)
Newest(messages) ==
    { m \in messages : Cardinality({ n \in messages : n > m }) < MessageWindow }

(* sort of messages by their sentAt                                          *)
InOrder(messages) ==
    [k \in 1 .. Cardinality(messages) |->
        CHOOSE m \in messages : Cardinality({ n \in messages : n <= m }) = k]

(* The Host: `chats` has the revision at which a message was logged, 0 if it   *)
(* was not, and `shown` the messages derive() makes of the log: one that is   *)
(* logged is left out while its author has no seat in the replay, or spoke    *)
(* too soon or too often.  History: the messages that were logged and left    *)
(* out (absent), and those that came into view after they were logged.        *)
Logged(h) == { t \in 1 .. MaxSentAt : h.chats[t] # 0 }
Window(h) == Newest(h.shown)

(* accept: an event is logged, `fresh` is its message if it has one.  derive()  *)
(* replays the whole log in the order of issuedAt, so that an event dated     *)
(* earlier, or the eviction of one, brings any message into view or out of it. *)
Accepted(h, fresh, shown) ==
    [moves |-> h.moves + 1, revision |-> h.revision + 1,
     chats |-> [t \in 1 .. MaxSentAt |-> IF t \in fresh THEN h.revision + 1 ELSE h.chats[t]],
     shown |-> shown,
     absent |-> h.absent \cup ((Logged(h) \cup fresh) \ shown),
     belated |-> h.belated \cup (shown \ (h.shown \cup fresh))]

(* snapshot: the room as the Host has it now                                 *)
Snapshot(h, b) ==
    [from |-> b, cursor |-> h.revision, readAt |-> h.moves, window |-> Window(h),
     messages |-> InOrder(Window(h)), outrun |-> FALSE]

(* delta: all of it if the cursor is none of this log or pruning went past    *)
(* it, else what came after the cursor                                       *)
Delta(h, b, cursor, reset) ==
    [Snapshot(h, b) EXCEPT
        !.messages = InOrder({ t \in Window(h) : reset \/ h.chats[t] > cursor })]

Resets(h, cursor) ==
    IF cursor < 0 THEN {TRUE}
    ELSE IF cursor < h.revision - 1 THEN BOOLEAN ELSE {FALSE}

(* mergeRoom                                                                 *)
MergeRoom(previous, delta, reset) ==
    IF previous = None \/ reset THEN delta
    ELSE [delta EXCEPT !.messages = InOrder(Newest(ToSet(previous.messages) \cup ToSet(@))),
                       !.outrun = previous.outrun]

-----------------------------------------------------------------------------
(* What happens at the Host for reasons of its own: it accepts an event, maybe *)
(* a late one, or time passes, which changes seats and no message.  Between   *)
(* an unbind and the next bind nothing reads it: it moves before or after.    *)
HostMoves ==
    /\ host.moves < MaxMoves /\ MoreHappens /\ (bound \/ binding = 0)
    /\ \/ \E fresh \in {{}} \cup { {t} : t \in (1 .. MaxSentAt) \ Logged(host) } :
            \E shown \in SUBSET (Logged(host) \cup fresh) : host' = Accepted(host, fresh, shown)
       \/ host' = [host EXCEPT !.moves = @ + 1]
    /\ UNCHANGED <<store, snapshot, pending, history, used, faults>>

(* The Host carries out a join or a leave, refuses it, or has nothing to do    *)
ServeHall(m) ==
    /\ m.op = "hall"
    /\ \/ /\ host.moves < MaxMoves /\ MoreHappens
          /\ \E shown \in SUBSET Logged(host) : host' = Accepted(host, {}, shown)
       \/ UNCHANGED host
    /\ \E answer \in {Snapshot(host', m.binding), None} :
         running' = (running \ {m}) \cup {[m EXCEPT !.served = TRUE, !.room = answer]}

(* It logs a message, whose sentAt need not be later than what a peer with a   *)
(* clock ahead has sent, and answers it if it is in view, or refuses it        *)
ServePost(m) ==
    /\ m.op = "post"
    /\ \/ /\ host.moves < MaxMoves /\ MoreHappens
          /\ \E t \in (1 .. MaxSentAt) \ Logged(host) :
             \E shown \in SUBSET (Logged(host) \cup {t}) :
               /\ host' = Accepted(host, {t}, shown)
               /\ running' = (running \ {m}) \cup
                    {[m EXCEPT !.served = TRUE, !.message = IF t \in shown THEN t ELSE None]}
       \/ /\ running' = (running \ {m}) \cup {[m EXCEPT !.served = TRUE]}
          /\ UNCHANGED host

ServeMutation(m) ==
    /\ ~m.served
    /\ ServeHall(m) \/ ServePost(m)
    /\ UNCHANGED <<store, snapshot, polls, asides, refreshInFlight, history, used, faults>>

ServePoll(p) ==
    /\ p.answer = None
    /\ \E reset \in Resets(host, p.cursor) :
         polls' = (polls \ {p}) \cup
             {[p EXCEPT !.answer = Delta(host, p.binding, p.cursor, reset),
                        !.reset = reset]}
    /\ UNCHANGED <<store, snapshot, running, asides, refreshInFlight, host, history, used, faults>>

-----------------------------------------------------------------------------
(* Mutant of NewPoll: the version is counted up, not read                    *)
NewPollCounted(b, version, cursor) ==
    [binding |-> b, version |-> version + 1, cursor |-> cursor, answer |-> None, reset |-> FALSE]

NewPoll(b, version, cursor) ==
    [binding |-> b, version |-> version, cursor |-> cursor, answer |-> None, reset |-> FALSE]

(* How many calls a change of the binding leaves behind, a bound             *)
Orphans == Cardinality(polls) + Cardinality(running) + Cardinality(asides)

(* bindNetworkRemote, with its first refresh.  What is still chained will     *)
(* find another binding and do nothing.                                      *)
Bind ==
    /\ binding < MaxBindings /\ MoreHappens /\ Orphans <= MaxOrphans
    /\ binding' = binding + 1 /\ bound' = TRUE
    /\ hallActions' = <<>>
    /\ phase' = "starting" /\ room' = None /\ busy' = None /\ posting' = FALSE
    /\ polls' = polls \cup {NewPoll(binding', roomVersion, -1)}
    /\ refreshInFlight' = binding'
    /\ answeredAt' = 0 /\ posted' = None
    /\ UNCHANGED <<roomVersion, running, asides, host, used, faults>>

Unbind ==
    /\ bound /\ binding < MaxBindings /\ MoreHappens /\ Orphans <= MaxOrphans
    /\ binding' = binding + 1 /\ bound' = FALSE
    /\ hallActions' = <<>>
    /\ phase' = "starting" /\ room' = None /\ busy' = None /\ posting' = FALSE
    /\ refreshInFlight' = None
    /\ answeredAt' = 0 /\ posted' = None
    /\ UNCHANGED <<roomVersion, polls, running, asides, host, used, faults>>

Refreshed ==
    IF refreshInFlight # None THEN UNCHANGED <<polls, refreshInFlight>>
    ELSE /\ polls' = polls \cup
              {NewPoll(binding, roomVersion, IF room = None THEN -1 ELSE room.cursor)}
         /\ refreshInFlight' = binding

(* refreshNetwork, every three seconds                                       *)
RefreshNetwork ==
    /\ bound /\ refreshInFlight = None
    /\ Refreshed
    /\ UNCHANGED <<store, snapshot, running, asides, host, history, used, faults>>

(* Mutant of Obsolete: the version is not compared                           *)
ObsoleteIgnoringVersion(p) == p.binding # binding \/ busy = "hall" \/ posting

(* "A response from an old Host or from before a join/leave/send is obsolete" *)
Obsolete(p) ==
    p.binding # binding \/ p.version # roomVersion \/ busy = "hall" \/ posting

(* Mutant of PollOver: an obsolete poll stays in flight                      *)
PollOverUnlessObsolete(p) ==
    /\ polls' = polls \ {p}
    /\ refreshInFlight' =
         IF refreshInFlight = p.binding /\ ~Obsolete(p) THEN None ELSE refreshInFlight

PollOver(p) ==
    /\ polls' = polls \ {p}
    /\ refreshInFlight' = IF refreshInFlight = p.binding THEN None ELSE refreshInFlight

(* refreshCurrentNetwork after its await                                     *)
PollAnswered(p) ==
    /\ p.answer # None
    /\ PollOver(p)
    /\ IF Obsolete(p) THEN UNCHANGED snapshot
       ELSE /\ phase' = "online"
            /\ room' = MergeRoom(room, p.answer, p.reset)
            /\ UNCHANGED <<busy, posting>>
    /\ UNCHANGED <<store, running, asides, host, history, used, faults>>

(* It failed, or the Host did not answer in time                             *)
PollFailed(p) ==
    /\ faults < MaxFaults /\ MoreHappens /\ faults' = faults + 1
    /\ PollOver(p)
    /\ phase' = IF p.binding = binding /\ p.version = roomVersion THEN "error" ELSE phase
    /\ UNCHANGED <<store, room, busy, posting, running, asides, host, history, used>>

-----------------------------------------------------------------------------
(* postNetworkMessage and changeHall up to the chain                         *)
PostNetworkMessage ==
    /\ bound /\ used < MaxActions /\ MoreHappens /\ ~posting
    /\ posting' = TRUE
    /\ hallActions' = Append(hallActions, "post")
    /\ used' = used + 1
    /\ UNCHANGED <<binding, bound, roomVersion, phase, room, busy, pending, host, history, faults>>

ChangeHall ==
    /\ bound /\ used < MaxActions /\ MoreHappens
    /\ hallActions' = Append(hallActions, "hall")
    /\ used' = used + 1
    /\ UNCHANGED <<binding, bound, roomVersion, snapshot, pending, host, history, faults>>

NewMutation ==
    [binding |-> binding, op |-> Head(hallActions), served |-> FALSE, room |-> None, message |-> None]

(* The chain reaches the next mutation                                       *)
BeginMutation ==
    /\ hallActions # <<>>
    /\ \A m \in running : m.binding # binding
    /\ hallActions' = Tail(hallActions)
    /\ roomVersion' = roomVersion + 1
    /\ running' = running \cup {NewMutation}
    /\ busy' = IF Head(hallActions) = "hall" THEN "hall" ELSE busy
    /\ UNCHANGED <<binding, bound, phase, room, posting, polls, asides, refreshInFlight,
                   host, history, used, faults>>

(* Mutant of Release: a hall action leaves `busy` to the next refresh         *)
ReleasePosting(op) ==
    /\ roomVersion' = roomVersion + 1
    /\ posting' = FALSE
    /\ UNCHANGED busy

(* finally                                                                   *)
Release(op) ==
    /\ roomVersion' = roomVersion + 1
    /\ IF op = "post" THEN posting' = FALSE /\ UNCHANGED busy
                      ELSE busy' = None /\ UNCHANGED posting

(* [...previous, message].slice(-clientMessageWindow): not sorted, and the      *)
(* first one goes.                                                           *)
Appended(messages, t) ==
    LET all == Append(messages, t)
    IN  IF Len(all) > MessageWindow THEN Tail(all) ELSE all

(* Mutant of WithMessage: the cursor moves on to the message                 *)
WithMessageRead(before, t) ==
    [before EXCEPT !.messages = Appended(@, t), !.window = Newest(@ \cup {t}),
                  !.outrun = @ \/ \E m \in ToSet(before.messages) : m > t,
                  !.cursor = host.chats[t]]

(* The message of one's own is appended unless it is there, and the cursor stays *)
WithMessage(before, t) ==
    IF t \in ToSet(before.messages) THEN before
    ELSE [before EXCEPT !.messages = Appended(@, t), !.window = Newest(@ \cup {t}),
                       !.outrun = @ \/ \E m \in ToSet(before.messages) : m > t]

MutationAnswered(m) ==
    /\ m.served
    /\ running' = running \ {m}
    /\ IF m.binding # binding
       THEN UNCHANGED <<roomVersion, snapshot, history>>
       ELSE /\ Release(m.op)
            /\ IF m.room # None
               THEN room' = m.room /\ answeredAt' = Max({answeredAt, m.room.readAt}) /\ UNCHANGED posted
               ELSE IF m.message # None /\ room # None
               THEN room' = WithMessage(room, m.message) /\ posted' = m.message /\ UNCHANGED answeredAt
               ELSE UNCHANGED <<room, history>>
            /\ UNCHANGED phase
    /\ UNCHANGED <<binding, bound, hallActions, polls, asides, refreshInFlight, host, used, faults>>

MutationFailed(m) ==
    /\ faults < MaxFaults /\ MoreHappens /\ faults' = faults + 1
    /\ running' = running \ {m}
    /\ IF m.binding = binding THEN Release(m.op) ELSE UNCHANGED <<roomVersion, busy, posting>>
    /\ UNCHANGED <<binding, bound, hallActions, phase, room, polls, asides, refreshInFlight,
                   host, history, used>>

-----------------------------------------------------------------------------
(* requestInvite and connectWithInvite                                       *)
AsideBegins(op) ==
    /\ bound /\ busy = None /\ Cardinality(asides) < MaxAsides /\ used < MaxActions /\ MoreHappens
    /\ used' = used + 1
    /\ busy' = op
    /\ asides' = asides \cup {[n |-> used, binding |-> binding, op |-> op]}
    /\ UNCHANGED <<store, phase, room, posting, polls, running, refreshInFlight, host, history, faults>>

(* It is over, well or not; connect refreshes when all went well              *)
AsideEnds(a) ==
    /\ asides' = asides \ {a}
    /\ IF a.binding # binding
       THEN UNCHANGED <<busy, polls, refreshInFlight>>
       ELSE /\ busy' = None
            /\ (a.op = "connect" /\ Refreshed) \/ UNCHANGED <<polls, refreshInFlight>>
    /\ UNCHANGED <<store, phase, room, posting, running, host, history, used, faults>>

Next ==
    \/ HostMoves
    \/ \E m \in running : ServeMutation(m) \/ MutationAnswered(m) \/ MutationFailed(m)
    \/ \E p \in polls : ServePoll(p) \/ PollAnswered(p) \/ PollFailed(p)
    \/ Bind \/ Unbind \/ RefreshNetwork
    \/ PostNetworkMessage \/ ChangeHall \/ BeginMutation
    \/ \E op \in {"invite", "connect"} : AsideBegins(op)
    \/ \E a \in asides : AsideEnds(a)

(* The Host answers, or the timer of boundedRequest gives the call up; the    *)
(* chain goes on and the poll timer fires.                                   *)
Fairness ==
    /\ WF_vars(RefreshNetwork) /\ WF_vars(BeginMutation)
    /\ WF_vars(\E p \in polls : ServePoll(p) \/ PollAnswered(p))
    /\ WF_vars(\E m \in running : ServeMutation(m) \/ MutationAnswered(m))
    /\ WF_vars(\E a \in asides : AsideEnds(a))

Spec == Init /\ [][Next]_vars
FairSpec == Spec /\ Fairness

-----------------------------------------------------------------------------
Underway(op) == \E m \in running : m.binding = binding /\ m.op = op
Queued(op) == \E k \in DOMAIN hallActions : hallActions[k] = op

(* Type invariant: and no poll or room is ahead of what it was taken from.    *)
TypeOK ==
    /\ phase \in {"starting", "online", "error"}
    /\ busy \in {None, "hall", "invite", "connect"}
    /\ {bound, posting} \subseteq BOOLEAN
    /\ \A p \in polls : p.version <= roomVersion /\ p.binding <= binding
    /\ room # None => room \in Rooms
    /\ room # None => room.cursor <= host.revision /\ room.readAt <= host.moves

(* The room shown comes from the Host bound now, and was not read there       *)
(* before the answer to the last hall action of the user was: no poll takes   *)
(* a join, a leave or a message of the user back.                             *)
OwnActionsShown ==
    room # None =>
        /\ room.from = binding
        /\ room.readAt >= answeredAt
        /\ posted # None => posted \in ToSet(room.messages) \cup host.absent
                              \/ \A m \in ToSet(room.messages) : m > posted

(* However deltas, whole rooms and the user's own messages were merged, what   *)
(* the Host showed when the room was last read is shown: a message is missing *)
(* only where one stands that the Host has withdrawn since.  Not so, in the   *)
(* code, once a message has come into view after it was logged, for its       *)
(* revision may be behind the cursor; nor, until the room is next read whole, *)
(* after an own message was appended to one dated later.                      *)
NoMessageLost ==
    room # None /\ host.belated = {} /\ ~room.outrun =>
        Cardinality(room.window \ ToSet(room.messages))
            <= Cardinality(ToSet(room.messages) \cap host.absent)

(* A control is locked only while a call of it is chained or under way: one   *)
(* that timed out, or went to an earlier Host, locks nothing for good.        *)
ControlsHonest ==
    /\ posting <=> Underway("post") \/ Queued("post")
    /\ busy = "hall" => Underway("hall")
    /\ busy \in {"invite", "connect"} => \E a \in asides : a.binding = binding /\ a.op = busy

(* Once nothing more happens, every control is released and the room was read  *)
(* after the last thing that happened at its Host, although calls fail, hang  *)
(* or become obsolete.  What a room read then shows is NoMessageLost's.        *)
Converges ==
    <>[](/\ ~posting /\ busy = None
         /\ bound => room # None /\ room.readAt = host.moves /\ phase = "online")
=============================================================================
