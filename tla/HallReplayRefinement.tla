------------------------ MODULE HallReplayRefinement -------------------------
(***************************************************************************)
(* HallReplay implements HallLog: seen from between two events, the loops  *)
(* of derive() compute exactly the closed form of HallDerive.  The history *)
(* variables keep the hall and the event from before the event under way.  *)
(***************************************************************************)
EXTENDS MCHallReplay, HallDerive

VARIABLES base, baseEvent

Hall == [seats |-> seats, queue |-> queue,
         cooldownUntil |-> cooldownUntil, messages |-> messages]

Settled == phase \in {"next", "returned"}

InitH == Init /\ base = Hall /\ baseEvent = None

NextH ==
    /\ Next
    /\ IF phase' \in {"next", "returned"}
       THEN /\ base' = Hall'
            /\ baseEvent' = IF phase' = "next" THEN event' ELSE baseEvent
       ELSE UNCHANGED <<base, baseEvent>>

SpecH == InitH /\ [][NextH]_<<vars, base, baseEvent>>
FairSpecH == SpecH /\ WF_vars(Loop)

Log == INSTANCE HallLog WITH settled <- base, last <- baseEvent, done <- (phase = "returned")

(* Every run of the loops is a run of the one-step-per-event specification   *)
(* (derive and the functions it calls, room-events.ts:217-325).              *)
ReplaysLikeDerive == Log!Spec
=============================================================================
