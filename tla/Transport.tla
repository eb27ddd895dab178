----------------------------- MODULE Transport -----------------------------
(***************************************************************************)
(* What the playback engine promises, without its commands, flags and      *)
(* routine: a mailbox that holds the one track asked for last, one track   *)
(* running at a time, and one output stream that is either the running     *)
(* track's or kept from the one before it.                                 *)
(***************************************************************************)
CONSTANTS Files, NoFile

VARIABLES
    queued,     \* the request not yet taken, or NoFile
    running,    \* the track whose play routine runs, or NoFile
    device      \* "closed", the running "track"'s, or "held" for the next one

tvars == <<queued, running, device>>

Init == queued = NoFile /\ running = NoFile /\ device = "closed"

\* A newer request replaces one not yet taken.
Ask(f) == queued' = f /\ UNCHANGED <<running, device>>

\* A request is taken only when no track runs, and whole.
Start ==
    /\ queued /= NoFile /\ running = NoFile
    /\ running' = queued /\ queued' = NoFile
    /\ UNCHANGED device

\* A track may end at any time, once its stream is closed or handed on.
Finish ==
    /\ running /= NoFile /\ device /= "track"
    /\ running' = NoFile
    /\ UNCHANGED <<queued, device>>

\* Only a running track opens the output or takes over the held stream.
Open ==
    /\ running /= NoFile /\ device /= "track"
    /\ device' = "track"
    /\ UNCHANGED <<queued, running>>

Close == device /= "closed" /\ device' = "closed" /\ UNCHANGED <<queued, running>>

Hold == device = "track" /\ device' = "held" /\ UNCHANGED <<queued, running>>

Next == (\E f \in Files : Ask(f)) \/ Start \/ Finish \/ Open \/ Close \/ Hold

\* A request waits no longer than the track that runs.
Spec == Init /\ [][Next]_tvars /\ WF_tvars(Start)
=============================================================================
