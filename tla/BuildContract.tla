---------------------------- MODULE BuildContract ----------------------------
(***************************************************************************)
(* What the status of a Build promises to those who read it and cannot see *)
(* the reconciler: it follows one ATC build at a time, from a phase to a   *)
(* later one of that same build and never ahead of the ATC; it lets go of  *)
(* the build only when the ATC has dropped it unfinished; and a recorded   *)
(* outcome is the end of the story.  BuildController implements it with an *)
(* informer cache that lags, retries, user edits, restarts and lost        *)
(* requests.                                                               *)
(***************************************************************************)
CONSTANT Ids    \* ids of ATC builds; 0 is none of them

VARIABLES
    id,      \* the build the status names, 0 if none
    phase,   \* the phase it reports
    builds   \* the ATC's builds

Ended  == {"succeeded", "failed", "errored", "aborted"}
Phases == {"", "pending", "started"} \cup Ended
States == {"none", "pending", "started", "gone"} \cup Ended

\* A build in phase p may later be in phase q: an ended build stays as it is.
NotBefore(p, q) ==
    /\ p = "pending" => q # ""
    /\ p = "started" => q \notin {"", "pending"}
    /\ p \in Ended => q = p

\* The ATC's build has come as far as phase p, or has been dropped since.
Reached(p, state) == state = "gone" \/ (state # "none" /\ NotBefore(p, state))

Init ==
    /\ id = 0 /\ phase = ""
    /\ builds \in [Ids -> {"none", "started", "gone"} \cup Ended]

\* The status reports a phase of the build it follows, or begins to follow one.
Report(i, p) ==
    /\ id \in {0, i}
    /\ NotBefore(phase, p) /\ Reached(p, builds[i])
    /\ id' = i /\ phase' = p
    /\ UNCHANGED builds

\* The ATC has dropped the build before its end was reported.
LetGo ==
    /\ id # 0 /\ phase \notin Ended /\ builds[id] = "gone"
    /\ id' = 0 /\ phase' = ""
    /\ UNCHANGED builds

\* Concourse creates builds, runs them and drops them.
Moves(from, to) ==
    \/ from = "none" /\ to \in {"none", "pending"}
    \/ from = "gone" /\ to = "gone"
    \/ from \notin {"none", "gone"} /\ Reached(from, to)

AtcStep ==
    /\ builds' \in [Ids -> States]
    /\ \A i \in Ids : Moves(builds[i], builds'[i])
    /\ UNCHANGED <<id, phase>>

Next == (\E i \in Ids, p \in Phases : Report(i, p)) \/ LetGo \/ AtcStep

Spec == Init /\ [][Next]_<<id, phase, builds>>
=============================================================================
