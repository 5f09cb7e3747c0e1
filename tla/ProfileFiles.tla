---------------------------- MODULE ProfileFiles ----------------------------
(***************************************************************************)
(* What ProfileStore and supervisor_lock promise about the files of one    *)
(* profile (app/infrastructure/profile_store.py), whoever uses them: the   *)
(* profile file, the runtime evidence file and the lock that guards both.  *)
(* Bridge and RuntimeManager implement it, each for its own operations.    *)
(***************************************************************************)

CONSTANTS
    Holders,    \* everyone who may hold the profile lock
    None        \* nobody

VARIABLES
    holder,     \* who holds supervisor_lock
    phase,      \* how far the holder's operation is
    present,    \* whether the profile file exists
    kind        \* the evidence file, and whether the process it records runs

vars == <<holder, phase, present, kind>>

Kinds  == {"none", "live", "stale"}

\* "stopped" is an operation that has answered STOPPED, "over" one with any
\* other answer; both still hold the lock.
Phases == {"free", "working", "stopped", "over"}

Init ==
    /\ holder = None /\ phase = "free"
    /\ present = TRUE
    /\ kind \in Kinds

\* The lock never blocks; an operation may end as soon as it has it.
Take(h) ==
    /\ holder = None /\ holder' = h
    /\ phase' \in {"working", "over"}
    /\ UNCHANGED <<present, kind>>

\* One step of the holder.  There is evidence only for an existing profile, the
\* profile goes only while there is none, and STOPPED is answered only when
\* none is left.
Work ==
    /\ holder # None /\ phase = "working"
    /\ phase' \in {"working", "stopped", "over"}
    /\ kind' \in Kinds /\ present' \in BOOLEAN
    /\ kind' # "none" => present'
    /\ present /\ ~ present' => kind = "none"
    /\ phase' = "stopped" => kind' = "none"
    /\ UNCHANGED holder

\* The lock is given up, by its holder or because the holder's process died.
Give ==
    /\ holder # None /\ holder' = None
    /\ phase' = "free"
    /\ UNCHANGED <<present, kind>>

\* The recorded process ends by itself.
Exit ==
    /\ kind = "live" /\ kind' = "stale"
    /\ UNCHANGED <<holder, phase, present>>

Next == (\E h \in Holders : Take(h)) \/ Work \/ Give \/ Exit

Spec == Init /\ [][Next]_vars
=============================================================================
