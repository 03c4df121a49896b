-------------------------------- MODULE Lifetime --------------------------------
(***************************************************************************)
(* A controller from start to start: Settings is what it does while it     *)
(* serves, Startup how it gets there.  When a process ends its memory is   *)
(* gone, and nobody writes the settings table until the next one reads it: *)
(* the restart of Settings, which is all of it, is taken with the end.     *)
(***************************************************************************)
EXTENDS Settings, Startup

LifetimeInit == Init /\ StartupInit

Work == stage = "serve" /\ Serving /\ UNCHANGED startup

(* A process that does not serve yet, or none. *)
Prepare == (Step \/ Crash \/ Older) /\ UNCHANGED vars

End == Stop /\ Restart

LifetimeNext == Work \/ Prepare \/ End

LifetimeSpec ==
    /\ LifetimeInit /\ [][LifetimeNext]_<<vars, startup>>
    /\ \A r \in Requests : WF_<<vars, startup>>(Work /\ Request(r))
    /\ \A l \in Logins : WF_<<vars, startup>>(Work /\ (Discovered(l) \/ Use(l)))
    /\ WF_startup(Step)
=============================================================================
