---------------------------- MODULE EntryPromise ----------------------------
(***************************************************************************)
(* What ConfigEntries promises an integration about one of its entries.    *)
(*                                                                         *)
(* async_setup_entry and async_unload_entry alternate; a set-up starts     *)
(* only on an entry that is registered and that holds nothing of an        *)
(* earlier one (its on_unload callbacks all ran); a retry is armed only    *)
(* while the entry is down; an entry that could not be unloaded is left    *)
(* alone; an entry is deleted only when it is down or stuck.               *)
(***************************************************************************)
VARIABLES
  life,        \* "down", "starting", "up", "stopping" or "stuck"
  held,        \* does the integration hold what on_unload would release?
  retry,       \* is a set-up retry armed?
  registered   \* is the entry still one of the manager's?

vars == <<life, held, retry, registered>>

Init == life = "down" /\ held = FALSE /\ retry = FALSE /\ registered = TRUE

\* A reload that follows an unload at once goes from "stopping" to "starting".
Start ==
  /\ life \in {"down", "stopping"}
  /\ ~held /\ registered
  /\ life' = "starting" /\ retry' = FALSE
  /\ UNCHANGED <<held, registered>>

Hold ==
  /\ life = "starting"
  /\ held' = TRUE
  /\ UNCHANGED <<life, retry, registered>>

Release ==
  /\ life \in {"starting", "stopping"}
  /\ held' = FALSE
  /\ UNCHANGED <<life, retry, registered>>

Started ==
  /\ life = "starting" /\ held
  /\ life' = "up"
  /\ UNCHANGED <<held, retry, registered>>

\* The set-up failed for good, or is to be tried again.
NotStarted ==
  /\ life = "starting"
  /\ life' = "down" /\ held' = FALSE /\ retry' \in BOOLEAN
  /\ UNCHANGED registered

Stop ==
  /\ life = "up"
  /\ life' = "stopping"
  /\ UNCHANGED <<held, retry, registered>>

Stopped ==
  /\ life = "stopping" /\ ~held
  /\ life' = "down"
  /\ registered' \in {registered, FALSE}
  /\ UNCHANGED <<held, retry>>

NotStopped ==
  /\ life \in {"up", "stopping"}
  /\ life' = "stuck"
  /\ registered' \in {registered, FALSE}
  /\ UNCHANGED <<held, retry>>

CancelRetry ==
  /\ life = "down"
  /\ retry' = FALSE
  /\ UNCHANGED <<life, held, registered>>

Remove ==
  /\ life \in {"down", "stuck"}
  /\ registered' = FALSE /\ retry' = FALSE
  /\ UNCHANGED <<life, held>>

Next ==
  \/ Start \/ Hold \/ Release \/ Started \/ NotStarted
  \/ Stop \/ Stopped \/ NotStopped \/ CancelRetry \/ Remove

Spec == Init /\ [][Next]_vars
=============================================================================
