-------------------------------- MODULE Gate --------------------------------
(***************************************************************************)
(* What the boundary promises for one tool call, without its code: a call  *)
(* that maps to a set of effects is allowed only after the service has     *)
(* permitted every one of them in that very call; a call without a mapping *)
(* may be deferred to the host; any call may be blocked, and may fail with *)
(* an exception.                                                           *)
(***************************************************************************)
CONSTANT Pairs

VARIABLES
  stage,   \* where the call is
  owed     \* the effects of the call the service has yet to permit

Init == stage = "idle" /\ owed = {}

Call == stage = "idle" /\ stage' = "received" /\ UNCHANGED owed

\* The call causes exactly these effects.
Judge(effects) ==
  /\ stage = "received"
  /\ effects # {}
  /\ stage' = "judging"
  /\ owed' = effects

Permit(p) ==
  /\ stage = "judging"
  /\ p \in owed
  /\ owed' = owed \ {p}
  /\ UNCHANGED stage

Allow == stage = "judging" /\ owed = {} /\ stage' = "allow" /\ UNCHANGED owed

Defer == stage = "received" /\ stage' = "defer" /\ UNCHANGED owed

Refuse ==
  /\ stage \in {"received", "judging"}
  /\ stage' \in {"block", "raise"}
  /\ owed' = {}

Close == stage \in {"allow", "defer", "block", "raise"} /\ stage' = "idle" /\ UNCHANGED owed

Next ==
  \/ Call
  \/ \E effects \in SUBSET Pairs : Judge(effects)
  \/ \E p \in Pairs : Permit(p)
  \/ Allow \/ Defer \/ Refuse \/ Close

Spec == Init /\ [][Next]_<<stage, owed>>
=============================================================================
