-------------------------- MODULE RecordingService --------------------------
(***************************************************************************)
(* What the callers of modules/screen_recorder.py rely on: one recording   *)
(* at a time, which once asked to stop is never resumed, and which does    *)
(* come to an end.  A new recording can only begin after the old one is    *)
(* over.                                                                   *)
(***************************************************************************)
VARIABLE phase

Init == phase = "off"

Begin  == phase = "off"       /\ phase' = "recording"
Halt   == phase = "recording" /\ phase' = "stopping"
GiveUp == phase = "recording" /\ phase' = "off"
WindUp == phase = "stopping"  /\ phase' = "off"

Next == Begin \/ Halt \/ GiveUp \/ WindUp

Spec == Init /\ [][Next]_phase

FairSpec == Spec /\ WF_phase(WindUp)
=============================================================================
