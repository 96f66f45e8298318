---------------------------- MODULE SampleWindow ----------------------------
(***************************************************************************)
(* What the users of a moving window rely on: "a moving window of entries  *)
(* (where oldest one get pushed away)" (util/moving_window.h): the samples *)
(* it holds are the latest Size that were recorded, the oldest first.      *)
(***************************************************************************)
EXTENDS Naturals, Sequences

CONSTANTS
    Size,       \* how many samples the window holds
    Sample      \* what can be recorded

VARIABLE samples

Latest(s) == IF Len(s) > Size THEN Tail(s) ELSE s

Init == samples = <<>>

Record == \E s \in Sample : samples' = Latest(Append(samples, s))

Spec == Init /\ [][Record]_samples
=============================================================================
