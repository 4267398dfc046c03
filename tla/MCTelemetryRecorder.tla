------------------------ MODULE MCTelemetryRecorder ------------------------
(* Model checking of TelemetryRecorder: values are alike, and so are facts. *)
EXTENDS TelemetryRecorder, TLC

Symmetry == Permutations(Facts) \cup Permutations(Vals)
=============================================================================
