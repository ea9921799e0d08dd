----------------------------- MODULE MCOtMaster -----------------------------
(* Small instances of OtMaster. *)
EXTENDS OtMaster

MCFlows    == {45}
MCOutdoors == {-12, 20}
MCCeilings == {59, 64}
MCCurves   == {[ref |-> 18, design |-> -10, fmax |-> 70, fmin |-> 25]}
MCLimits   == {[known |-> TRUE, lb |-> 50, ub |-> 63]}
=============================================================================
