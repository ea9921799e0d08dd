----------------------------- MODULE MCSettings -----------------------------
(* Instances of SettingsStore for TLC. *)
EXTENDS SettingsStore, TLC

Symmetry == Permutations(Addrs)
=============================================================================
