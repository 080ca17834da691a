----------------------------- MODULE MCLeaseFile -----------------------------
(* Small instances of LeaseFile. *)
EXTENDS LeaseFile, TLC

MCSymmetry == Permutations(Versions)

=============================================================================
