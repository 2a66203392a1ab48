---------------------------- MODULE MCSinkLedger ----------------------------
(* Model-checking instances of SinkLedger. *)
EXTENDS SinkLedger, TLC

CONSTANTS d1, d2, a1, a2

TwoDrivers   == {d1, d2}
TwoAddresses == {a1, a2}

LedgerSymmetry == Permutations(Drivers) \cup Permutations(Addresses)
=============================================================================
