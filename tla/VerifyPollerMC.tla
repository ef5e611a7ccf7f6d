--------------------------- MODULE VerifyPollerMC ---------------------------
\* An instance of VerifyPoller for TLC.
EXTENDS VerifyPoller, TLC
CONSTANTS a1, a2, b1, A, B
TwoTenants == A :> {a1, a2} @@ B :> {b1}
=============================================================================
