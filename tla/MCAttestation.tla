--------------------------- MODULE MCAttestation ---------------------------
EXTENDS Attestation

HalfOfTheShares == [s \in Shares |-> 60]
=============================================================================
