-------------------------- MODULE MCDiscoveryArbiter --------------------------
EXTENDS DiscoveryArbiter
=============================================================================
