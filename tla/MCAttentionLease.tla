-------------------------- MODULE MCAttentionLease --------------------------
EXTENDS AttentionLease, TLC

Symmetric == Permutations(Episodes) \cup Permutations(Leases)
=============================================================================
