---------------------------- MODULE MCIngestFarm ---------------------------
EXTENDS IngestFarm, TLC

Symmetry == Permutations(Requests) \cup Permutations(Channels)
=============================================================================
