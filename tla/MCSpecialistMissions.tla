----------------------- MODULE MCSpecialistMissions -----------------------
EXTENDS SpecialistMissions, TLC

Symmetric == Permutations(Missions) \cup Permutations(Attempts)
============================================================================
