------------------------------ MODULE MCPeople ------------------------------
EXTENDS People, TLC

Swaps == Permutations(Devices)
=============================================================================
