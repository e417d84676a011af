----------------------------- MODULE MCStartup -----------------------------
EXTENDS Startup

V(minor, patch, pre) == [major |-> 1, minor |-> minor, patch |-> patch, pre |-> pre]
MCCurrent == V(1, 0, 0)
MCLists == {{V(1, 0, 0), V(1, 1, 1)}, {V(0, 9, 0), V(1, 1, 0), V(2, 0, 0)}}
=============================================================================
