--------------------------- MODULE MCMemoryBanks ---------------------------
EXTENDS MemoryBanks

\* The constructor's settings, and others that differ in every field, with a
\* command set that the pane does not list.
Wacom  == [set |-> 3, format |-> 0, serial |-> 0, tilt |-> 1, mdm |-> 0, low |-> 0]
Bitpad == [set |-> 0, format |-> 1, serial |-> 1, tilt |-> 0, mdm |-> 1, low |-> 1]
TwoSettings == {Wacom, Bitpad}
=============================================================================
