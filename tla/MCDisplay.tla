------------------------------ MODULE MCDisplay -------------------------------
EXTENDS Display

At(p) == [id |-> p, position |-> [a \in Axes |-> p], velocity |-> ZeroVector]
MCSnapshots == {<<>>, <<At(1)>>, <<At(2), At(1)>>}
=============================================================================
