------------------------------- MODULE MCPages -------------------------------
EXTENDS Pages

MCRows == 1 .. 4
MCLists == {"grants", "mine", "pending"}
MCLimits == {Nil, 0, 2, 9}
=============================================================================
