---------------------------- MODULE MCConnection ----------------------------
EXTENDS Connection

MCBodies == {0, 1, 3, 5}
MCShapes == {<<1>>, <<2, 3>>}

=============================================================================
