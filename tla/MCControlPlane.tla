--------------------------- MODULE MCControlPlane ----------------------------
EXTENDS ControlPlane, TLC

CONSTANTS c1, c2

MCConns == {c1, c2}

Sym == Permutations(MCConns)

MCTargets == {FwVersionToString(1), FwVersionToString(2)}

MCUpgrade == {FwVersionToString(2)}

MCNoTargets == {}
==============================================================================
