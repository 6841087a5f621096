------------------------------- MODULE MCUmat -------------------------------
\* A solid and a plane stress point of one material, whose second constant is read
\* by every call.
EXTENDS Umat

CONSTANTS t1, t2, solid, shell, steel

MCMaterial == [p \in Point |-> steel]
MCLive == [n \in Name |-> {2}]
MCBuildable(n, props) == props[1] = 0
MCArgs(plane, props, rotate, sound) ==
  [plane |-> plane, props |-> props, rotate |-> rotate, sound |-> sound]
MCDeck == {MCArgs(1, <<0, 0>>, FALSE, TRUE), MCArgs(1, <<0, 1>>, TRUE, TRUE),
           MCArgs(1, <<1, 0>>, FALSE, TRUE), MCArgs(1, <<0>>, FALSE, TRUE),
           MCArgs(1, <<0, 0>>, FALSE, FALSE)}
MCFewArgs == MCDeck \ {MCArgs(1, <<0, 1>>, TRUE, TRUE)}
=============================================================================
