--------------------------- MODULE MCPosCallback ----------------------------
(* Two orders of one outlet and one of another, and callbacks that name    *)
(* them well and badly, with and without credentials.                      *)
EXTENDS PosCallback, TLC

CONSTANTS mine, sibling, other,   \* orders
          here, there,            \* outlets
          r1, r2, r3              \* restIDs of here, of there, of nobody

MCBranch == mine :> here @@ sibling :> here @@ other :> there
MCLinks == r1 :> here @@ r2 :> there @@ r3 :> None @@ None :> None

Says(trusted, rest, legacy, callback, explicit) ==
    [trusted |-> trusted, rest |-> rest, legacy |-> legacy,
     callback |-> callback, explicit |-> explicit]

MCShapes ==
    {Says(t, r1, None, mine, None) : t \in BOOLEAN}       \* as documented
    \cup {Says(FALSE, r1, None, n, None) : n \in 1..2}    \* a POS id
    \cup {Says(TRUE, None, mine, None, None),             \* the legacy client
          Says(TRUE, r1, mine, 1, None),
          Says(TRUE, r2, None, mine, None),               \* another outlet's
          Says(FALSE, r2, None, 1, None),
          Says(FALSE, r1, mine, sibling, None),           \* two orders
          Says(FALSE, r3, None, mine, None)}              \* not linked

BothHandlers == Permutations(Handler)
=============================================================================
