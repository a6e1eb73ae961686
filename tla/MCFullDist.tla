----------------------------- MODULE MCFullDist -----------------------------
(* Two ranks with two domains each.  The grids have blocks that the upper  *)
(* end cuts off in the fast dimension, more blocks than domains, and       *)
(* domains without a block; coordinates that rise, fall, stay or are not   *)
(* there, and a dimension of one value.  Positions are inside, between two *)
(* values, and outside of the grid.                                        *)
EXTENDS FullDist, TLC

CONSTANTS t1, t2, t3

Rising == <<-3, 29>>

Falling == <<8, 4>>

Plane(roundRobin, coords) ==
    [size |-> <<2, 5>>, wanted |-> <<3, -1>>, roundRobin |-> roundRobin,
     coords |-> coords, cellCentered |-> roundRobin]

Line ==
    [size |-> <<5>>, wanted |-> <<1>>, roundRobin |-> FALSE,
     coords |-> <<Rising>>, cellCentered |-> FALSE]

Pseudo ==
    [size |-> <<5, 1>>, wanted |-> <<1, 1>>, roundRobin |-> TRUE,
     coords |-> <<Rising, <<7, 7>>>>, cellCentered |-> TRUE]

Case(g, w, first) ==
    [file |-> g, byWindow |-> w, nextTag |-> (0 :> first) @@ (1 :> 1),
     started |-> [r \in Rank |-> TRUE]]

(* The second rank has started no communication thread.                    *)
Forgotten == [Case(Line, FALSE, 0) EXCEPT !.started = (0 :> TRUE) @@ (1 :> FALSE)]

Setups ==
    { Forgotten, Case(Plane(TRUE, <<Falling, <<>>>>), FALSE, 0), Case(Line, FALSE, 2),
      Case(Pseudo, TRUE, 0), Case(Plane(FALSE, <<<<6, 6>>, <<20, 4>>>>), TRUE, 0) }

Positions == { <<5, 7>>, <<20, -4>>, <<9, 26>>, <<-4>>, <<40>> }

Samples == -10 .. 40

Homes == (t1 :> 0) @@ (t2 :> 0) @@ (t3 :> 1)

Domains == (t1 :> 0) @@ (t2 :> 1) @@ (t3 :> 0)
=============================================================================
