---------------------------- MODULE MCSectorEdge ----------------------------
(* Small worlds: one cell of two by two positions with neighbours of equal   *)
(* and of unequal cells and sizes, and with ids beyond slot 49.              *)
EXTENDS SectorEdge

Grid(half, cols, rows, west, south, first) ==
  [half |-> half, cols |-> cols, rows |-> rows, x0 |-> west + half, y0 |-> south + half, first |-> first]

Neighbour(dir, grid, host) == [dir |-> dir, grid |-> grid, host |-> host]

Own       == Grid(1, 1, 1, 0, 0, 1)
Twin      == Grid(1, 2, 2, 0, 0, 1)
ToEast    == Neighbour("east", Grid(1, 2, 2, 10, 0, 10), TRUE)
ToNorth   == Neighbour("north", Grid(1, 1, 2, 0, -7, 442), TRUE)
WideNorth == Neighbour("north", Grid(2, 1, 1, -2, 5, 20), FALSE)
ToWest    == Neighbour("west", Grid(1, 2, 2, 10, 0, 10), TRUE)
ToSouth   == Neighbour("south", Grid(1, 2, 2, 0, 10, 20), TRUE)

EastNorth == {[self |-> Own, neighbours |-> <<ToEast, ToNorth>>],
              [self |-> Own, neighbours |-> <<WideNorth>>],
              [self |-> Twin, neighbours |-> <<>>]}
WestSouth == {[self |-> Twin, neighbours |-> <<ToWest, ToSouth>>]}

Near   == 0..3
Around == -1..4
=============================================================================
