------------------------------ MODULE WorldGrid ------------------------------
(***************************************************************************)
(* The geometry of the sector grid (hooks/sector/world_grid.cpp): which     *)
(* sector, of this world or of a neighbour, a position is in, and where it  *)
(* is in that world's own coordinates.  A length is an integer and a cell   *)
(* is 2*half wide, so that half a cell is an integer as well; the rounding  *)
(* of floats is left out.                                                   *)
(***************************************************************************)
EXTENDS Integers, Sequences

\* (x0, y0) is the CENTRE of the south-west cell, first its sector id; a grid
\* without cells is not configured.
GridSpec == [half : Int, cols : Nat, rows : Nat, x0 : Int, y0 : Int, first : Nat]

Configured(g) == g.half > 0 /\ g.cols > 0 /\ g.rows > 0

West(g)   == g.x0 - g.half
South(g)  == g.y0 - g.half
Width(g)  == g.cols * 2 * g.half
Height(g) == g.rows * 2 * g.half
East(g)   == West(g) + Width(g)
North(g)  == South(g) + Height(g)

\* An operator called a Slip is a bug someone could write in place of the one
\* that follows it; nothing here uses it, it is there to show that the
\* properties would notice.
SlipClosedEdges(g, x, y) ==
  Configured(g) /\ West(g) <= x /\ x <= East(g) /\ South(g) <= y /\ y <= North(g)

\* Locate's tests: the west and south edges belong to the grid, the east and
\* north edges do not.
Covers(g, x, y) ==
  Configured(g) /\ West(g) <= x /\ x < East(g) /\ South(g) <= y /\ y < North(g)

\* The sector of a position that g covers: row-major, from the south-west.
SectorOf(g, x, y) ==
  g.first + ((y - South(g)) \div (2 * g.half)) * g.cols + (x - West(g)) \div (2 * g.half)

SlipFromOrigin(self, nb, x, y) ==
  LET n == nb.grid IN
  CASE nb.dir = "east"  -> <<x - East(self) + n.x0, y>>
    [] nb.dir = "west"  -> <<x - West(self) + West(n) + Width(n) - Width(self), y>>
    [] nb.dir = "north" -> <<x, y - North(self) + n.y0>>
    [] nb.dir = "south" -> <<x, y - South(self) + South(n) + Height(n) - Height(self)>>

\* A position of this world in the coordinates of neighbour nb.
ToNeighbour(self, nb, x, y) ==
  LET n == nb.grid IN
  CASE nb.dir = "east"  -> <<x - East(self) + West(n), y>>
    [] nb.dir = "west"  -> <<x - West(self) + West(n) + Width(n) - Width(self), y>>
    [] nb.dir = "north" -> <<x, y - North(self) + South(n)>>
    [] nb.dir = "south" -> <<x, y - South(self) + South(n) + Height(n) - Height(self)>>

OffWorld == [sector |-> 0, isSelf |-> FALSE, x |-> 0, y |-> 0, host |-> FALSE, world |-> 0]

\* Does neighbour number i contain the position?
NeighbourCovers(self, neighbours, i, x, y) ==
  LET l == ToNeighbour(self, neighbours[i], x, y)
  IN  Covers(neighbours[i].grid, l[1], l[2])

\* The own grid first, then the first neighbour that contains the position.
\* host: does that neighbour have a peerHost and a peerPort?
SectorForPos(self, neighbours, x, y) ==
  LET hits == {i \in 1..Len(neighbours) : NeighbourCovers(self, neighbours, i, x, y)} IN
  IF Covers(self, x, y)
    THEN [sector |-> SectorOf(self, x, y), isSelf |-> TRUE, x |-> x, y |-> y, host |-> FALSE, world |-> 0]
  ELSE IF hits = {} THEN OffWorld
  ELSE LET i == CHOOSE j \in hits : \A k \in hits : j <= k
           l == ToNeighbour(self, neighbours[i], x, y)
       IN  [sector |-> SectorOf(neighbours[i].grid, l[1], l[2]), isSelf |-> FALSE,
            x |-> l[1], y |-> l[2], host |-> neighbours[i].host, world |-> i]

-----------------------------------------------------------------------------
(* What the comments in world_grid.h say, as definitions of their own.      *)

\* "Cell (col=0, row=0) is CENTERED at (originX, originY)": the position is in
\* the square around the centre of cell <<col, row>>.
InCell(g, col, row, x, y) ==
  LET cx == g.x0 + col * 2 * g.half
      cy == g.y0 + row * 2 * g.half
  IN  cx - g.half <= x /\ x < cx + g.half /\ cy - g.half <= y /\ y < cy + g.half

\* "sector id at (col=0, row=0); row-major SW->NE": the sectors of g that the
\* position is in, at most one.
SectorsAt(g, x, y) ==
  {g.first + c[2] * g.cols + c[1] :
     c \in {d \in (0..(g.cols - 1)) \X (0..(g.rows - 1)) : InCell(g, d[1], d[2], x, y)}}

\* "stitched directly against ours at the named edge": a step beyond that edge
\* is as far inside the neighbour's opposite edge.
Stitched(self, nb, x, y) ==
  LET n == nb.grid IN
  CASE nb.dir = "east"  -> <<West(n) + (x - East(self)), y>>
    [] nb.dir = "west"  -> <<East(n) - (West(self) - x), y>>
    [] nb.dir = "north" -> <<x, South(n) + (y - North(self))>>
    [] nb.dir = "south" -> <<x, North(n) - (South(self) - y)>>

\* The position is on the neighbour's side of the named edge.
Beyond(self, nb, x, y) ==
  CASE nb.dir = "east"  -> x >= East(self)
    [] nb.dir = "west"  -> x < West(self)
    [] nb.dir = "north" -> y >= North(self)
    [] nb.dir = "south" -> y < South(self)
=============================================================================
