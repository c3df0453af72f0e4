------------------------------ MODULE FogSight ------------------------------
(***************************************************************************)
(* What a unit sees (games/warcraft-3/game/g_fow.c:135-401): a disk of     *)
(* cells, or, where something in the box around it blocks sight, what a    *)
(* recursive shadow cast lights in its eight octants, and the blocking     *)
(* cells at the rim of what the player sees.  A slope, a float in the code *)
(* of numerator and denominator at most twice the radius, is the pair.     *)
(***************************************************************************)
EXTENDS Integers, Sequences, SequencesExt

CONSTANTS Width, Height \* of the grid, in cells

Column == 0 .. Width - 1
Row == 0 .. Height - 1
Cell == Column \X Row

Square(n) == n * n
Within(c, d, r) == Square(d[1] - c[1]) + Square(d[2] - c[2]) <= Square(r)

(* G_FowRevealDisk *)
Disk(c, r) == {d \in Cell : Within(c, d, r)}

(* G_FowAnyBlockedInBox *)
BlockedNear(c, r, blocked) ==
  \E b \in blocked : b[1] - c[1] \in -r .. r /\ b[2] - c[2] \in -r .. r

-----------------------------------------------------------------------------
(* Slopes of the left and right corner of the cell <<dx, -d>>. *)
Slope(n, d) == [num |-> n, den |-> d]
Less(a, b) == a.num * b.den < b.num * a.den
Left(dx, d) == Slope(1 - 2 * dx, 2 * d - 1)
Right(dx, d) == Slope(-1 - 2 * dx, 2 * d + 1)

Octant == {<<1, 0, 0, 1>>, <<0, 1, 1, 0>>, <<0, -1, 1, 0>>, <<-1, 0, 0, 1>>,
           <<-1, 0, 0, -1>>, <<0, -1, -1, 0>>, <<0, 1, -1, 0>>, <<1, 0, 0, -1>>}
At(c, dx, d, o) ==
  <<c[1] + dx * o[1] - d * o[2], c[2] + dx * o[3] - d * o[4]>>

Slopes(r) == [num : -2 * r - 1 .. 2 * r + 1, den : 1 .. 2 * r + 1]

(* The loops of G_FowCastLight from row d on, between two slopes.  The     *)
(* cells of a row are looked at from the diagonal to the axis; a run of    *)
(* blocked cells hides what is behind it, and what the row showed before   *)
(* the run is cast on by itself, from the next row.  Of the cells looked   *)
(* at, those on the grid and in the circle are lit (ShadowCast).           *)
CastLight(c, r, blocked, o) ==
  LET cast[d \in 1 .. r + 1, start \in Slopes(r), end \in Slopes(r)] ==
        LET Look(s, dx) ==
              LET cell == At(c, dx, d, o)
                  dark == cell \in blocked
                  lit == s.lit \cup {cell}
              IN  IF s.done \/ Less(s.start, Right(dx, d)) THEN s
                  ELSE IF Less(Left(dx, d), end) THEN [s EXCEPT !.done = TRUE]
                  ELSE IF s.blocked /\ dark
                    THEN [s EXCEPT !.lit = lit, !.next = Right(dx, d)]
                  ELSE IF s.blocked
                    THEN [s EXCEPT !.lit = lit, !.blocked = FALSE, !.start = s.next]
                  ELSE IF dark /\ d < r
                    THEN [s EXCEPT !.blocked = TRUE, !.next = Right(dx, d),
                           !.lit = lit \cup
                             IF Less(s.start, Left(dx, d)) THEN {}
                             ELSE cast[d + 1, s.start, Left(dx, d)]]
                  ELSE [s EXCEPT !.lit = lit]
            row == FoldLeft(Look,
                     [start |-> start, next |-> start, blocked |-> FALSE,
                      done |-> FALSE, lit |-> {}],
                     [i \in 1 .. d + 1 |-> i - 1 - d])
        IN  IF d > r THEN {}
            ELSE row.lit \cup IF row.blocked THEN {}
                              ELSE cast[d + 1, row.start, end]
  IN  cast[1, Slope(1, 1), Slope(0, 1)]

(* G_FowRevealShadowcast *)
ShadowCast(c, r, blocked) ==
  {c} \cup (Disk(c, r) \cap UNION {CastLight(c, r, blocked, o) : o \in Octant})

(* G_FowRevealBlockerRim: blocking cells, one cell further than the sight, *)
(* that touch a cell the player sees, by whichever unit.  A cell marked is *)
(* seen already when the next one is looked at: a row of blockers shows    *)
(* itself from left to right and from row to row, not backwards.           *)
ScanCell(i) == <<(i - 1) % Width, (i - 1) \div Width>>
Rim(c, r, blocked, visible) ==
  LET upto[i \in 0 .. Width * Height] ==
        IF i = 0 THEN visible
        ELSE LET b == ScanCell(i)
                 seen == upto[i - 1]
             IN  IF /\ b \in blocked /\ Within(c, b, r + 1)
                    /\ \E v \in seen : Within(b, v, 1)
                 THEN seen \cup {b} ELSE seen
  IN  upto[Width * Height]

(* G_FowRevealCircle: what the player sees when this unit has been added. *)
Reveal(visible, c, r, blocked) ==
  IF BlockedNear(c, r, blocked)
  THEN Rim(c, r, blocked, visible \cup ShadowCast(c, r, blocked))
  ELSE visible \cup Disk(c, r)
==============================================================================
