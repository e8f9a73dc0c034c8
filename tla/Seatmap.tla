------------------------------ MODULE Seatmap ------------------------------
(***************************************************************************)
(* A seatmap is blocks of rows; a row is a layout in which 'X' is a gap.   *)
(* The seats are counted in one walk (getSeatCount, for the limit on the   *)
(* tickets of an operation) and generated in another (seatsIterator, for   *)
(* the tickets), which is resumed once for every seat.                     *)
(***************************************************************************)
EXTENDS Naturals, Sequences, FiniteSets

CONSTANTS
    Name,                     \* of blocks and rows
    MaxBlocks, MaxRows, MaxLayout

BoundAssumption == {MaxBlocks, MaxRows, MaxLayout} \subseteq Nat

UpTo(n, S) == UNION {[1..k -> S] : k \in 0..n}

\* SeatRowSchema, SeatBlockSchema, SeatmapSchema: a layout is not empty, the
\* lists may be, and no name has to be unique
Row == [name : Name, layout : UpTo(MaxLayout, {"O", "X"}) \ {<<>>}]
Block == [name : Name, rows : UpTo(MaxRows, Row)]

VARIABLES seatmap, at, seats   \* at: block, row and index the iterator is at

vars == <<seatmap, at, seats>>

IsSeat(c) == c # "X"

\* the places of all layouts, gaps included: block, row and index
Places ==
    UNION {UNION {{<<b, r, i>> : i \in DOMAIN seatmap[b].rows[r].layout} :
                      r \in DOMAIN seatmap[b].rows} : b \in DOMAIN seatmap}

\* getSeatCount
SeatCount == Cardinality({p \in Places : IsSeat(seatmap[p[1]].rows[p[2]].layout[p[3]])})

Init == seatmap \in UpTo(MaxBlocks, Block) /\ at = <<1, 1, 1>> /\ seats = <<>>

InBlock == at[1] <= Len(seatmap)
InRow == InBlock /\ at[2] <= Len(seatmap[at[1]].rows)
TheRow == seatmap[at[1]].rows[at[2]]
Done == ~InBlock

\* the loops of seatsIterator
NextBlock ==
    /\ InBlock /\ ~InRow
    /\ at' = <<at[1] + 1, 1, 1>> /\ UNCHANGED seats

NextRow ==
    /\ InRow /\ at[3] > Len(TheRow.layout)
    /\ at' = <<at[1], at[2] + 1, 1>> /\ UNCHANGED seats

NextSeat ==
    /\ InRow /\ at[3] <= Len(TheRow.layout)
    /\ at' = [at EXCEPT ![3] = @ + 1]
    /\ seats' = IF TheRow.layout[at[3]] = "X" THEN seats
                ELSE Append(seats, <<seatmap[at[1]].name, TheRow.name, at[3]>>)

Next == (NextBlock \/ NextRow \/ NextSeat) /\ UNCHANGED seatmap

Spec == Init /\ [][Next]_vars

-----------------------------------------------------------------------------
\* As many seats are generated as were counted: the limit on the tickets of an
\* operation is checked against the number that is inserted.
CountIsSeats == Done => Len(seats) = SeatCount

=============================================================================
