-------------------------------- MODULE Layout --------------------------------
(***************************************************************************)
(* How a level cuts a grid into blocks (grid/level/blocked.h), finds the   *)
(* block of a position (grid/level/level.h) and reads a block from the     *)
(* file (io/netcdfreader.h).                                               *)
(*                                                                         *)
(* A file is a record of the number of values in every dimension, of their *)
(* coordinates, of the block size wanted by the application (whose         *)
(* dimensions are in reverse order), of the distribution of the blocks,    *)
(* and of where the values are in their cells.  A grid g also has what     *)
(* open() derives from it.  Indices and sizes are sequences, whose element *)
(* i is element i - 1 of the arrays.                                       *)
(*                                                                         *)
(* Coordinates are whole numbers of the smallest fraction of a cell that   *)
(* is told apart, which is the NUMERIC_PRECISION of the code: 1e-10 of a   *)
(* cell there and 1/Fine here.  The coordinates of a dimension are its     *)
(* first and its last one, or nothing if the file has no such variable.    *)
(***************************************************************************)
EXTENDS BlockPlaces, FiniteSetsExt, SequencesExt

Abs(x) == IF x < 0 THEN -x ELSE x

Sign(x) == IF x < 0 THEN -1 ELSE 1

(* The product of the elements of a sequence.                              *)
Volume(s) == FoldLeft(LAMBDA x, y : x * y, 1, s)

-----------------------------------------------------------------------------
Fine == 4

Infinity == 1000                \* beyond all coordinates

(* NetCdfReader::getOffset and getScaling, without a coordinate variable 0 *)
(* and 1 cell.  A dimension of one value is everywhere.                    *)
GetOffset(file, i) == IF file.coords[i] = <<>> THEN 0 ELSE file.coords[i][1]

GetScaling(file, i) ==
    CASE file.size[i] = 1 -> Infinity
      [] file.size[i] # 1 /\ file.coords[i] = <<>> -> Fine
      [] OTHER -> (file.coords[i][2] - file.coords[i][1]) \div (file.size[i] - 1)

(* Faulty variant: all of the half cell.                                   *)
MarginHalf(file, i) == IF file.cellCentered THEN GetScaling(file, i) \div 2 ELSE 0

(* Level::open: cells reach half a cell beyond the values, less than what  *)
(* would be rounded to the next value.                                     *)
Margin(file, i) ==
    IF file.cellCentered
    THEN GetScaling(file, i) \div 2 - GetScaling(file, i) \div Fine
    ELSE 0

Ends(file, i) ==
    IF GetScaling(file, i) = Infinity THEN {-Infinity, Infinity}
    ELSE { GetOffset(file, i) - Margin(file, i),
           GetOffset(file, i) + GetScaling(file, i) * (file.size[i] - 1) + Margin(file, i) }

OpenedLevel(file) ==
    LET n == Len(file.size)
        scaling == [i \in 1 .. n |-> GetScaling(file, i)]
    IN  [coords |-> file.coords,
         offset |-> [i \in 1 .. n |-> GetOffset(file, i)],
         perCell |-> [i \in 1 .. n |-> IF scaling[i] = Infinity THEN 0 ELSE scaling[i]],
         scaling |-> [i \in 1 .. n |-> Abs(scaling[i])],
         min |-> [i \in 1 .. n |-> Min(Ends(file, i))],
         max |-> [i \in 1 .. n |-> Max(Ends(file, i))]]

(* Blocked::open: 0 stands for the default of 64, a negative size for the  *)
(* whole dimension, and no block is larger than the grid.  The size of 1   *)
(* set for a time dimension before is overwritten by the default.          *)
BlockSizeOf(wanted, size) ==
    IF wanted < 0 THEN size ELSE Min({size, IF wanted = 0 THEN 64 ELSE wanted})

Opened(file) ==
    LET n == Len(file.size)
        blockSize == [i \in 1 .. n |->
            BlockSizeOf(file.wanted[n - i + 1], file.size[i])]
        blocks == [i \in 1 .. n |->
            (file.size[i] + blockSize[i] - 1) \div blockSize[i]]
    IN  [level |-> OpenedLevel(file), size |-> file.size, roundRobin |-> file.roundRobin,
         blockSize |-> blockSize, totalBlockSize |-> Volume(blockSize),
         blocks |-> blocks, count |-> Volume(blocks)]

(* A number in mixed radix, the last digit running fastest, and back.      *)
Number(digits, radix) ==
    FoldLeftDomain(LAMBDA n, i : n * radix[i] + digits[i], 0, radix)

Digits(n, radix) ==
    [i \in DOMAIN radix |-> (n \div Volume(SubSeq(radix, i + 1, Len(radix)))) % radix[i]]

CalcBlockPosition(g, block) == Digits(block, g.blocks)

BlockByCoords(g, index) ==
    Number([i \in DOMAIN index |-> index[i] \div g.blockSize[i]], g.blocks)

CalcOffsetInBlock(g, index) ==
    Number([i \in DOMAIN index |-> index[i] % g.blockSize[i]], g.blockSize)

-----------------------------------------------------------------------------
(* getBlock: at the upper end of the grid there is less than a block.      *)
Start(g, block) ==
    [i \in DOMAIN g.size |-> CalcBlockPosition(g, block)[i] * g.blockSize[i]]

ActSize(g, block) ==
    [i \in DOMAIN g.size |-> Min({g.blockSize[i], g.size[i] - Start(g, block)[i]})]

Imap(g) ==
    [i \in DOMAIN g.size |-> Volume(SubSeq(g.blockSize, i + 1, Len(g.size)))]

(* A value of the file is named by its index.  NetCDF reads values of      *)
(* user-defined types without gaps: the first ones of the buffer.          *)
Shifted(s, t) == [i \in DOMAIN s |-> s[i] + t[i]]

Unset == <<>>

Unmapped(g, block) ==
    [k \in 0 .. g.totalBlockSize - 1 |->
        IF k < Volume(ActSize(g, block))
        THEN Shifted(Start(g, block), Digits(k, ActSize(g, block)))
        ELSE Unset]

(* getVar<void> then spreads the values from the last to the first.  One   *)
(* pass of its loop: copy, and step back in the file and in the buffer.    *)
(* The inner loop borrows from one dimension after the other.              *)
Borrow(g, block, s) ==
    LET act == ActSize(g, block)
        n == Len(g.size)
        after[k \in 0 .. n - 1] ==
            IF k = 0 THEN s
            ELSE LET p == after[k - 1]
                     i == n + 1 - k
                 IN  IF p.pos[i] >= 0 THEN p
                     ELSE [p EXCEPT !.pos[i - 1] = @ - 1,
                                    !.pos[i] = act[i] - 1,
                                    !.indexBuf = @ - Imap(g)[i - 1] + Imap(g)[i] * act[i]]
    IN  after[n - 1]

(* Faulty variant: the buffer's index goes back by what was read.          *)
SpreadDense(g, block, s) ==
    [s EXCEPT !.buf[s.indexBuf] = s.buf[s.indexFile],
              !.indexFile = @ - 1, !.indexBuf = @ - 1]

Spread(g, block, s) ==
    Borrow(g, block,
        [s EXCEPT !.buf[s.indexBuf] = s.buf[s.indexFile],
                  !.indexFile = @ - 1, !.indexBuf = @ - 1, !.pos[Len(g.size)] = @ - 1])

Loaded(g, block) ==
    LET act == ActSize(g, block)
        last == [i \in DOMAIN act |-> act[i] - 1]
        first == [buf |-> Unmapped(g, block), pos |-> last,
                  indexFile |-> Volume(act) - 1, indexBuf |-> Number(last, g.blockSize)]
        after[k \in 0 .. Volume(act)] ==
            IF k = 0 THEN first
            ELSE LET s == after[k - 1]
                 IN  IF s.indexFile < 0 \/ s.indexFile >= s.indexBuf THEN s
                     ELSE Spread(g, block, s)
    IN  after[Volume(act)].buf

(* The getters of a level, for dimension n as the application counts them. *)
GetMin(g, n) == g.level.min[Len(g.size) - n]

GetMax(g, n) == g.level.max[Len(g.size) - n]

GetDelta(g, n) == g.level.scaling[Len(g.size) - n]

(* The nearest whole number of cells, half a cell going up; the inverse of *)
(* the scaling is 0 where the scaling is 0 or infinite.                    *)
Cells(distance, perCell) ==
    IF perCell = 0 THEN 0
    ELSE (2 * distance * Sign(perCell) + Abs(perCell)) \div (2 * Abs(perCell))

(* Faulty variant: one position too many.                                  *)
ClampedLate(x, size) == IF x < 0 THEN 0 ELSE IF x > size THEN size - 1 ELSE x

(* Level::pos2index: positions outside of the grid are moved to its edge,  *)
(* with a warning, and the order of the dimensions is reversed.            *)
OutOfRange(x, size) == x < 0 \/ x >= size

Clamped(x, size) == IF x < 0 THEN 0 ELSE IF x >= size THEN size - 1 ELSE x

Unclamped(g, pos, i) == Cells(pos[Len(g.size) - i + 1] - g.level.offset[i], g.level.perCell[i])

Pos2Index(g, pos) == [i \in DOMAIN g.size |-> Clamped(Unclamped(g, pos, i), g.size[i])]

Index(g) == { Digits(n, g.size) : n \in 0 .. Volume(g.size) - 1 }
=============================================================================
