---------------------------- MODULE MCColumnCalls ----------------------------
(* Small vectors and bytes of two bits, so that an input of a few elements *)
(* crosses blocks, fills rooms and breaks off in the middle of a value.    *)
EXTENDS ColumnCalls

UpTo(n, S) == UNION {[1 .. m -> S] : m \in 0 .. n}

-----------------------------------------------------------------------------
(* Varints of up to three two-bit groups in words of five bits: values on  *)
(* both sides of each length, and any bytes at all.                        *)

MCColumns == UpTo(2, {0, 3, 4, 15, 16, 31}) \union {<<31, 16, 4>>, <<4, 0, 31>>}
MCRawStreams == UpTo(4, {1, 3, 5, 7}) \union {<<7, 7, 1, 7, 7, 7>>, <<5, 1, 7, 7, 3, 2>>}

-----------------------------------------------------------------------------
(* Columns of up to five elements in runs of every shape, cut by each of   *)
(* the rooms, and pairs no encoder writes.                                 *)

MCEncodings ==
    [a : UpTo(4, {0, 1}) \union {<<0, 0, 0, 0, 0>>, <<1, 0, 0, 0, 0>>}, scratch : {2, 5},
     vroom : {0, 1, 2, 5}, lroom : {1, 2, 5}, dcap : {0, 3, 5}]
MCExpansions ==
    [values : {<<0, 1>>, <<0, 1, 0>>}, counts : UpTo(2, {-1, 0, 1, 3}) \union {<<2, 0, 5>>}, dcap : 0 .. 4]

-----------------------------------------------------------------------------
(* All blocks of up to four bytes, and longer ones around a match.         *)

Literals == UpTo(2, {1, 2})
MCBlocks ==
    UpTo(4, 0 .. 3)
    \union {<<t, 0>> \o <<1>> \o o \o r : t \in {2, 3}, o \in UpTo(2, {0, 1}) , r \in UpTo(2, {0, 3})}
    \union {<<t, 3, 0, 1, 2, 1, 2>> \o o \o r : t \in {2, 3}, o \in [1 .. 2 -> 0 .. 3], r \in UpTo(2, {0, 2, 3})}
MCRooms == {0, 3, 6, 12}

-----------------------------------------------------------------------------
(* Blocks of four in the merge, and of two in the set operations.          *)

Rising(n, S) == {s \in [1 .. n -> S] : \A x \in 1 .. n - 1 : s[x] <= s[x + 1]}
MCAscending ==
    Rising(2, 1 .. 3) \union Rising(8, 1 .. 3)
    \union {<<1, 1, 2, 2, 2, 3, 4, 4, 5>>, <<2, 2, 2, 2, 4, 4, 4, 5, 5, 5, 6, 6>>,
            <<1, 3, 5, 7, 9, 9, 9, 9, 9, 9, 9, 9, 9>>, <<4, 4, 4, 4, 4, 4, 4, 4, 4, 5, 6>>}

Sorted(S) ==
    CHOOSE s \in [1 .. Cardinality(S) -> S] : \A x, y \in DOMAIN s : x < y => s[x] < s[y]
MCSets == {Sorted(S) : S \in SUBSET (1 .. 6)}

-----------------------------------------------------------------------------
(* Vectors of up to three words of three bits, and positions past them.    *)

MCVectors == UpTo(3, SUBSET (0 .. 2))
MCPositions == -1 .. 10
=============================================================================
