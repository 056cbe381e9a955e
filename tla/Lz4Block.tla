------------------------------- MODULE Lz4Block -------------------------------
(***************************************************************************)
(* LZ4BlockDecode (lz4.go): the walk over the sequences of a block, a byte *)
(* of a length or a store of a copy at a time, as the reference makes it   *)
(* and as csrc/lz4.c does with its wide copies.                            *)
(*                                                                         *)
(* A byte is two nibbles; a token's nibble that is all ones is continued   *)
(* in the bytes that follow, and so is such a byte of a length.            *)
(***************************************************************************)
EXTENDS Calls

CONSTANTS Nibble,    \* values of half a byte, 2^4 in the code
          MinMatch,  \* 4
          Lane,      \* bytes of a wide copy, 16
          Blocks,    \* what is decoded, sequences of bytes
          Rooms      \* lengths of the destination

Byte == Nibble * Nibble

ASSUME BlockAssumption ==
    /\ Nibble \in Nat \ {0, 1} /\ MinMatch \in Nat \ {0} /\ Lane \in Nat \ {0}
    /\ Blocks \subseteq Seq(0 .. Byte - 1) /\ Rooms \subseteq Nat

BlockInit ==
    /\ call \in [op : {"lz4"}, impl : Implementations, src : Blocks, dcap : Rooms]
    /\ st = [pc |-> "token", i |-> 0, lit |-> 0, match |-> 0, offset |-> 0, k |-> 0]
    /\ out = [dst |-> <<>>, n |-> 0]

In2(S) == call.op = "lz4" /\ st.pc \in S

Unread == Len(call.src) - st.i
DstFree == call.dcap - Len(out.dst)

At(x) == call.src[x + 1]
OffsetAt(x) == At(x) + Byte * At(x + 1)

\* What the walk makes sure of where it is.  Otherwise the block ends inside a sequence, a
\* length passes what is left, or an offset reaches in front of the output, and it gives up.
Sound ==
    /\ st.pc \in {"token", "literalLength", "matchLength"} => Unread > 0
    /\ st.pc = "literals" => st.lit <= Unread /\ st.lit <= DstFree
    /\ st.pc = "offset" => Unread >= 2 /\ OffsetAt(st.i) \in 1 .. Len(out.dst)
    /\ st.pc = "match" => st.match <= DstFree

Malformed ==
    /\ call.op = "lz4" /\ ~Sound
    /\ out' = [out EXCEPT !.n = -1]
    /\ Return
    /\ UNCHANGED call

ReadToken ==
    /\ In2({"token"}) /\ Sound
    /\ LET t == At(st.i) IN
         st' = [st EXCEPT !.pc = IF t \div Nibble = Nibble - 1 THEN "literalLength" ELSE "literals",
                          !.i = @ + 1, !.lit = t \div Nibble, !.match = (t % Nibble) + MinMatch]
    /\ UNCHANGED <<call, out>>

\* The next byte of a length.
LengthByte ==
    /\ In2({"literalLength", "matchLength"}) /\ Sound
    /\ LET b == At(st.i) IN
         st' = IF st.pc = "literalLength"
               THEN [st EXCEPT !.i = @ + 1, !.lit = @ + b, !.pc = IF b = Byte - 1 THEN @ ELSE "literals"]
               ELSE [st EXCEPT !.i = @ + 1, !.match = @ + b, !.pc = IF b = Byte - 1 THEN @ ELSE "match"]
    /\ UNCHANGED <<call, out>>

StartCopy ==
    /\ In2({"literals", "match"}) /\ Sound
    /\ st' = [st EXCEPT !.pc = IF @ = "literals" THEN "copyLiterals" ELSE "copyMatch", !.k = 0]
    /\ UNCHANGED <<call, out>>

-----------------------------------------------------------------------------
(* The copies.  A wide one moves Lane bytes, and only where they all lie   *)
(* inside what is copied, the source and the destination.                  *)

\* k moves on, and the bytes go behind the output.
Put(bytes) ==
    /\ out' = [out EXCEPT !.dst = @ \o bytes]
    /\ st' = [st EXCEPT !.k = @ + Len(bytes)]
    /\ UNCHANGED call

WideLiterals ==
    /\ call.impl = "kernel" /\ st.lit >= Lane
    /\ st.k + Lane <= st.lit /\ st.i + st.k + Lane <= Len(call.src) /\ DstFree >= Lane

CopyLiterals ==
    /\ In2({"copyLiterals"}) /\ st.k < st.lit
    /\ Put(IF WideLiterals
           THEN SubSeq(call.src, st.i + st.k + 1, st.i + st.k + Lane)
           ELSE <<At(st.i + st.k)>>)

\* The final sequence has literals only.
LiteralsCopied ==
    /\ In2({"copyLiterals"}) /\ st.k >= st.lit
    /\ IF st.i + st.lit = Len(call.src)
       THEN /\ st' = [st EXCEPT !.i = @ + st.lit, !.pc = "returned"]
            /\ out' = [out EXCEPT !.n = Len(out.dst)]
       ELSE /\ st' = [st EXCEPT !.i = @ + st.lit, !.pc = "offset"]
            /\ UNCHANGED out
    /\ UNCHANGED call

Offset ==
    /\ In2({"offset"}) /\ Sound
    /\ st' = [st EXCEPT !.offset = OffsetAt(st.i), !.i = @ + 2,
                        !.pc = IF st.match = Nibble - 1 + MinMatch THEN "matchLength" ELSE "match"]
    /\ UNCHANGED <<call, out>>

\* What is offset bytes back, the first width of it.
Behind(width) == SubSeq(out.dst, Len(out.dst) - st.offset + 1, Len(out.dst) - st.offset + width)

WideMatch ==
    /\ call.impl = "kernel" /\ st.offset >= Lane
    /\ st.k + Lane <= st.match /\ DstFree >= Lane

\* Wrong on purpose: a wide copy may read bytes it is about to write, and finds zeros.
CopyMatchOverlapping ==
    /\ In2({"copyMatch"}) /\ st.k < st.match
    /\ Put(IF call.impl = "kernel" /\ st.k + Lane <= st.match
           THEN [x \in 1 .. Lane |-> IF x <= st.offset THEN out.dst[Len(out.dst) - st.offset + x] ELSE 0]
           ELSE Behind(1))

CopyMatch ==
    /\ In2({"copyMatch"}) /\ st.k < st.match
    /\ Put(Behind(IF WideMatch THEN Lane ELSE 1))

MatchCopied ==
    /\ In2({"copyMatch"}) /\ st.k >= st.match
    /\ st' = [st EXCEPT !.pc = "token"]
    /\ UNCHANGED <<call, out>>

BlockNext ==
    \/ Malformed \/ ReadToken \/ LengthByte \/ StartCopy
    \/ CopyLiterals \/ LiteralsCopied \/ Offset \/ CopyMatch \/ MatchCopied

-----------------------------------------------------------------------------
(* What a block means, sequence by sequence: [i, o, n] is how far src has  *)
(* been read, the output, and -2 until the end is known.                   *)

\* The position of the last byte of the length that is continued at p, if there is one.
LengthEnds(src, p) ==
    {q \in p .. Len(src) - 1 : src[q + 1] # Byte - 1 /\ \A r \in p .. q - 1 : src[r + 1] = Byte - 1}

\* The length that begins with a nibble and goes on at p, and where it ends.
WholeLength(src, nib, p) ==
    IF nib # Nibble - 1 THEN {[v |-> nib, next |-> p]}
    ELSE {[v |-> nib + (q - p) * (Byte - 1) + src[q + 1], next |-> q + 1] : q \in LengthEnds(src, p)}

Bad(o) == [i |-> 0, o |-> o, n |-> -1]

\* What follows the literals: the end, or a match, which repeats the last offset bytes.
AfterLiterals(src, cap, nib, i, o) ==
    IF i = Len(src) THEN [i |-> i, o |-> o, n |-> Len(o)]
    ELSE IF i + 2 > Len(src) THEN Bad(o)
    ELSE LET offset == src[i + 1] + Byte * src[i + 2]
             lengths == WholeLength(src, nib, i + 2)
         IN IF offset = 0 \/ offset > Len(o) \/ \A m \in lengths : Len(o) + m.v + MinMatch > cap
            THEN Bad(o)
            ELSE LET m == CHOOSE m \in lengths : TRUE
                     copy == [k \in 1 .. m.v + MinMatch |-> o[Len(o) - offset + 1 + ((k - 1) % offset)]]
                 IN [i |-> m.next, o |-> o \o copy, n |-> -2]

OneSequence(src, cap, i, o) ==
    IF i = Len(src) THEN Bad(o)
    ELSE LET lengths == WholeLength(src, src[i + 1] \div Nibble, i + 1) IN
         IF \A m \in lengths : m.next + m.v > Len(src) \/ Len(o) + m.v > cap THEN Bad(o)
         ELSE LET m == CHOOSE m \in lengths : TRUE
              IN AfterLiterals(src, cap, src[i + 1] % Nibble, m.next + m.v,
                               o \o SubSeq(src, m.next + 1, m.next + m.v))

\* Every sequence reads a byte, so Len(src) + 1 of them are enough.
Meaning(src, cap) ==
    LET f[m \in 0 .. Len(src) + 1] ==
          IF m = 0 THEN [i |-> 0, o |-> <<>>, n |-> -2]
          ELSE LET before == f[m - 1]
               IN IF before.n # -2 THEN before ELSE OneSequence(src, cap, before.i, before.o)
    IN f[Len(src) + 1]

-----------------------------------------------------------------------------
(* Properties.                                                             *)

\* lz4.go:3-7 and csrc/lz4.c:1-12, "the kernel writes nothing the reference would not":
\* whatever the block, what is written is never more than a prefix of what its sequences
\* mean before the first that is malformed, and at the end it is all of it, with its length
\* or -1.
BlockMeaning ==
    call.op = "lz4" =>
    LET whole == Meaning(call.src, call.dcap) IN
    /\ Len(out.dst) <= Len(whole.o)
    /\ out.dst = SubSeq(whole.o, 1, Len(out.dst))
    /\ Returned => out.n = whole.n /\ out.dst = whole.o
=============================================================================
