---------------------------- MODULE VarintStream ----------------------------
(***************************************************************************)
(* LEB128 varints (varint.go): AppendVarints sizes and then writes a       *)
(* slice, and a receiver decodes the bytes as they arrive, with VarintDecode *)
(* called again past what the last call consumed.                          *)
(*                                                                         *)
(* A byte is a group of bits below Group, with Group added when another    *)
(* byte of the value follows.  Arrival and the receiver's loop are its own: *)
(* the doc comment tells it to resume "by re-slicing src past consumed".   *)
(***************************************************************************)
EXTENDS Calls, Ordered

CONSTANTS Group,       \* 2^7 in the code
          MaxLen,      \* bytes in the longest code, 10
          Load,        \* bytes the kernel loads at a time, 8
          Modulus,     \* 2^64
          Columns,     \* the slices that are encoded
          RawStreams,  \* byte streams no encoder need have written
          MaxRoom      \* bounds the destination of one call

\* What a group weighs that k others come before.
GroupPower[k \in 0 .. MaxLen] == IF k = 0 THEN 1 ELSE Group * GroupPower[k - 1]

\* A word's value fits the longest code, and what one load holds of a code fits a word.
ASSUME VarintAssumption ==
    /\ Group \in Nat \ {0, 1} /\ MaxLen \in Nat \ {0} /\ Load \in 1 .. MaxLen
    /\ Modulus \in GroupPower[Load] .. GroupPower[MaxLen] /\ MaxRoom \in Nat
    /\ Columns \subseteq Seq(0 .. Modulus - 1) /\ RawStreams \subseteq Seq(0 .. 2 * Group - 1)

Continues(b) == b >= Group

\* The sums of the first k of s.
RunningSums(s) ==
    LET f[k \in 0 .. Len(s)] == IF k = 0 THEN 0 ELSE f[k - 1] + s[k]
    IN f

Weighted(codes) ==
    RunningSums([k \in 1 .. Len(codes) |-> (codes[k] % Group) * GroupPower[k - 1]])[Len(codes)]

VarintInit ==
    /\ call \in [op : {"varint"}, impl : Implementations, raw : {FALSE}, values : Columns]
                \union [op : {"varint"}, impl : Implementations, raw : {TRUE}, values : RawStreams]
    /\ st = [pc |-> IF call.raw THEN "receive" ELSE "encode",
             v |-> 1, x |-> 0, have |-> 0, moved |-> TRUE, base |-> 0, i |-> 0, room |-> 0]
    /\ out = [bytes |-> IF call.raw THEN call.values ELSE <<>>, values |-> <<>>]

-----------------------------------------------------------------------------
(* AppendVarints.                                                          *)

\* varint_len: one byte, and one more for each power of Group the value reaches.
VarintLen(x) == 1 + Cardinality({k \in 1 .. MaxLen - 1 : x >= GroupPower[k]})

\* The bytes of the first k values.
SizeUpTo(k) == RunningSums([m \in 1 .. Len(call.values) |-> VarintLen(call.values[m])])[k]

VarintSize == SizeUpTo(Len(call.values))

\* One byte of value st.v, of which st.x groups have been shifted out.
EncodeByte ==
    /\ In("varint", "encode") /\ st.v <= Len(call.values)
    /\ LET x == call.values[st.v] \div GroupPower[st.x] IN
         IF x >= Group
         THEN /\ out' = [out EXCEPT !.bytes = Append(@, (x % Group) + Group)]
              /\ st' = [st EXCEPT !.x = @ + 1]
         ELSE /\ out' = [out EXCEPT !.bytes = Append(@, x)]
              /\ st' = [st EXCEPT !.x = 0, !.v = @ + 1]
    /\ UNCHANGED call

Encoded ==
    /\ In("varint", "encode") /\ st.v > Len(call.values)
    /\ st' = [st EXCEPT !.pc = "receive"]
    /\ UNCHANGED <<call, out>>

-----------------------------------------------------------------------------
(* VarintDecode.                                                           *)

\* More of the stream is here, or the last call stopped for want of room: decode the
\* bytes from st.base on.
Receive(have, room) ==
    /\ have > st.have \/ (have = st.have /\ st.moved)
    /\ st' = [st EXCEPT !.pc = "decode", !.have = have, !.room = room, !.i = 0]
    /\ UNCHANGED <<call, out>>

\* The lengths a code that begins at st.i may have: at most one, the first byte that does
\* not continue among those at hand.
Ends(reach) ==
    LET at == st.base + st.i IN
    {l \in 1 .. reach :
        /\ at + l <= st.have /\ ~Continues(out.bytes[at + l])
        /\ \A k \in 1 .. l - 1 : Continues(out.bytes[at + k])}

Left == st.have - st.base - st.i

Emit(l, value) ==
    /\ out' = [out EXCEPT !.values = Append(@, value)]
    /\ st' = [st EXCEPT !.i = @ + l, !.room = @ - 1]
    /\ UNCHANGED call

Decoding == In("varint", "decode") /\ st.room > 0 /\ Left > 0

\* The kernel's load holds a whole value.
Loaded == call.impl = "kernel" /\ Left >= Load /\ Ends(Load) # {}

DecodeLoaded ==
    /\ Decoding /\ Loaded
    /\ \E l \in Ends(Load) : Emit(l, Weighted(SubSeq(out.bytes, st.base + st.i + 1, st.base + st.i + l)))

\* Byte by byte, each group shifted into a word that keeps its low bits.
DecodeBytes ==
    /\ Decoding /\ ~Loaded
    /\ \E l \in Ends(MaxLen) :
         Emit(l, Weighted(SubSeq(out.bytes, st.base + st.i + 1, st.base + st.i + l)) % Modulus)

\* Wrong on purpose: the bytes of the value that is not complete count as consumed.
DecodeReturnSkipping ==
    /\ In("varint", "decode")
    /\ st.room = 0 \/ Left = 0 \/ (~Loaded /\ Ends(MaxLen) = {})
    /\ st' = [st EXCEPT !.pc = "receive", !.base = IF st.room > 0 THEN st.have ELSE @ + st.i,
                        !.moved = st.i > 0, !.i = 0]
    /\ UNCHANGED <<call, out>>

\* No room, no bytes, or no end of a value in what is here: what was complete is returned,
\* and the receiver moves past it.
DecodeReturn ==
    /\ In("varint", "decode")
    /\ st.room = 0 \/ Left = 0 \/ (~Loaded /\ Ends(MaxLen) = {})
    /\ st' = [st EXCEPT !.pc = "receive", !.base = @ + st.i, !.moved = st.i > 0, !.i = 0]
    /\ UNCHANGED <<call, out>>

\* Everything is here and the last call made nothing of it.
ReceiveEnd ==
    /\ In("varint", "receive")
    /\ st.have = Len(out.bytes) /\ ~st.moved
    /\ Return
    /\ UNCHANGED <<call, out>>

ReceiveSome ==
    /\ In("varint", "receive")
    /\ \E have \in 0 .. Len(out.bytes), room \in 1 .. MaxRoom : Receive(have, room)

VarintNext ==
    \/ EncodeByte \/ Encoded \/ ReceiveSome
    \/ DecodeLoaded \/ DecodeBytes \/ DecodeReturn \/ ReceiveEnd

-----------------------------------------------------------------------------
(* Properties.                                                             *)

\* Where the values of a stream end, up to the first that is too long: the bytes that do
\* not continue.
WholeEnds(s) ==
    {p \in DOMAIN s : /\ ~Continues(s[p])
                      /\ \A q \in 1 .. p - MaxLen : \E k \in q .. q + MaxLen - 1 : ~Continues(s[k])}

\* The values of the bytes up to end p, in order.
WholeValue(s, p) ==
    LET from == {q \in WholeEnds(s) : q < p}
        start == IF from = {} THEN 0 ELSE CHOOSE q \in from : \A r \in from : r <= q
    IN Weighted(SubSeq(s, start + 1, p)) % Modulus

\* varint.go:104-108, "resume by re-slicing src past consumed": however the stream is cut
\* and however small the destinations, what has been consumed ends with a value, what has
\* been decoded are the values up to there, and in the end the values there are.  The
\* encoder fills exactly the VarintSize bytes it asked for, and its values come back.
ResumedIsWhole ==
    call.op = "varint" =>
    /\ ~call.raw => Len(out.bytes) <= VarintSize
    /\ st.pc # "encode" =>
         LET ends == WholeEnds(out.bytes)
             at == st.base + st.i
             n == Len(out.values)
         IN /\ at \in ends \union {0}
            /\ n = Place(ends, at)
            /\ \A p \in ends : p <= at => out.values[Place(ends, p)] = WholeValue(out.bytes, p)
            /\ ~call.raw => /\ Len(out.bytes) = VarintSize
                            /\ n <= Len(call.values) /\ out.values = SubSeq(call.values, 1, n)
            /\ Returned => \A p \in ends : p <= at
            /\ Returned /\ ~call.raw => out.values = call.values
=============================================================================
