------------------------------ MODULE JsonValid ------------------------------
(***************************************************************************)
(* JSONValid (text.go) as internal/ref/text.go defines it: one pass over a *)
(* document, a block at a time.  A block's masks tell strings from the     *)
(* rest, with three carries into the next block; then its significant      *)
(* bytes are walked by the grammar, with a bit for each open container in  *)
(* a word, and the words that are full on a stack of the caller's.         *)
(*                                                                         *)
(* A byte stands for its class: q is a quotation mark, bs a backslash, sp  *)
(* the space, nl other white space, ctl any other control byte, d a digit, *)
(* n a letter that may be escaped, u the one that four hexadecimal digits  *)
(* must follow; d is one of 1 to 9, and a run of them is a number.  Signs, *)
(* fractions, a leading 0 (text.go:1172-1173), the letters among the four  *)
(* digits and the three names are left out.                                *)
(***************************************************************************)
EXTENDS Calls, FiniteSets

CONSTANTS BlockBits,  \* bytes of a block, 64 in the code
          LevelBits,  \* levels in a word, 64
          Documents   \* records: the text, and room, the length of the caller's stack

Chars == {"{", "}", "[", "]", ":", ",", "q", "bs", "sp", "nl", "ctl", "d", "n", "u"}

\* The escapes are resolved with the bits at even places, so a block has an even number.
ASSUME JsonAssumption ==
    /\ BlockBits \in Nat \ {0} /\ BlockBits % 2 = 0 /\ LevelBits \in Nat \ {0}
    /\ \A d \in Documents : d.text \in Seq(Chars) /\ d.room \in Nat

text == call.doc.text
Size == Len(text)
Char(p) == text[p + 1]

JsonInit ==
    /\ call \in [op : {"json"}, doc : Documents]
    /\ st = [pc |-> "block", blk |-> 0, pend |-> 0, ec |-> FALSE, sc |-> FALSE, lead |-> FALSE,
             sig |-> {}, expect |-> "value", lvl |-> 0, depth |-> 0, stk |-> <<>>]
    /\ out = 0

Answer01(result) ==
    /\ out' = result
    /\ Return
    /\ UNCHANGED call

-----------------------------------------------------------------------------
(* The masks of a block.  A word is the set of the places of its bits.     *)

Places == 0 .. BlockBits - 1
Bit0(b) == IF b THEN {0} ELSE {}
ShiftLeft(S) == {x + 1 : x \in S} \intersect Places
Xor(S, T) == (S \ T) \union (T \ S)

Base == st.blk * BlockBits
Held == {x \in Places : Base + x < Size}
Mask(S) == {x \in Held : Char(Base + x) \in S}

\* What a bit of either kind of word weighs.
Weight[x \in 0 .. BlockBits + LevelBits] == IF x = 0 THEN 1 ELSE 2 * Weight[x - 1]

AsNumber(S) ==
    LET f[x \in 0 .. BlockBits] == IF x = 0 THEN 0 ELSE f[x - 1] + IF x - 1 \in S THEN Weight[x - 1] ELSE 0
    IN f[BlockBits]
AsWord(v) == {x \in Places : (v \div Weight[x]) % 2 = 1}

EvenPlaces == {x \in Places : x % 2 = 0}

\* stage1Escaped: adding the odd places at which a run of backslashes begins to the runs
\* carries each of them to its end, and out of the word when it goes on.
Escaped(bs, carry) ==
    IF bs = {} THEN [e |-> Bit0(carry), carry |-> FALSE]
    ELSE LET b == bs \ Bit0(carry)
             follows == ShiftLeft(b) \union Bit0(carry)
             sum == AsNumber(((b \ EvenPlaces) \ follows)) + AsNumber(b)
         IN [e |-> Xor(EvenPlaces, ShiftLeft(AsWord(sum))) \intersect follows,
             carry |-> sum >= Weight[BlockBits]]

\* The six shifts: bit x is the parity of the bits up to it.
PrefixParity(q) == {x \in Places : Cardinality({y \in q : y <= x}) % 2 = 1}

\* Line breaks and tabs are both.
Space == {"sp", "nl"}
Controls == {"nl", "ctl"}

Simple == {"q", "bs", "n"}

\* The byte at p may follow a backslash; four digits may reach into the next block.
Escapable(p) ==
    p < Size /\ (Char(p) \in Simple \/ (Char(p) = "u" /\ p + 4 < Size /\ \A k \in 1 .. 4 : Char(p + k) = "d"))

\* A block's masks, its checks in their order, and the bytes the grammar will see.
StartBlock ==
    /\ In("json", "block") /\ Base < Size
    /\ LET esc == Escaped(Mask({"bs"}), st.ec)
           in == Xor(PrefixParity(Mask({"q"}) \ esc.e), IF st.sc THEN Places ELSE {})
           leaders == (Mask({"bs"}) \intersect in) \ esc.e
           targets == ShiftLeft(leaders) \union Bit0(st.lead)
           clean == /\ Mask(Controls) \intersect in = {}
                    /\ \A x \in targets : Escapable(Base + x)
       IN IF ~clean THEN Answer01(0)
          ELSE /\ st' = [st EXCEPT !.pc = "tokens", !.pend = 0, !.ec = esc.carry,
                                   !.sc = BlockBits - 1 \in in, !.lead = BlockBits - 1 \in leaders,
                                   !.sig = {x \in (Held \ Mask(Space)) \ in : Base + x >= st.pend}]
               /\ UNCHANGED <<call, out>>

EndBlock ==
    /\ In("json", "tokens") /\ st.sig = {}
    /\ st' = [st EXCEPT !.pc = "block", !.blk = @ + 1]
    /\ UNCHANGED <<call, out>>

Finish ==
    /\ In("json", "block") /\ Base >= Size
    /\ Answer01(IF ~st.sc /\ st.expect = "after" /\ st.depth = 0 THEN 1 ELSE 0)

-----------------------------------------------------------------------------
(* The grammar, a significant byte at a time.                              *)

FirstPlace == CHOOSE x \in st.sig : \A y \in st.sig : x <= y
Token == Char(Base + FirstPlace)

\* The next byte is taken, and the walk's state changed.
Step(new) ==
    /\ st' = [new EXCEPT !.sig = @ \ {FirstPlace}]
    /\ UNCHANGED <<call, out>>

Walking == In("json", "tokens") /\ st.sig # {}
WantsValue == st.expect \in {"value", "firstValue"}
InObject == st.lvl % 2 = 1

Colon ==
    /\ Walking /\ st.expect = "colon" /\ Token = ":"
    /\ Step([st EXCEPT !.expect = "value"])

Key ==
    /\ Walking /\ st.expect \in {"key", "firstKey"} /\ Token = "q"
    /\ Step([st EXCEPT !.expect = "colon"])

Comma ==
    /\ Walking /\ st.expect = "after" /\ Token = "," /\ st.depth > 0
    /\ Step([st EXCEPT !.expect = IF InObject THEN "key" ELSE "value"])

String ==
    /\ Walking /\ WantsValue /\ Token = "q"
    /\ Step([st EXCEPT !.expect = "after"])

Opens == Walking /\ WantsValue /\ Token \in {"{", "["}

\* The word is full of levels.
WordFull == st.depth % LevelBits = 0 /\ st.depth > 0

TooDeep ==
    /\ Opens /\ WordFull /\ Len(st.stk) >= call.doc.room
    /\ Answer01(-1)

Open ==
    /\ Opens /\ ~(WordFull /\ Len(st.stk) >= call.doc.room)
    /\ Step([st EXCEPT !.stk = IF WordFull THEN Append(@, st.lvl) ELSE @,
                       !.lvl = (2 * @ + IF Token = "{" THEN 1 ELSE 0) % Weight[LevelBits],
                       !.depth = @ + 1,
                       !.expect = IF Token = "{" THEN "firstKey" ELSE "firstValue"])

Closes ==
    /\ Walking /\ st.depth > 0
    /\ \/ Token = "}" /\ st.expect \in {"firstKey", "after"} /\ InObject
       \/ Token = "]" /\ st.expect \in {"firstValue", "after"} /\ ~InObject

\* Wrong on purpose: the word comes back one level late.
CloseLate ==
    /\ Closes
    /\ LET spilled == st.depth % LevelBits = 0 /\ st.depth > 0 /\ st.stk # <<>> IN
         Step([st EXCEPT !.depth = @ - 1,
                         !.lvl = IF spilled THEN st.stk[Len(st.stk)] ELSE @ \div 2,
                         !.stk = IF spilled THEN SubSeq(@, 1, Len(@) - 1) ELSE @,
                         !.expect = "after"])

Close ==
    /\ Closes
    /\ LET spilled == (st.depth - 1) % LevelBits = 0 /\ st.depth - 1 > 0 IN
         Step([st EXCEPT !.depth = @ - 1,
                         !.lvl = IF spilled THEN st.stk[Len(st.stk)] ELSE @ \div 2,
                         !.stk = IF spilled THEN SubSeq(@, 1, Len(@) - 1) ELSE @,
                         !.expect = "after"])

\* refNumberEnd: one past the run of digits at the byte in hand.
NumberEnd ==
    CHOOSE e \in Base + FirstPlace + 1 .. Size :
        /\ \A p \in Base + FirstPlace .. e - 1 : Char(p) = "d"
        /\ e < Size => Char(e) # "d"

Numeral == Walking /\ WantsValue /\ Token = "d"

\* The number is the last of the text.
NumberLast ==
    /\ Numeral /\ NumberEnd >= Size
    /\ Answer01(IF st.depth = 0 THEN 1 ELSE 0)

NumberHere ==
    /\ Numeral /\ NumberEnd < Size /\ NumberEnd \div BlockBits = st.blk
    /\ st' = [st EXCEPT !.expect = "after", !.sig = {x \in @ : Base + x >= NumberEnd}]
    /\ UNCHANGED <<call, out>>

\* Wrong on purpose: the bytes of the number are seen again where it ends.
NumberOnUncleared ==
    /\ Numeral /\ NumberEnd < Size /\ NumberEnd \div BlockBits > st.blk
    /\ st' = [st EXCEPT !.pc = "block", !.blk = NumberEnd \div BlockBits, !.sig = {},
                        !.expect = "after"]
    /\ UNCHANGED <<call, out>>

\* The number runs into a later block: the walk lands there.
NumberOn ==
    /\ Numeral /\ NumberEnd < Size /\ NumberEnd \div BlockBits > st.blk
    /\ st' = [st EXCEPT !.pc = "block", !.blk = NumberEnd \div BlockBits, !.pend = NumberEnd,
                        !.sig = {}, !.expect = "after"]
    /\ UNCHANGED <<call, out>>

\* What the byte may be in the state the walk is in.
Fits ==
    CASE st.expect = "colon" -> Token = ":"
      [] st.expect \in {"key", "firstKey"} -> Token = "q" \/ Closes
      [] st.expect = "after" -> (Token = "," /\ st.depth > 0) \/ Closes
      [] OTHER -> Token \in {"{", "[", "q", "d"} \/ Closes

Reject ==
    /\ Walking /\ ~Fits
    /\ Answer01(0)

-----------------------------------------------------------------------------
(* What a text is, byte by byte.                                           *)

\* An odd number of backslashes stands in front of p.
EscapedAt(p) ==
    \E k \in 0 .. p - 1 : /\ k % 2 = 0
                          /\ \A x \in p - 1 - k .. p - 1 : Char(x) = "bs"
                          /\ p - 1 - k > 0 => Char(p - 2 - k) # "bs"

Quotes == {p \in 0 .. Size - 1 : Char(p) = "q" /\ ~EscapedAt(p)}

\* From an opening quote on, up to its closing quote.
StringBytes ==
    LET quotes == Quotes IN {p \in 0 .. Size - 1 : Cardinality({x \in quotes : x <= p}) % 2 = 1}

\* The bytes in a string that a backslash makes special; the text may end before one.
EscapeTargets ==
    LET inside == StringBytes IN {p \in 1 .. Size : Char(p - 1) = "bs" /\ p - 1 \in inside /\ ~EscapedAt(p - 1)}

\* Nothing is wrong with the strings in the bytes below p.
CleanBelow(p) ==
    /\ \A x \in StringBytes : x < p => Char(x) \notin Controls
    /\ \A x \in EscapeTargets : x < p => Escapable(x)

Significant == {p \in (0 .. Size - 1) \ StringBytes : Char(p) \notin Space}

\* A string is its closing quote and a number its first digit.
TokenPlaces == {p \in Significant : ~(Char(p) = "d" /\ p > 0 /\ Char(p - 1) = "d")}

\* The tokens below p, in order.
TokensBelow(p) ==
    LET places == TokenPlaces
        f[x \in 0 .. Size] ==
          IF x = 0 THEN <<>> ELSE IF x - 1 \in places THEN Append(f[x - 1], Char(x - 1)) ELSE f[x - 1]
    IN f[IF p < Size THEN p ELSE Size]

\* The containers that are open after the tokens s, innermost last.
Unclosed(s) ==
    LET f[k \in 0 .. Len(s)] ==
          IF k = 0 THEN <<>>
          ELSE LET before == f[k - 1] IN
               CASE s[k] \in {"{", "["} -> Append(before, s[k])
                 [] s[k] \in {"}", "]"} -> SubSeq(before, 1, Len(before) - 1)
                 [] OTHER -> before
    IN f[Len(s)]

-----------------------------------------------------------------------------
(* What a document is: every token is one that may follow those before it. *)

\* The containers open before each token.
Around(s) == [k \in 1 .. Len(s) + 1 |-> Unclosed(SubSeq(s, 1, k - 1))]
Inside(around, k, c) == around[k] # <<>> /\ around[k][Len(around[k])] = c

IsKey(s, around, k) == s[k] = "q" /\ k > 1 /\ Inside(around, k, "{") /\ s[k - 1] \in {"{", ","}

EndsValue(s, around, k) == s[k] \in {"d", "}", "]", "q"} /\ ~IsKey(s, around, k)

StartsValue(s, around, k) ==
    \/ k = 1
    \/ k > 1 /\ (s[k - 1] \in {":", "["} \/ (s[k - 1] = "," /\ Inside(around, k, "[")))

MayFollow(s, around, k) ==
    CASE s[k] \in {"d", "[", "{"} -> StartsValue(s, around, k)
      [] s[k] = "q" -> StartsValue(s, around, k) \/ IsKey(s, around, k)
      [] s[k] = ":" -> k > 1 /\ IsKey(s, around, k - 1)
      [] s[k] = "," -> k > 1 /\ around[k] # <<>> /\ EndsValue(s, around, k - 1)
      [] s[k] = "}" -> Inside(around, k, "{") /\ (s[k - 1] = "{" \/ EndsValue(s, around, k - 1))
      [] s[k] = "]" -> Inside(around, k, "[") /\ (s[k - 1] = "[" \/ EndsValue(s, around, k - 1))
      [] OTHER -> FALSE

IsBeginning(s) == LET around == Around(s) IN \A k \in DOMAIN s : MayFollow(s, around, k)

IsDocument(s) ==
    s # <<>> /\ IsBeginning(s) /\ Unclosed(s) = <<>> /\ EndsValue(s, Around(s), Len(s))

\* The levels that a word and the stack hold.
MostLevels == LevelBits * (call.doc.room + 1)

\* The tokens that open a level too many, where all was well so far.
DeepPlaces ==
    {p \in TokenPlaces : /\ Char(p) \in {"{", "["}
                         /\ LET s == TokensBelow(p + 1) IN Len(Unclosed(s)) > MostLevels /\ IsBeginning(s)}

-----------------------------------------------------------------------------
(* Properties.                                                             *)

\* The kind of level k that the word or the stack keeps.
KeptKind(k) ==
    LET word == (k - 1) \div LevelBits
        place == (k - 1) % LevelBits
        bit == IF word < Len(st.stk)
               THEN (st.stk[word + 1] \div Weight[LevelBits - 1 - place]) % 2
               ELSE (st.lvl \div Weight[((st.depth - 1) % LevelBits) - place]) % 2
    IN IF bit = 1 THEN "{" ELSE "["

\* The first byte the grammar has not seen.
Reached ==
    IF st.pc = "tokens" THEN Base + IF st.sig = {} THEN BlockBits ELSE FirstPlace
    ELSE IF st.pend > Base THEN st.pend ELSE Base

\* internal/ref/text.go:1267-1285, 1356-1378 and 1444-1451: the word and the stack keep the
\* kinds of the containers that are open, on either side of a spill; and the carries into a block are what the bytes
\* before it make them, those of the blocks a number skips as well.
NestingKept ==
    call.op = "json" /\ ~Returned =>
    /\ LET open == Unclosed(TokensBelow(Reached)) IN
         /\ st.depth = Len(open)
         /\ \A k \in 1 .. st.depth : KeptKind(k) = open[k]
         /\ Len(st.stk) = IF st.depth = 0 THEN 0 ELSE (st.depth - 1) \div LevelBits
         /\ Len(st.stk) <= call.doc.room
    /\ st.pc = "block" /\ Base <= Size =>
         /\ st.ec <=> EscapedAt(Base)
         /\ st.sc <=> Base - 1 \in StringBytes
         /\ st.lead <=> Base \in EscapeTargets
    /\ \A x \in st.sig : Base + x \in Significant

\* text.go:751-756: the answer is 1 for a document and 0 for anything else, unless the
\* nesting outruns stk first: -1 is for a text that is sound up to the end of the block in
\* which it goes too deep.
ValidIsDocument ==
    call.op = "json" /\ Returned =>
    out = IF \E p \in DeepPlaces : CleanBelow((p \div BlockBits + 1) * BlockBits) THEN -1
          ELSE IF CleanBelow(Size + 1) /\ Size - 1 \notin StringBytes /\ IsDocument(TokensBelow(Size)) THEN 1
          ELSE 0
=============================================================================
