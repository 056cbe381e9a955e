------------------------------ MODULE Transcode ------------------------------
(***************************************************************************)
(* The transcoding of utf16.go: between UTF-8 and UTF-16 (AppendUTF16,     *)
(* AppendUTF8) or runes (AppendRunes, AppendUTF8FromRunes), and the counts *)
(* UTF16Len, UTF8Len and RuneCount.  A turn is a run of ASCII, as long as  *)
(* a kernel says it is, or one rune.                                       *)
(*                                                                         *)
(* A character stands for its class: how many bytes, or units, it takes is *)
(* all that matters.  "bad" is a byte that begins no rune, "hi" and "lo"   *)
(* are surrogates, "beyond" is a value above utf8.MaxRune or below zero,   *)
(* and "fffd" is the replacement character.                                *)
(***************************************************************************)
EXTENDS Calls, FiniteSets

CONSTANTS AsciiRunFloor,  \* asciiRunFloor, 64 in the code
          Texts,          \* sequences of characters, to be widened and turned back
          UnitTexts,      \* sequences of units, surrogates in any order
          RuneTexts,      \* sequences of runes, among them values that are none
          Claims          \* the most of a run that a kernel finds: it is not trusted

Characters == {"a", "two", "three", "four", "bad", "fffd"}
Units == {"a", "two", "three", "hi", "lo", "fffd"}
Runes == {"a", "two", "three", "four", "hi", "lo", "fffd", "beyond"}

ASSUME TextsAssumption ==
    /\ AsciiRunFloor \in Nat
    /\ Claims \subseteq Int
    /\ Texts \subseteq Seq(Characters) /\ UnitTexts \subseteq Seq(Units) /\ RuneTexts \subseteq Seq(Runes)

\* The bytes a character takes, as utf8.RuneLen has it.
Bytes8(c) ==
    CASE c \in {"a", "bad"} -> 1 [] c = "two" -> 2 [] c \in {"three", "fffd"} -> 3 [] c = "four" -> 4

ByteLen(s) ==
    LET f[x \in 0 .. Len(s)] == IF x = 0 THEN 0 ELSE f[x - 1] + Bytes8(s[x]) IN f[Len(s)]

\* st.todo is what has not been consumed, st.to the encoding that is written, and call.wide
\* the one that is not UTF-8.
TranscodeInit ==
    /\ \/ call \in [op : {"utf"}, to : {16, 32}, wide : {16, 32}, counts : BOOLEAN, src : Texts, claim : Claims]
          /\ call.to = call.wide
       \/ call \in [op : {"utf"}, to : {8}, wide : {16}, counts : BOOLEAN, src : UnitTexts, claim : Claims]
       \/ call \in [op : {"utf"}, to : {8}, wide : {32}, counts : {FALSE}, src : RuneTexts, claim : Claims]
    /\ st = [pc |-> "turn", to |-> call.to, todo |-> call.src, n |-> 0]
    /\ out = [units |-> <<>>, chars |-> <<>>]

Turning == In("utf", "turn") /\ st.todo # <<>>
Widens == st.to # 8

\* k elements are consumed, and their encoding is appended, or its length counted.
Turn(k, s) ==
    /\ st' = [st EXCEPT !.todo = SubSeq(@, k + 1, Len(@)),
                        !.n = IF ~call.counts THEN @ ELSE @ + IF Widens THEN Len(s) ELSE ByteLen(s)]
    /\ out' = CASE call.counts -> out
                [] ~call.counts /\ Widens -> [out EXCEPT !.units = @ \o s]
                [] OTHER -> [out EXCEPT !.chars = @ \o s]
    /\ UNCHANGED call

LeadingRun ==
    CHOOSE k \in 0 .. Len(st.todo) :
        /\ \A x \in 1 .. k : st.todo[x] = "a"
        /\ k < Len(st.todo) => st.todo[k + 1] # "a"

LengthLeft == IF Widens THEN ByteLen(st.todo) ELSE Len(st.todo)

KernelRun == IF call.claim < LeadingRun THEN call.claim ELSE LeadingRun

\* The run is counted here: it is short, or made of runes (asciiRunRunes).
CountedHere == LengthLeft < AsciiRunFloor \/ (~Widens /\ call.wide = 32)

\* Wrong on purpose: the floor is under negative answers only.
AsciiRunUnfloored == IF CountedHere THEN LeadingRun ELSE IF KernelRun < 0 THEN 1 ELSE KernelRun

\* asciiRun: the run is counted here, or by the kernel, with a floor of one under it.
AsciiRun == IF CountedHere THEN LeadingRun ELSE IF KernelRun <= 0 THEN 1 ELSE KernelRun

\* What utf16.AppendRune, or append, writes for the first rune.
Widened(c) ==
    CASE c = "four" /\ call.wide = 16 -> <<"hi", "lo">> [] c = "bad" -> <<"fffd">> [] OTHER -> <<c>>

\* Wrong on purpose: a high surrogate takes the unit after it along, whatever that is.
PairedAny == call.wide = 16 /\ Len(st.todo) > 1 /\ st.todo[1] = "hi"

\* The first two units are a pair, which utf16.DecodeRune takes for one rune.
Paired == call.wide = 16 /\ Len(st.todo) > 1 /\ st.todo[1] = "hi" /\ st.todo[2] = "lo"

\* The rune that is written for the first unit, or pair, or for the first rune.
Narrowed ==
    IF Paired THEN "four" ELSE IF st.todo[1] \in {"hi", "lo", "beyond"} THEN "fffd" ELSE st.todo[1]

CopyRun ==
    /\ Turning /\ st.todo[1] = "a"
    /\ Turn(AsciiRun, SubSeq(st.todo, 1, AsciiRun))

WidenRune ==
    /\ Turning /\ Widens /\ st.todo[1] # "a"
    /\ Turn(1, Widened(st.todo[1]))

NarrowRune ==
    /\ Turning /\ ~Widens /\ st.todo[1] # "a"
    /\ Turn(IF Paired THEN 2 ELSE 1, <<Narrowed>>)

\* What was written is turned back by a second call.
BackToUTF8 ==
    /\ In("utf", "turn") /\ st.todo = <<>> /\ Widens /\ ~call.counts
    /\ st' = [st EXCEPT !.to = 8, !.todo = out.units]
    /\ UNCHANGED <<call, out>>

TranscodeEnd ==
    /\ In("utf", "turn") /\ st.todo = <<>> /\ (st.to = 8 \/ call.counts)
    /\ Return
    /\ UNCHANGED <<call, out>>

-----------------------------------------------------------------------------
(* Properties.                                                             *)

Flattened(ss) == LET f[x \in 0 .. Len(ss)] == IF x = 0 THEN <<>> ELSE f[x - 1] \o ss[x] IN f[Len(ss)]

Mended(s) == [x \in DOMAIN s |-> IF s[x] \in {"bad", "hi", "lo", "beyond"} THEN "fffd" ELSE s[x]]

\* What a text is in UTF-16, character by character; in runes it is the mended text.
InUnits(s) == Flattened([x \in DOMAIN s |-> IF s[x] = "four" THEN <<"hi", "lo">> ELSE <<Mended(s)[x]>>])
Wide(s) == IF call.wide = 16 THEN InUnits(s) ELSE Mended(s)

\* The character that unit x of a text belongs to, at the first of its units.
CharAt(s, x) ==
    CASE s[x] = "hi" -> IF x < Len(s) /\ s[x + 1] = "lo" THEN <<"four">> ELSE <<"fffd">>
      [] s[x] = "lo" -> IF x > 1 /\ s[x - 1] = "hi" THEN <<>> ELSE <<"fffd">>
      [] OTHER -> <<s[x]>>

InChars(s) == IF call.wide = 16 THEN Flattened([x \in DOMAIN s |-> CharAt(s, x)]) ELSE Mended(s)

Consumed(whole) == SubSeq(whole, 1, Len(whole) - Len(st.todo))

\* utf16.go:43-47, 84-85, 124-128, 203-205 and 289-290: whatever part of a run the kernel owns
\* up to, what is written is the encoding of what is consumed, so nothing is lost where a
\* turn ends; a text that comes back is itself with its malformed bytes replaced; the counts
\* are the lengths of what would be written; and len(s) elements are always enough.
Transcodes ==
    call.op = "utf" =>
    LET whole == IF call.to # 8 /\ st.to = 8 THEN out.units ELSE call.src IN
    /\ ~call.counts /\ Widens => out.units = Wide(Consumed(whole))
    /\ ~call.counts /\ ~Widens => out.chars = InChars(Consumed(whole))
    /\ ~call.counts /\ call.to # 8 => Len(out.units) <= ByteLen(call.src)
    /\ ~call.counts /\ call.to # 8 /\ Returned => out.chars = Mended(call.src)
    /\ call.counts /\ Returned =>
         st.n = IF call.to # 8 THEN Len(Wide(call.src)) ELSE ByteLen(InChars(call.src))
=============================================================================
