----------------------------- MODULE MCTextCalls -----------------------------
(* Haystacks of six bytes, documents of blocks of four, and texts on both  *)
(* sides of the floor under a run.                                         *)
EXTENDS TextCalls

UpTo(n, S) == UNION {[1 .. m -> S] : m \in 0 .. n}

-----------------------------------------------------------------------------
(* Up to three needles out of seven strings of a common and a rare byte,   *)
(* in every haystack of up to six bytes, with either byte ranked the rarer. *)

MCBytes == {"a", "z"}
MCRanks == {[b \in MCBytes |-> IF b = "z" THEN 1 ELSE 0],
            [b \in MCBytes |-> IF b = "a" THEN 1 ELSE 0]}

Strings == {<<>>, <<"z">>, <<"a", "a">>, <<"a", "z">>, <<"z", "a">>,
            <<"a", "a", "z">>, <<"z", "a", "a">>}

MCQueries ==
    [needles : UNION {[1 .. n -> Strings] : n \in 0 .. 3},
     hay : UNION {[1 .. n -> MCBytes] : n \in 0 .. 6}]

-----------------------------------------------------------------------------
(* The JSON values of n tokens, by the grammar: [v, e, m] are the values,  *)
(* the elements of an array and the members of an object of that length.   *)

\* What a member of A[k], the tokens between and a member of B[l] make together, in n tokens.
Joined(n, A, between, B) ==
    UNION {{a \o between \o b : a \in A[k], b \in B[n - Len(between) - k]} : k \in 1 .. n - Len(between) - 1}

\* The lengths below n of a field.
Field(f, name) == [k \in DOMAIN f |-> f[k][name]]

Grammar(f, n) ==
    LET v == CASE n = 1 -> {<<"q">>, <<"d">>}
               [] n = 2 -> {<<"[", "]">>, <<"{", "}">>}
               [] OTHER -> {<<"[">> \o e \o <<"]">> : e \in f[n - 2].e}
                           \union {<<"{">> \o m \o <<"}">> : m \in f[n - 2].m}
        one == IF n > 2 THEN {<<"q", ":">> \o x : x \in f[n - 2].v} ELSE {}
    IN [v |-> v,
        e |-> v \union Joined(n, Field(f, "v"), <<",">>, Field(f, "e")),
        m |-> one \union Joined(n, Field(f, "one"), <<",">>, Field(f, "m")),
        one |-> one]

Values(n) ==
    LET f[k \in 0 .. n] == IF k = 0 THEN <<>> ELSE LET before == f[k - 1] IN Append(before, Grammar(before, k))
    IN UNION {f[n][k].v : k \in 1 .. n}

MaxTokens == 11
AllValues == Values(MaxTokens)

\* A document, and one with a token left out or the last replaced.
Without(s, k) == SubSeq(s, 1, k - 1) \o SubSeq(s, k + 1, Len(s))
Ended(s, c) == SubSeq(s, 1, Len(s) - 1) \o <<c>>
Spoilt(S) ==
    UNION {{Without(s, k) : k \in DOMAIN s} : s \in S} \union {Ended(s, c) : s \in S, c \in {"}", "]", ",", "q"}}

\* IsDocument says of tokens what the grammar says.
ASSUME GrammarAssumption ==
    \A s \in AllValues \union Spoilt(Values(7)) : IsDocument(s) <=> s \in AllValues

-----------------------------------------------------------------------------
(* Texts of blocks of four bytes and two levels to a word.                 *)

\* Tokens as text: a string of no bytes, or of one.
Rendered(s, string) ==
    LET f[k \in 0 .. Len(s)] == IF k = 0 THEN <<>> ELSE f[k - 1] \o IF s[k] = "q" THEN string ELSE <<s[k]>>
    IN f[Len(s)]

Nested == {Rendered(s, <<"q", "q">>) : s \in AllValues \union Spoilt(Values(7))}
Strings2 == {<<"q">> \o s \o <<"q">> : s \in UpTo(6, {"bs", "q", "n"})}
Codes == {s \o <<"q", "bs", "u">> \o t \o <<"q">> :
            s \in UpTo(2, {"sp"}), t \in UpTo(5, {"d", "q", "bs"}) \union [1 .. 5 -> {"d", "n"}]}
Numbers == {<<"[">> \o s \o <<"]">> : s \in [1 .. 7 -> {"d", ","}] \union [1 .. 4 -> {"d", "sp", ","}]}
\* Too deep, with something wrong in the block or after it.
Deep == {<<"[", "[">> \o s : s \in UpTo(4, {"[", "q", "ctl", "n", "bs"})}
MCDocuments ==
    [text : Deep \union UpTo(3, Chars) \union Strings2 \union Codes \union Numbers, room : {0}]
    \union [text : Nested, room : {0, 1}]

-----------------------------------------------------------------------------
(* Texts of up to four characters, with runs on both sides of a floor of   *)
(* three, and a kernel that finds all of a run, one, none or less.         *)

MCTexts == UpTo(3, Characters) \union UpTo(5, {"a", "four"}) \union {<<"bad", "a", "a", "a", "a", "two">>}
MCUnitTexts == UpTo(3, Units) \union UpTo(4, {"a", "hi", "lo"})
MCRuneTexts == UpTo(3, Runes) \union UpTo(4, {"a", "hi", "beyond"})
MCClaims == {-1, 0, 1, 9}
=============================================================================
