------------------------------ MODULE TextCalls ------------------------------
(***************************************************************************)
(* The functions that search, check or convert a text: MultiSearcher,      *)
(* JSONValid, and the transcoding of UTF-8.  A behaviour is one call of    *)
(* one of them, and every call has to come to an end.                      *)
(***************************************************************************)
EXTENDS MultiSearch, JsonValid, Transcode

\* What the variables of the kind of call that is not made are.
NoQuery == [needles |-> <<>>, hay |-> <<>>]
NoCall == [op |-> "none"]

textVars == <<call, st, out, searchVars>>

Init ==
    \/ /\ SearchInit
       /\ call = NoCall /\ st = [pc |-> "none"] /\ out = 0
    \/ /\ JsonInit \/ TranscodeInit
       /\ query = NoQuery /\ anchors = <<>> /\ maxAnchor = 0
       /\ at = 0 /\ i = 0 /\ best = -1 /\ bestWhich = -1 /\ pc = "none"

\* A step of a search, and of any other call.
Searching(A) == A /\ UNCHANGED <<call, st, out>>
Apart(A) == A /\ UNCHANGED searchVars

Next ==
    \/ Searching(EmptyNeedle) \/ Searching(NoMatchPossible) \/ Searching(Start)
    \/ Searching(LoopTurn) \/ Searching(LoopEnd) \/ Searching(ScanTurn) \/ Searching(ScanEnd)
    \/ Apart(StartBlock) \/ Apart(EndBlock) \/ Apart(Finish) \/ Apart(Reject)
    \/ Apart(Colon) \/ Apart(Key) \/ Apart(Comma) \/ Apart(String)
    \/ Apart(TooDeep) \/ Apart(Open) \/ Apart(Close)
    \/ Apart(NumberLast) \/ Apart(NumberHere) \/ Apart(NumberOn)
    \/ Apart(CopyRun) \/ Apart(WidenRune) \/ Apart(NarrowRune)
    \/ Apart(BackToUTF8) \/ Apart(TranscodeEnd)

\* A call is not interrupted.
Spec == Init /\ [][Next]_textVars /\ WF_textVars(Next)

-----------------------------------------------------------------------------
(* Properties.                                                             *)

\* Every call returns: a scan passes its hits, a walk its bytes, and a run of ASCII is never
\* taken to be empty, whatever a kernel says of it (utf16.go:192-203).
Returns == <>(pc = "returned" \/ Returned)
=============================================================================
