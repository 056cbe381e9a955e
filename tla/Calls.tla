-------------------------------- MODULE Calls --------------------------------
(***************************************************************************)
(* A call of the library in progress: what it was given, where it is and   *)
(* what it has written.  The algorithms that are called one at a time and  *)
(* share no state declare these variables once; a call names its operation *)
(* in call.op and which of the two implementations runs it in call.impl.   *)
(***************************************************************************)
EXTENDS Integers, Sequences

VARIABLES call,  \* the operation and its arguments; never assigned
          st,    \* the call's local variables, and where it is in st.pc
          out    \* what the call has written, or returned

vars == <<call, st, out>>

Implementations == {"ref", "kernel"}

\* The call is an op, and has reached pc.
In(op, pc) == call.op = op /\ st.pc = pc

Returned == st.pc = "returned"

Return == st' = [st EXCEPT !.pc = "returned"]
=============================================================================
