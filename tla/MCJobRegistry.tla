----------------------------- MODULE MCJobRegistry -----------------------------
(***************************************************************************)
(* Instances of JobRegistry for TLC.                                       *)
(***************************************************************************)
EXTENDS JobRegistry, TLC

CONSTANTS k1, k2, p1, u1

\* One kind, one priority, no callback.
PlainRequests ==
    {[kind |-> k1, priority |-> "batch", payload |-> p1, callback_url |-> None]}

\* The same with a callback.
CallbackRequests ==
    {[kind |-> k1, priority |-> "batch", payload |-> p1, callback_url |-> u1]}

\* Two priorities and two kinds.
MixedRequests ==
    {[kind |-> k1, priority |-> "batch", payload |-> p1, callback_url |-> None],
     [kind |-> k1, priority |-> "realtime", payload |-> p1, callback_url |-> None],
     [kind |-> k2, priority |-> "realtime", payload |-> p1, callback_url |-> None]}

AnyKind == {{k1, k2}}
SomeKinds == {{k1}, {k1, k2}}

================================================================================
