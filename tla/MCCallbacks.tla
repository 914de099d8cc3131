------------------------------ MODULE MCCallbacks ------------------------------
(***************************************************************************)
(* Instances of Callbacks for TLC.                                         *)
(***************************************************************************)
EXTENDS Callbacks, TLC

CONSTANTS k1, p1, u1

CallbackRequests ==
    {[kind |-> k1, priority |-> "batch", payload |-> p1, callback_url |-> u1]}

AnyKind == {{k1}}

================================================================================
