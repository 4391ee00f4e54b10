---------------------------- MODULE MCRpcClient -----------------------------
(***************************************************************************)
(* A small instance of RpcClient for TLC.                                  *)
(***************************************************************************)
EXTENDS RpcClient

MCFaultKinds == {"connection", "timeout"}

\* Three losses defeat all attempts of a call, and leave more than one call
\* after the losses; two late answers put the client two messages behind.
ThreeLossesTwoTimeouts ==
    [k \in MCFaultKinds |-> IF k = "connection" THEN 3 ELSE 2]
=============================================================================
