---------------------------- MODULE MCChunkPlanner ----------------------------
(***************************************************************************)
(* Requests for the planner: prompts up to MaxPrompt tokens with every     *)
(* reusable prefix PrefillRequest::validate accepts, and estimates that    *)
(* fall below, at and above the limits.                                    *)
(***************************************************************************)
EXTENDS ChunkPlanner

CONSTANTS MaxPrompt, MaxEstimate

MCRequests ==
  {r \in [prompt : 1 .. MaxPrompt, cached : 0 .. MaxPrompt,
          compute : 0 .. MaxEstimate, memory : 0 .. MaxEstimate] :
     r.cached <= r.prompt}
=============================================================================
