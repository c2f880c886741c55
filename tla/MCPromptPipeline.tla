-------------------------- MODULE MCPromptPipeline --------------------------
(***************************************************************************)
(* Instances of PromptPipeline for TLC: two requests, the second of them   *)
(* streaming in some runs, of one session.                                 *)
(***************************************************************************)
EXTENDS PromptPipeline, TLC

CONSTANTS r1, r2, s1, c1

LoneRequest == r1 :> s1
OneSession == (r1 :> s1) @@ (r2 :> s1)
=============================================================================
