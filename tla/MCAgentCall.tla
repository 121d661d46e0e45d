----------------------------- MODULE MCAgentCall -----------------------------
(***************************************************************************)
(* AgentCall with two models and the default retries of the settings.      *)
(***************************************************************************)
EXTENDS AgentCall

(* Not at all, and longer than the limit. *)
MCRetryAfters == {-4, 400}
=============================================================================
