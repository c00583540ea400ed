---------------------------- MODULE MCAgentLoop ----------------------------
(***************************************************************************)
(* Small instances of AgentLoop.  The model asks the first agent for two   *)
(* calls of the source tool under one identity, or for a call with invalid *)
(* arguments and one of the Host's tool; the second agent has no tools: it *)
(* competes for the budget, of which it may have one token, and the race.  *)
(***************************************************************************)
EXTENDS AgentLoop, TLC

CONSTANTS a1, a2

Ask(tool, id, args) == [tool |-> tool, id |-> id, args |-> args]

MCReplies ==
  (a1 :> {<<Ask("source", 1, "x"), Ask("source", 1, "x")>>,
          <<Ask("source", 1, "bad"), Ask("host", 2, "x")>>,
          <<Ask("source", 1, "bad")>>})
  @@ (a2 :> {})

MCAttempts == a1 :> 2 @@ a2 :> 1
MCRounds == a1 :> 2 @@ a2 :> 0
MCLimits == a2 :> 1

=============================================================================
