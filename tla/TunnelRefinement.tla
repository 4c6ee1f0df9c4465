-------------------------- MODULE TunnelRefinement --------------------------
(* Tunnel implements TunnelRequests: the mapping, and the property.        *)
EXTENDS Tunnel, FiniteSetsExt

\* START intents for p that ActivityManager has not delivered yet
InFlight(p) == Quantify(DOMAIN am.inbox, LAMBDA i : am.inbox[i] = Start(p))

Intents == [p \in Profile |-> toggles[p] + clicks[p]]
Asked   == [p \in Profile |-> InFlight(p) + IF pendingProfile = p THEN 1 ELSE 0]

Requests == INSTANCE TunnelRequests WITH
  intents <- Intents, asked <- Asked, connected <- currentProfileId

\* No connection is made that nobody asked for and none is made twice: every
\* step of CoreController, TunService and the activity is a step of the
\* abstract specification, or none.
AnswersRequests == Requests!Spec
=============================================================================
