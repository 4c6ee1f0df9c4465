--------------------------- MODULE TunnelRequests ---------------------------
(***************************************************************************)
(* What the connection control promises, without services, coroutines and  *)
(* authorisation screens: the app connects to a node only to answer a      *)
(* request for that very node, and answers each request at most once.      *)
(***************************************************************************)
EXTENDS Integers

CONSTANTS Profile, NoProfile

VARIABLES
  intents,    \* [p |-> taps that may still become a request for p]
  asked,      \* [p |-> requests for p, neither answered nor given up]
  connected   \* the node the app is connected to, or NoProfile

rvars == <<intents, asked, connected>>

Nothing == [p \in Profile |-> 0]

Init == intents = Nothing /\ asked = Nothing /\ connected = NoProfile

\* the user taps
Intend(p) ==
  /\ intents' = [intents EXCEPT ![p] = @ + 1]
  /\ UNCHANGED <<asked, connected>>

\* a tap turns out to need no connection
Drop(p) ==
  /\ intents[p] > 0
  /\ intents' = [intents EXCEPT ![p] = @ - 1]
  /\ UNCHANGED <<asked, connected>>

\* a tap becomes a request; a request that was waiting may be given up for it
Ask(p) ==
  /\ intents[p] > 0
  /\ intents' = [intents EXCEPT ![p] = @ - 1]
  /\ LET more == [asked EXCEPT ![p] = @ + 1]
     IN asked' = more
        \/ \E q \in Profile : asked[q] > 0 /\ asked' = [more EXCEPT ![q] = @ - 1]
  /\ UNCHANGED connected

\* a request fails or is refused
GiveUp(p) ==
  /\ asked[p] > 0
  /\ asked' = [asked EXCEPT ![p] = @ - 1]
  /\ UNCHANGED <<intents, connected>>

\* a request is answered
Connect(p) ==
  /\ asked[p] > 0
  /\ asked' = [asked EXCEPT ![p] = @ - 1]
  /\ connected' = p
  /\ UNCHANGED intents

Disconnect == connected' = NoProfile /\ UNCHANGED <<intents, asked>>

\* the user interface goes away, with the taps under way
Leave == intents' = Nothing /\ UNCHANGED <<asked, connected>>

\* the process dies
Forget == intents' = Nothing /\ asked' = Nothing /\ connected' = NoProfile

Next ==
  \/ \E p \in Profile :
       Intend(p) \/ Drop(p) \/ Ask(p) \/ GiveUp(p) \/ Connect(p)
  \/ Disconnect \/ Leave \/ Forget

Spec == Init /\ [][Next]_rvars
=============================================================================
