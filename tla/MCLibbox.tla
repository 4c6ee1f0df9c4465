------------------------------ MODULE MCLibbox ------------------------------
(***************************************************************************)
(* Model-checking instances of the parts of libbox that share no state:    *)
(* the command server, the F-Droid checks, the profile messages, the DNS   *)
(* queries, the HTTP transfers and the core of another app.  A behaviour   *)
(* chooses one of them as its subject and leaves the others as they begin, *)
(* so that their state spaces add up and do not multiply.                  *)
(***************************************************************************)
EXTENDS CommandServer, Sequences

CONSTANTS
  Checker, Mirror, Official, Editions,   \* of FDroidUpdate
  Wrap, Lists, Sizes, MaxMessages,       \* of ProfileCodec
  Caller, Parts, MaxCalls,               \* of HttpTransfer
  Packages, Reads,                       \* of VpnType
  lone,        \* the only check that runs while there are several mirrors
  asked        \* the only mirror that is asked while there are several checks

VARIABLES
  subject,
  added, edition, sendsETag, hasEntry, cache, check, current, told, unheard, dead,
  chunked, sent, wire, received, profiles, listed, torn,
  raw, question, context, caller, returned, answer, lookup, outcome, done, watcher,
  response, body, cut, closed, once, content, contentError, transfer, transfers, taken, mixed,
  package, archive, library, left, coreType, at, answers

serverVars == vars
fdroidVars == <<added, edition, sendsETag, hasEntry, cache, check, current, told, unheard, dead>>
profileVars == <<chunked, sent, wire, received, profiles, listed, torn>>
dnsVars    == <<raw, question, context, caller, returned, answer, lookup, outcome, done, watcher>>
httpVars   == <<response, body, cut, closed, once, content, contentError, transfer, transfers,
                taken, mixed>>
vpnVars    == <<package, archive, library, left, coreType, at, answers>>
MCvars     == <<subject, serverVars, fdroidVars, profileVars, dnsVars, httpVars, vpnVars>>

Fdroid == INSTANCE FDroidUpdate WITH deaths <- dead

Profile == INSTANCE ProfileCodec

Dns == INSTANCE DnsExchange WITH response <- answer

Http == INSTANCE HttpTransfer WITH
  call <- transfer, calls <- transfers, returned <- taken

Vpn == INSTANCE VpnType

\* An archive that does not open, or has no library of Go; behind it a library of any
\* modules, behind one that cannot be read.
Module == [name : {"clash", "v2ray", "xray", "sing-box", "wireguard"}, strict : {TRUE}]
            \cup [name : {"xray"}, strict : {FALSE}]
            \cup [name : {"protobuf", "bloomring"}, strict : {TRUE}]
Other == [go |-> FALSE, bare |-> FALSE, modules |-> {}]
First == [opens : BOOLEAN, libs : {<<>>, <<Other>>}, named : {"none", "OpenVPN"}]
Second == [opens : {TRUE}, named : {"none", "Shadowsocks"},
           libs : {<<Other, [go |-> TRUE, bare |-> modules = {}, modules |-> modules]>> :
                     modules \in {S \in SUBSET Module : Cardinality(S) <= 3}}]
Apps == {<<p>> : p \in First} \cup {<<p, q>> : p \in First, q \in Second}

\* Counts and sizes are numbers, and an app is a sequence of archives.
ASSUME PartsAssumption ==
  /\ Editions \in Nat \ {0} /\ {Parts, MaxCalls, MaxMessages, Reads} \subseteq Nat
  /\ Wrap \in Nat \ {0} /\ Lists \cup Sizes \subseteq Nat
  /\ Packages \subseteq Seq([opens : BOOLEAN, named : {"none", "OpenVPN", "Shadowsocks"},
                            libs : Seq([go : BOOLEAN, bare : BOOLEAN,
                                        modules : SUBSET Vpn!Module])])

-----------------------------------------------------------------------------
\* Two checks at a time of one repository, or one check at a time of two and of f-droid.org
FdroidBound ==
  /\ subject = "checks" =>
       /\ \A m \in Mirror \ {asked} : edition'[m] = edition[m] /\ hasEntry'[m] = hasEntry[m]
       /\ \A c \in Checker : check'[c].mirror \in {"", asked}
  /\ subject = "mirrors" => \A c \in Checker \ {lone} : check'[c] = check[c]

Subjects == {"server", "checks", "mirrors", "profiles", "dns", "http", "vpn"}

\* One subject begins in any way, the others in one
MCInit ==
  /\ subject \in Subjects
  /\ Init /\ (subject # "server" => place \in Port /\ ~foreign /\ ~readonly
                                  /\ secret = NoSecret /\ \A p \in Path : leads[p] = None)
  /\ Fdroid!Init
  /\ added = IF subject = "checks" THEN 1 .. Editions
             ELSE IF subject = "mirrors" THEN {Editions} ELSE {}
  /\ subject = "mirrors" => \A m, n \in Mirror : sendsETag[m] = sendsETag[n]
  /\ \A m \in Mirror : (subject # "mirrors" /\ (subject = "checks" => m # asked))
                         => sendsETag[m] /\ hasEntry[m]
  /\ Profile!Init /\ (subject # "profiles" => chunked)
  /\ Dns!Init /\ (subject # "dns" => raw /\ question = "A")
  /\ Http!Init
  /\ Vpn!Init
  /\ subject # "vpn" => package = <<[opens |-> TRUE, libs |-> <<>>, named |-> "none"]>>

ServerStep(Step) ==
  /\ subject = "server" /\ Step
  /\ UNCHANGED <<subject, fdroidVars, profileVars, dnsVars, httpVars, vpnVars>>
FdroidStep(Step) ==
  /\ subject \in {"checks", "mirrors"} /\ Step /\ FdroidBound
  /\ UNCHANGED <<subject, serverVars, profileVars, dnsVars, httpVars, vpnVars>>
ProfileStep(Step) ==
  /\ subject = "profiles" /\ Step
  /\ UNCHANGED <<subject, serverVars, fdroidVars, dnsVars, httpVars, vpnVars>>
DnsStep(Step) ==
  /\ subject = "dns" /\ Step
  /\ UNCHANGED <<subject, serverVars, fdroidVars, profileVars, httpVars, vpnVars>>
HttpStep(Step) ==
  /\ subject = "http" /\ Step
  /\ UNCHANGED <<subject, serverVars, fdroidVars, profileVars, dnsVars, vpnVars>>
VpnStep(Step) ==
  /\ subject = "vpn" /\ Step
  /\ UNCHANGED <<subject, serverVars, fdroidVars, profileVars, dnsVars, httpVars>>

MCNext ==
  \/ ServerStep(Next) \/ FdroidStep(Fdroid!Next) \/ ProfileStep(Profile!Next)
  \/ DnsStep(Dns!Next) \/ HttpStep(Http!Next) \/ VpnStep(Vpn!Next)

\* The fairness of DnsExchange; no other subject needs any
MCSpec ==
  /\ MCInit /\ [][MCNext]_MCvars
  /\ WF_MCvars(DnsStep(Dns!Exchange)) /\ WF_MCvars(DnsStep(Dns!Take \/ Dns!Cancel))
  /\ WF_MCvars(DnsStep(Dns!Send)) /\ WF_MCvars(DnsStep(Dns!Invoke))

-----------------------------------------------------------------------------
(* Properties of the parts                                                 *)

\* The state of every part has its types.
LibboxTypes == TypeOK /\ Fdroid!TypeOK /\ Dns!TypeOK /\ Http!TypeOK /\ Vpn!TypeOK

\* No F-Droid update is withheld by the cache, but one whose answer was lost (FDroidUpdate).
NothingWithheld == Fdroid!NothingWithheld

\* Profile messages arrive as they were sent (ProfileCodec).
RoundTrip == Profile!RoundTrip

\* A DNS query that is given up leaves nothing waiting (DnsExchange).
NothingLeftBehind == Dns!NothingLeftBehind

\* A transfer that succeeds is complete (HttpTransfer).
NoSilentLoss == Http!NoSilentLoss

\* The core of another app does not depend on the order of a map (VpnType).
VpnTypeStable == Vpn!VpnTypeStable
=============================================================================
