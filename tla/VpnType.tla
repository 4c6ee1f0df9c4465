------------------------------ MODULE VpnType -------------------------------
(***************************************************************************)
(* ReadAndroidVPNType (build_info.go of libbox): which VPN core another app*)
(* is built on, told by the Go modules its native libraries name.  They are*)
(* looked at in the order of a map, which Go makes a different one each    *)
(* time; everything else has the order of the archive.                     *)
(***************************************************************************)
EXTENDS Naturals, Sequences, FiniteSets

CONSTANTS
  Packages,    \* the apps: sequences of archives
  Reads        \* bound: times that the app is read

\* An archive is [opens : BOOLEAN, libs : Seq(Library), named : STRING]: named is the core
\* that the name of a file under lib/ gives away, or "none".  A Library is
\* [go : BOOLEAN, bare : BOOLEAN, modules : SUBSET Module]: whether it has build information,
\* and whether that lists no dependency.
Module == [name : {"clash", "v2ray", "xray", "sing-box", "wireguard", "protobuf", "bloomring"},
           strict : BOOLEAN]   \* the path is the well-known one, or only contains the name

VARIABLES
  package,
  archive,     \* the one that is looked at; past the last: no answer
  library,     \* the entry of it; past the last: the names are left
  left,        \* the modules that the loop has not seen
  coreType,    \* vpnType.CoreType
  at,          \* "entries", "loop" or "loop2"
  answers      \* what each read returned

vars == <<package, archive, library, left, coreType, at, answers>>

Unknown == "Unknown"
NoPath  == [name |-> "none", strict |-> FALSE]
Types == {"clash", "v2ray", "sing-box", "wireguard", "obfuscated", "OpenVPN", "Shadowsocks",
          "none", Unknown}

TypeOK ==
  /\ archive \in 1 .. Len(package) + 1 /\ library \in Nat \ {0}
  /\ left \subseteq Module /\ coreType \in Types
  /\ at \in {"entries", "loop", "loop2"}
  /\ Len(answers) <= Reads
  /\ \A i \in DOMAIN answers : answers[i].type \in Types

Init ==
  /\ package \in Packages
  /\ archive = 1 /\ library = 1 /\ left = {} /\ coreType = Unknown /\ at = "entries"
  /\ answers = <<>>

-----------------------------------------------------------------------------
(* What a module tells                                                     *)

BugPkgType(name) == IF name = "xray" THEN "v2ray"
                    ELSE IF name \in {"clash", "v2ray", "sing-box", "wireguard"} THEN name
                    ELSE "none"

\* determinePkgType
PkgType(name) == IF name = "xray" THEN "v2ray"
                 ELSE IF name \in {"clash", "v2ray", "sing-box"} THEN name ELSE "none"

\* determinePkgTypeSecondary
PkgTypeSecondary(name) == IF name = "wireguard" THEN name ELSE "none"

\* determineCorePath: the well-known path of a core before any other that has its name
Wanted(type) == IF type = "v2ray" THEN <<"v2ray", "xray">> ELSE <<type>>
CorePath(modules, type) ==
  LET Found(i, strict) == [name |-> Wanted(type)[i], strict |-> strict] \in modules
      has == {i \in DOMAIN Wanted(type) : Found(i, TRUE) \/ Found(i, FALSE)}
      first == CHOOSE i \in has : \A j \in has : i <= j
  IN  IF has = {} THEN NoPath
      ELSE [name |-> Wanted(type)[first], strict |-> Found(first, TRUE)]

-----------------------------------------------------------------------------
Archive == package[archive]
Library == Archive.libs[library]
HasArchive == archive <= Len(package) /\ at = "entries"
HasLibrary == HasArchive /\ Archive.opens /\ library <= Len(Archive.libs)

\* The answer of one read; the next one begins anew
Return(type, path) ==
  /\ answers' = Append(answers, [type |-> type, path |-> path])
  /\ archive' = 1 /\ library' = 1 /\ left' = {} /\ coreType' = Unknown /\ at' = "entries"
  /\ UNCHANGED package

More == Len(answers) < Reads

\* A library that cannot be read, or is not made by Go
Skip ==
  /\ More /\ HasLibrary /\ ~Library.go
  /\ library' = library + 1
  /\ UNCHANGED <<package, archive, left, coreType, at, answers>>

\* The first one that can be read decides
Entry ==
  /\ More /\ HasLibrary /\ Library.go
  /\ IF Library.bare THEN Return("obfuscated", NoPath)
     ELSE /\ at' = "loop" /\ left' = Library.modules
          /\ UNCHANGED <<package, archive, library, coreType, answers>>

\* All modules are looked at, and the last core is taken
Loop ==
  /\ at = "loop"
  /\ \E m \in left :
       /\ left' = left \ {m}
       /\ coreType' = IF PkgType(m.name) # "none" THEN PkgType(m.name) ELSE coreType
  /\ UNCHANGED <<package, archive, library, at, answers>>

AfterLoop ==
  /\ at = "loop" /\ left = {}
  /\ IF coreType = Unknown
     THEN /\ at' = "loop2" /\ left' = Library.modules
          /\ UNCHANGED <<package, archive, library, coreType, answers>>
     ELSE Return(coreType, CorePath(Library.modules, coreType))

\* Without a core: WireGuard, or the two modules that only V2Ray has together
Has(name) == \E m \in Library.modules : m.name = name /\ m.strict
Loop2 ==
  /\ at = "loop2"
  /\ \/ \E m \in left : PkgTypeSecondary(m.name) # "none" /\ Return("wireguard", NoPath)
     \/ /\ \A m \in left : PkgTypeSecondary(m.name) = "none"
        /\ Return(IF Has("protobuf") /\ Has("bloomring") THEN "v2ray" ELSE Unknown, NoPath)

\* No library could be read: the names of the files
ByName ==
  /\ More /\ HasArchive /\ Archive.opens /\ library > Len(Archive.libs)
  /\ Archive.named # "none" /\ Return(Archive.named, NoPath)

\* Nothing, or an archive that does not open: the next one
NextArchive ==
  /\ More /\ HasArchive
  /\ ~Archive.opens \/ (library > Len(Archive.libs) /\ Archive.named = "none")
  /\ archive' = archive + 1 /\ library' = 1
  /\ UNCHANGED <<package, left, coreType, at, answers>>

NoAnswer == More /\ archive > Len(package) /\ Return("none", NoPath)

Next == Skip \/ Entry \/ Loop \/ AfterLoop \/ Loop2 \/ ByName \/ NextArchive \/ NoAnswer

Spec == Init /\ [][Next]_vars

-----------------------------------------------------------------------------
(* Properties                                                              *)

\* A library that names several of Clash, V2Ray (or its successor Xray) and sing-box
Mixed(lib) ==
  Cardinality({core \in {{"clash"}, {"v2ray", "xray"}, {"sing-box"}} :
                 \E m \in lib.modules : m.name \in core}) > 1

\* An app that was read twice has the same core and path both times, whatever the order of
\* the map: an app of one core that also has WireGuard too.  Only a library that names
\* several cores may be taken for either.
VpnTypeStable ==
  \A i, j \in DOMAIN answers :
    answers[i] = answers[j]
      \/ \E k \in DOMAIN package : \E l \in DOMAIN package[k].libs : Mixed(package[k].libs[l])
=============================================================================
