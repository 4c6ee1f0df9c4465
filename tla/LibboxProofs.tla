---------------------------- MODULE LibboxProofs ----------------------------
(* What holds of the parts of libbox that MCLibbox runs side by side, for   *)
(* every number of servers, checks, mirrors, messages, callers and apps.    *)
EXTENDS MCLibbox, CommandServerProofs, SequenceTheorems

-----------------------------------------------------------------------------
(* The parts do not meet: a step of the whole is a step of each, or leaves it*)

LEMMA OwnSteps ==
  [MCNext]_MCvars =>
    /\ [Next]_vars /\ [Fdroid!Next]_Fdroid!vars /\ [Profile!Next]_Profile!vars
    /\ [Dns!Next]_Dns!vars /\ [Http!Next]_Http!vars /\ [Vpn!Next]_Vpn!vars
<1> SUFFICES ASSUME [MCNext]_MCvars
             PROVE  /\ [Next]_vars /\ [Fdroid!Next]_Fdroid!vars /\ [Profile!Next]_Profile!vars
                    /\ [Dns!Next]_Dns!vars /\ [Http!Next]_Http!vars /\ [Vpn!Next]_Vpn!vars
  OBVIOUS
<1> USE DEF MCNext, MCvars, ServerStep, FdroidStep, ProfileStep, DnsStep, HttpStep, VpnStep
<1>1. [Next]_vars
  BY DEF serverVars
<1>2. [Fdroid!Next]_Fdroid!vars
  BY DEF fdroidVars, Fdroid!vars, Fdroid!mirrors, Fdroid!app
<1>3. [Profile!Next]_Profile!vars
  BY DEF profileVars, Profile!vars
<1>4. [Dns!Next]_Dns!vars
  BY DEF dnsVars, Dns!vars
<1>5. [Http!Next]_Http!vars
  BY DEF httpVars, Http!vars
<1>6. [Vpn!Next]_Vpn!vars
  BY DEF vpnVars, Vpn!vars
<1> QED
  BY <1>1, <1>2, <1>3, <1>4, <1>5, <1>6

-----------------------------------------------------------------------------
(* HttpTransfer                                                            *)

Transfers == [op : {"none", "content", "wait", "file"}, got : 0 .. Parts]
Results   == [op : {"content", "file"}, ok : BOOLEAN, got : 0 .. Parts]

\* What a caller has read, and what is left, is no more than the whole body
Shared == \A c \in Caller : transfer[c].got + body <= Parts

\* The body is untouched, or one caller alone has what is missing of it, or it is closed; and
\* what is kept of it, or was returned as a success, is all of it
Whole ==
  ~mixed =>
    /\ \A c, d \in Caller : Http!Reading(c) /\ Http!Reading(d) => c = d
    /\ \/ closed
       \/ body = Parts /\ \A c \in Caller : ~Http!Reading(c)
       \/ \E c \in Caller : Http!Reading(c) /\ transfer[c].got + body = Parts
    /\ once = "over" /\ ~contentError => content = Parts
    /\ \A r \in taken : r.ok => r.got = Parts

\* Before the response is given only the text of an error is read
Early == response # "given" /\ once = "new" => \A c \in Caller : ~Http!Reading(c)

HttpInv == Http!TypeOK /\ Shared /\ Whole /\ Early

\* A transfer begins with an untouched body.
LEMMA HttpBegins == Http!Init => HttpInv
<1> SUFFICES ASSUME Http!Init PROVE HttpInv
  OBVIOUS
<1>1. Parts \in Nat /\ MaxCalls \in Nat
  BY PartsAssumption
<1>2. Http!Idle \in Transfers /\ Http!Idle.got = 0 /\ Http!Idle.op = "none"
  BY <1>1 DEF Http!Idle, Transfers
<1>3. Http!TypeOK
  <2>1. {cut, closed, contentError, mixed} \subseteq BOOLEAN
    BY Zenon DEF Http!Init
  <2>2. /\ response \in {"none", "ok", "bad", "given", "failed"}
        /\ once \in {"new", "running", "over"}
    BY DEF Http!Init
  <2>3. /\ body \in 0 .. Parts /\ content \in 0 .. Parts /\ transfers \in 0 .. MaxCalls
        /\ transfer \in [Caller -> Transfers] /\ taken = {}
    BY <1>1, <1>2 DEF Http!Init
  <2> QED
    BY <2>1, <2>2, <2>3 DEF Http!TypeOK, Transfers
<1>4. Shared /\ Whole /\ Early
  BY <1>1, <1>2 DEF Http!Init, Shared, Whole, Early, Http!Reading
<1> QED
  BY <1>3, <1>4 DEF HttpInv

\* No call, in whatever order the others run and fail, takes less than the body for it.
LEMMA HttpKept == HttpInv /\ [Http!Next]_Http!vars => HttpInv'
<1> SUFFICES ASSUME HttpInv, [Http!Next]_Http!vars PROVE HttpInv'
  OBVIOUS
<1>0. /\ Parts \in Nat /\ MaxCalls \in Nat
      /\ Http!Idle \in Transfers /\ Http!Idle.got = 0 /\ Http!Idle.op = "none"
      /\ transfer \in [Caller -> Transfers] /\ taken \subseteq Results
      /\ body \in 0 .. Parts /\ content \in 0 .. Parts
      /\ closed \in BOOLEAN /\ mixed \in BOOLEAN /\ contentError \in BOOLEAN
      /\ cut \in BOOLEAN /\ transfers \in 0 .. MaxCalls
      /\ response \in {"none", "ok", "bad", "given", "failed"} /\ once \in {"new", "running", "over"}
  <2>1. Parts \in Nat /\ MaxCalls \in Nat
    BY PartsAssumption
  <2>2. Http!Idle \in Transfers /\ Http!Idle.got = 0 /\ Http!Idle.op = "none"
    BY <2>1 DEF Http!Idle, Transfers
  <2> QED
    BY <2>1, <2>2 DEF HttpInv, Http!TypeOK, Transfers, Results
\* a caller begins to read
<1>1. ASSUME NEW c \in Caller, NEW op \in {"content", "file"}, Http!Begin(c, op),
             ~Http!Reading(c),
             UNCHANGED <<body, closed, taken, content, contentError>>,
             once' = once \/ once' = "running", once' = "over" => once = "over"
      PROVE  Shared' /\ Whole' /\ transfer' \in [Caller -> Transfers] /\ mixed' \in BOOLEAN
  <2>1. \A d \in Caller : transfer'[d] = IF d = c THEN [op |-> op, got |-> 0] ELSE transfer[d]
    BY <1>0, <1>1 DEF Http!Begin
  <2>2. transfer' \in [Caller -> Transfers]
    <3>1. [op |-> op, got |-> 0] \in Transfers
      BY <1>0, <1>1 DEF Transfers
    <3> QED
      BY <1>0, <1>1, <3>1 DEF Http!Begin
  <2>3. mixed' \in BOOLEAN /\ (~mixed' => ~mixed /\ \A d \in Caller : ~Http!Reading(d))
    BY <1>0, <1>1 DEF Http!Begin
  <2>4. Shared'
    BY <1>0, <1>1, <2>1 DEF HttpInv, Shared
  <2>5. Whole'
    <3>1. SUFFICES ASSUME ~mixed' PROVE Whole'
      BY DEF Whole
    <3>2. \A d \in Caller : Http!Reading(d)' <=> d = c
      BY <1>1, <2>1, <2>3, <3>1 DEF Http!Reading
    <3>3. transfer'[c].got = 0
      BY <2>1
    <3> QED
      BY <1>0, <1>1, <2>3, <3>1, <3>2, <3>3 DEF HttpInv, Whole
  <2> QED
    BY <2>2, <2>3, <2>4, <2>5
\* a caller ends: with its result, of a body that it closes or of none, or with an error text
<1>2. ASSUME NEW c \in Caller, transfer' = [transfer EXCEPT ![c] = Http!Idle],
             NEW r \in Results, taken' \in {taken, taken \cup {r}}, ~mixed /\ r.ok => r.got = Parts,
             UNCHANGED <<body, mixed>>, closed' \in {closed, TRUE}, Http!Reading(c) => closed',
             ~mixed /\ once' = "over" /\ ~contentError' => content' = Parts
      PROVE  Shared' /\ Whole' /\ transfer' \in [Caller -> Transfers] /\ taken' \subseteq Results
  <2>1. \A d \in Caller : transfer'[d] = IF d = c THEN Http!Idle ELSE transfer[d]
    BY <1>0, <1>2
  <2>2. transfer' \in [Caller -> Transfers] /\ taken' \subseteq Results
    BY <1>0, <1>2
  <2>3. Shared'
    BY <1>0, <1>2, <2>1 DEF HttpInv, Shared
  <2>4. Whole'
    <3>1. SUFFICES ASSUME ~mixed' PROVE Whole'
      BY DEF Whole
    <3>2. \A d \in Caller : Http!Reading(d)' <=> d # c /\ Http!Reading(d)
      BY <1>0, <2>1 DEF Http!Reading
    <3>3. \A q \in taken' : q.ok => q.got = Parts
      BY <1>2, <3>1 DEF HttpInv, Whole
    <3>4. \/ closed'
          \/ body' = Parts /\ \A d \in Caller : ~Http!Reading(d)'
          \/ \E d \in Caller : Http!Reading(d)' /\ transfer'[d].got + body' = Parts
      <4>1. ~closed' => ~closed /\ ~Http!Reading(c)
        <5>1. closed' = closed \/ closed' = TRUE
          BY <1>2
        <5> QED
          BY <1>2, <5>1, Zenon
      <4> QED
        BY <1>2, <2>1, <3>1, <3>2, <4>1 DEF HttpInv, Whole
    <3> QED
      BY <1>2, <3>1, <3>2, <3>3, <3>4 DEF HttpInv, Whole
  <2> QED
    BY <2>2, <2>3, <2>4
\* nobody's reading changes
<1>3. ASSUME UNCHANGED <<body, closed, once, content, contentError, taken, mixed>>,
             transfer' \in [Caller -> Transfers],
             \A d \in Caller : /\ transfer'[d].got = transfer[d].got
                               /\ Http!Reading(d)' <=> Http!Reading(d)
      PROVE  Shared' /\ Whole'
  BY <1>3 DEF HttpInv, Shared, Whole
\* the types of what no other fact speaks of
<1>t. ASSUME response' \in {"none", "ok", "bad", "given", "failed"}, cut' \in BOOLEAN,
             closed' \in BOOLEAN, once' \in {"new", "running", "over"}, content' \in 0 .. Parts,
             contentError' \in BOOLEAN, mixed' \in BOOLEAN, body' \in 0 .. Parts,
             transfer' \in [Caller -> Transfers], transfers' \in 0 .. MaxCalls,
             taken' \subseteq Results
      PROVE  Http!TypeOK'
  BY <1>t DEF Http!TypeOK, Transfers, Results
<1>4. CASE Http!Execute \/ Http!Give \/ Http!CutOff
  <2>1. UNCHANGED <<body, closed, once, content, contentError, taken, mixed, transfer, transfers>>
    BY <1>4 DEF Http!Execute, Http!Give, Http!CutOff
  <2>2. Shared' /\ Whole'
    BY <1>0, <1>3, <2>1 DEF Http!Reading
  <2>3. response' \in {"none", "ok", "bad", "given", "failed"} /\ cut' \in BOOLEAN
    <3>1. CASE Http!CutOff
      BY <3>1, Zenon DEF Http!CutOff, HttpInv, Http!TypeOK
    <3>2. CASE Http!Execute \/ Http!Give
      BY <3>2 DEF Http!Execute, Http!Give, HttpInv, Http!TypeOK
    <3> QED
      BY <1>4, <3>1, <3>2
  <2> QED
    <3>1. response' # "given" /\ once' = "new" => response # "given" /\ once = "new"
      BY <1>4 DEF Http!Execute, Http!Give, Http!CutOff
    <3>2. Early'
      BY <2>1, <3>1 DEF HttpInv, Early, Http!Reading
    <3> QED
      BY <1>0, <1>t, <2>1, <2>2, <2>3, <3>2 DEF HttpInv
<1>5. ASSUME NEW c \in Caller, Http!ErrorString(c) PROVE HttpInv'
  <2>1. ~Http!Reading(c)
    BY <1>5 DEF Http!ErrorString, HttpInv, Early
  <2>2. Http!Begin(c, "content") /\ once' = "running"
        /\ UNCHANGED <<response, body, cut, closed, content, contentError, transfers, taken>>
    BY <1>5 DEF Http!ErrorString
  <2>3. Shared' /\ Whole' /\ transfer' \in [Caller -> Transfers] /\ mixed' \in BOOLEAN
    BY <1>1, <2>1, <2>2
  <2> QED
    BY <1>0, <1>t, <2>2, <2>3 DEF HttpInv, Early
<1>6. ASSUME NEW c \in Caller, Http!GetContent(c) PROVE HttpInv'
  <2>1. /\ response = "given" /\ transfer[c].op = "none" /\ transfers' \in 0 .. MaxCalls
        /\ UNCHANGED <<response, body, cut, closed, content, contentError>> /\ ~Http!Reading(c)
    BY <1>0, <1>6 DEF Http!GetContent, Http!Reading
  <2>2. CASE once' = "running" /\ Http!Begin(c, "content") /\ UNCHANGED taken
    <3>1. Shared' /\ Whole' /\ transfer' \in [Caller -> Transfers] /\ mixed' \in BOOLEAN
      BY <1>1, <2>1, <2>2
    <3> QED
      BY <1>0, <1>t, <2>1, <2>2, <3>1 DEF HttpInv, Early
  <2>3. CASE transfer' = [transfer EXCEPT ![c].op = "wait"] /\ UNCHANGED <<once, taken, mixed>>
    <3>1. [transfer[c] EXCEPT !.op = "wait"] \in Transfers
      BY <1>0 DEF Transfers
    <3>2. transfer' = [transfer EXCEPT ![c] = [transfer[c] EXCEPT !.op = "wait"]]
      BY <1>0, <2>3
    <3>3. transfer' \in [Caller -> Transfers]
      BY <1>0, <3>1, <3>2
    <3>4. \A d \in Caller : /\ transfer'[d].got = transfer[d].got
                             /\ Http!Reading(d)' <=> Http!Reading(d)
      BY <1>0, <2>1, <3>2 DEF Transfers, Http!Reading
    <3>5. Shared' /\ Whole'
      BY <1>3, <2>1, <2>3, <3>3, <3>4
    <3> QED
      BY <1>0, <1>t, <2>1, <2>3, <3>3, <3>5 DEF HttpInv, Early
  <2>4. CASE /\ once = "over" /\ Http!Return(c, "content", ~contentError, content)
             /\ UNCHANGED <<once, mixed>>
    <3> DEFINE r == [op |-> "content", ok |-> ~contentError, got |-> content]
    <3>1. r \in Results /\ (~mixed /\ r.ok => r.got = Parts)
      BY <1>0, <2>4 DEF Results, HttpInv, Whole
    <3>2. transfer' = [transfer EXCEPT ![c] = Http!Idle] /\ taken' = taken \cup {r}
      BY <2>4 DEF Http!Return
    <3>3. ~mixed /\ once' = "over" /\ ~contentError' => content' = Parts
      BY <2>1, <2>4 DEF HttpInv, Whole
    <3> HIDE DEF r
    <3>4. /\ Shared' /\ Whole' /\ transfer' \in [Caller -> Transfers] /\ taken' \subseteq Results
      BY <1>2, <2>1, <2>4, <3>1, <3>2, <3>3
    <3> QED
      BY <1>0, <1>t, <2>1, <2>4, <3>4 DEF HttpInv, Early
  <2> QED
    BY <1>6, <2>2, <2>3, <2>4 DEF Http!GetContent
<1>7. ASSUME NEW c \in Caller, Http!Awake(c) PROVE HttpInv'
  <2> DEFINE r == [op |-> "content", ok |-> ~contentError, got |-> content]
  <2>1. /\ UNCHANGED <<response, body, cut, closed, once, content, contentError, transfers, mixed>>
        /\ once = "over" /\ ~Http!Reading(c)
        /\ transfer' = [transfer EXCEPT ![c] = Http!Idle] /\ taken' = taken \cup {r}
    BY <1>7 DEF Http!Awake, Http!Return, Http!Reading
  <2>2. r \in Results /\ (~mixed /\ r.ok => r.got = Parts)
    BY <1>0, <2>1 DEF Results, HttpInv, Whole
  <2>3. ~mixed /\ once' = "over" /\ ~contentError' => content' = Parts
    BY <2>1 DEF HttpInv, Whole
  <2> HIDE DEF r
  <2>4. /\ Shared' /\ Whole' /\ transfer' \in [Caller -> Transfers] /\ taken' \subseteq Results
    BY <1>2, <2>1, <2>2, <2>3
  <2> QED
    BY <1>0, <1>t, <2>1, <2>4 DEF HttpInv, Early
<1>8. ASSUME NEW c \in Caller, Http!WriteTo(c) PROVE HttpInv'
  <2>1. /\ response = "given" /\ ~Http!Reading(c) /\ transfers' \in 0 .. MaxCalls
        /\ UNCHANGED <<response, body, cut, once, content, contentError>>
    BY <1>0, <1>8 DEF Http!WriteTo, Http!Reading
  <2>2. CASE Http!Begin(c, "file") /\ UNCHANGED <<closed, taken>>
    <3>1. Shared' /\ Whole' /\ transfer' \in [Caller -> Transfers] /\ mixed' \in BOOLEAN
      BY <1>1, <2>1, <2>2
    <3> QED
      BY <1>0, <1>t, <2>1, <2>2, <3>1 DEF HttpInv, Early
  <2>3. CASE Http!Return(c, "file", FALSE, 0) /\ closed' = TRUE /\ UNCHANGED mixed
    <3> DEFINE r == [op |-> "file", ok |-> FALSE, got |-> 0]
    <3>1. r \in Results /\ ~r.ok
      BY <1>0 DEF Results
    <3>2. transfer' = [transfer EXCEPT ![c] = Http!Idle] /\ taken' = taken \cup {r}
      BY <2>3 DEF Http!Return
    <3>3. ~mixed /\ once' = "over" /\ ~contentError' => content' = Parts
      BY <2>1 DEF HttpInv, Whole
    <3> HIDE DEF r
    <3>4. /\ Shared' /\ Whole' /\ transfer' \in [Caller -> Transfers] /\ taken' \subseteq Results
      BY <1>2, <2>1, <2>3, <3>1, <3>2, <3>3
    <3> QED
      BY <1>0, <1>t, <2>1, <2>3, <3>4 DEF HttpInv, Early
  <2> QED
    BY <1>8, <2>2, <2>3 DEF Http!WriteTo
<1>9. ASSUME NEW c \in Caller, Http!Read(c) PROVE HttpInv'
  <2> DEFINE read == [transfer[c] EXCEPT !.got = @ + 1]
  <2>1. /\ Http!Reading(c) /\ ~closed /\ body > 0 /\ body' = body - 1
        /\ transfer' = [transfer EXCEPT ![c] = read]
        /\ UNCHANGED <<response, cut, closed, once, content, contentError, transfers, taken, mixed>>
    BY <1>0, <1>9 DEF Http!Read
  <2>2. transfer[c].got + body <= Parts /\ transfer[c] \in Transfers
    BY <1>0 DEF HttpInv, Shared
  <2>3. read \in Transfers /\ read.got = transfer[c].got + 1 /\ read.op = transfer[c].op
    BY <1>0, <2>1, <2>2 DEF Transfers
  <2> HIDE DEF read
  <2>4. transfer' \in [Caller -> Transfers]
        /\ \A d \in Caller : transfer'[d] = IF d = c THEN read ELSE transfer[d]
    BY <1>0, <2>1, <2>3
  <2>5. \A d \in Caller : Http!Reading(d)' <=> Http!Reading(d)
    BY <2>3, <2>4 DEF Http!Reading
  <2>6. \A d \in Caller : transfer[d].got \in Int
    BY <1>0 DEF Transfers
  <2>7. Shared'
    BY <1>0, <2>1, <2>2, <2>3, <2>4, <2>6 DEF HttpInv, Shared
  <2>8. Whole'
    <3>1. SUFFICES ASSUME ~mixed' PROVE Whole'
      BY DEF Whole
    <3>2. transfer[c].got + body = Parts /\ \A d \in Caller : Http!Reading(d) => d = c
      BY <2>1, <3>1 DEF HttpInv, Whole
    <3>3. transfer'[c].got + body' = Parts
      BY <1>0, <2>1, <2>3, <2>4, <2>6, <3>2
    <3> QED
      BY <2>1, <2>5, <3>1, <3>2, <3>3 DEF HttpInv, Whole
  <2>9. body' \in 0 .. Parts
    BY <1>0, <2>1
  <2> QED
    BY <1>0, <1>t, <2>1, <2>4, <2>5, <2>7, <2>8, <2>9 DEF HttpInv, Early
<1>10. ASSUME NEW c \in Caller, NEW ok \in BOOLEAN, Http!Ends(c, ok) PROVE HttpInv'
  <2>1. /\ Http!Reading(c) /\ closed' = TRUE /\ (ok => ~closed /\ body = 0)
        /\ UNCHANGED <<response, body, cut, transfers, mixed>>
        /\ transfer[c].got \in 0 .. Parts
    BY <1>0, <1>10 DEF Http!Ends, Transfers
  <2>2. ~mixed /\ ok => transfer[c].got = Parts
    BY <1>0, <2>1 DEF HttpInv, Whole
  <2> DEFINE Result(op) == [op |-> op, ok |-> ok, got |-> transfer[c].got]
  <2>3. \A op \in {"content", "file"} :
          Result(op) \in Results /\ (~mixed /\ Result(op).ok => Result(op).got = Parts)
    BY <1>0, <2>1, <2>2 DEF Results
  <2>4. CASE transfer[c].op = "content"
    <3>1. /\ once' = "over" /\ content' = transfer[c].got /\ contentError' = ~ok
          /\ transfer' = [transfer EXCEPT ![c] = Http!Idle]
          /\ taken' \in {taken, taken \cup {Result("content")}}
      BY <1>10, <2>4 DEF Http!Ends, Http!Return, Http!Kept
    <3>2. ~mixed /\ once' = "over" /\ ~contentError' => content' = Parts
      BY <2>2, <3>1
    <3> HIDE DEF Result
    <3>3. /\ Shared' /\ Whole' /\ transfer' \in [Caller -> Transfers] /\ taken' \subseteq Results
      BY <1>2, <2>1, <2>3, <3>1, <3>2
    <3>4. contentError' \in BOOLEAN /\ closed' \in BOOLEAN
      BY <1>10, <2>1, <3>1, Zenon
    <3> QED
      BY <1>0, <1>t, <2>1, <3>1, <3>3, <3>4 DEF HttpInv, Early
  <2>5. CASE transfer[c].op # "content"
    <3>1. /\ UNCHANGED <<once, content, contentError>>
          /\ transfer' = [transfer EXCEPT ![c] = Http!Idle]
          /\ taken' = taken \cup {Result("file")}
      BY <1>10, <2>5 DEF Http!Ends, Http!Return
    <3>2. ~mixed /\ once' = "over" /\ ~contentError' => content' = Parts
      BY <3>1 DEF HttpInv, Whole
    <3> HIDE DEF Result
    <3>3. /\ Shared' /\ Whole' /\ transfer' \in [Caller -> Transfers] /\ taken' \subseteq Results
      BY <1>2, <2>1, <2>3, <3>1, <3>2
    <3>4. closed' \in BOOLEAN
      BY <2>1, Zenon
    <3>5. Early'
      BY <1>0, <2>1, <3>1 DEF HttpInv, Early, Http!Reading
    <3> QED
      BY <1>0, <1>t, <2>1, <3>1, <3>3, <3>4, <3>5 DEF HttpInv
  <2> QED
    BY <2>4, <2>5
<1>11. CASE UNCHANGED Http!vars
  <2>1. UNCHANGED <<body, closed, once, content, contentError, taken, mixed, transfer, transfers,
                    response, cut>>
    BY <1>11 DEF Http!vars
  <2> QED
    BY <2>1 DEF HttpInv, Http!TypeOK, Shared, Whole, Early, Http!Reading
<1> QED
  BY <1>4, <1>5, <1>6, <1>7, <1>8, <1>9, <1>10, <1>11 DEF Http!Next

-----------------------------------------------------------------------------
(* DnsExchange                                                             *)

\* A query begins with its types.
LEMMA DnsBegins == Dns!Init => Dns!TypeOK
<1> SUFFICES ASSUME Dns!Init PROVE Dns!TypeOK
  OBVIOUS
<1>1. answer \in [answer : BOOLEAN, error : BOOLEAN]
  <2>1. FALSE \in BOOLEAN /\ answer = [answer |-> FALSE, error |-> FALSE]
    BY Zenon DEF Dns!Init
  <2> QED
    BY <2>1
<1> QED
  BY <1>1 DEF Dns!Init, Dns!TypeOK, Dns!Nothing

\* The platform, the goroutines and the caller keep them.
LEMMA DnsKept == Dns!TypeOK /\ [Dns!Next]_Dns!vars => Dns!TypeOK'
<1> SUFFICES ASSUME Dns!TypeOK, [Dns!Next]_Dns!vars PROVE Dns!TypeOK'
  OBVIOUS
<1>1. CASE Dns!Own
  <2> USE DEF Dns!TypeOK, Dns!Returns, Dns!Nothing
  <2>1. CASE Dns!Exchange
    BY <2>1 DEF Dns!Exchange
  <2>2. CASE Dns!Take \/ Dns!Cancel
    BY <2>2 DEF Dns!Take, Dns!Cancel
  <2>3. CASE Dns!Send \/ Dns!Invoke
    BY <2>3 DEF Dns!Send, Dns!Invoke
  <2> QED
    BY <1>1, <2>1, <2>2, <2>3 DEF Dns!Own
<1>2. CASE Dns!EndContext \/ Dns!OnCancel
  BY <1>2 DEF Dns!EndContext, Dns!OnCancel, Dns!TypeOK, Dns!Nothing
<1>3. ASSUME NEW said \in BOOLEAN, NEW error \in BOOLEAN, Dns!Tell(said, error)
      PROVE  Dns!TypeOK'
  <2>1. answer' \in [answer : BOOLEAN, error : BOOLEAN]
    <3>1. (answer.answer \/ said) \in BOOLEAN /\ (answer.error \/ error) \in BOOLEAN
      BY Zenon
    <3> QED
      BY <1>3, <3>1 DEF Dns!Tell
  <2> QED
    BY <1>3, <2>1 DEF Dns!Tell, Dns!TypeOK
<1>4. ASSUME NEW failed \in BOOLEAN, Dns!CallReturns(failed) PROVE Dns!TypeOK'
  BY <1>4 DEF Dns!CallReturns, Dns!TypeOK
<1>5. CASE UNCHANGED Dns!vars
  BY <1>5 DEF Dns!vars, Dns!TypeOK
<1> QED
  BY <1>1, <1>2, <1>3, <1>4, <1>5 DEF Dns!Next

-----------------------------------------------------------------------------
(* VpnType                                                                 *)

Libraries == [go : BOOLEAN, bare : BOOLEAN, modules : SUBSET Vpn!Module]
Archives  == [opens : BOOLEAN, named : {"none", "OpenVPN", "Shadowsocks"}, libs : Seq(Libraries)]

\* No library of an archive, or none before the one at l, can be read
NoneBefore(libs, l) == \A j \in DOMAIN libs : j < l => ~libs[j].go
NoneOf(libs)        == \A j \in DOMAIN libs : ~libs[j].go

\* An archive that says nothing
Silent(zip) == zip.opens => NoneOf(zip.libs) /\ zip.named = "none"

Plain(type) == [type |-> type, path |-> Vpn!NoPath]

\* The answers that the modules of a library allow
OfCore(lib, r) ==
  \E m \in lib.modules :
    /\ Vpn!PkgType(m.name) # "none"
    /\ r = [type |-> Vpn!PkgType(m.name),
            path |-> Vpn!CorePath(lib.modules, Vpn!PkgType(m.name))]
Coreless(lib) == \A m \in lib.modules : Vpn!PkgType(m.name) = "none"
HasIn(lib, name) == \E m \in lib.modules : m.name = name /\ m.strict
OfOthers(lib, r) ==
  /\ Coreless(lib)
  /\ r = Plain(IF \E m \in lib.modules : Vpn!PkgTypeSecondary(m.name) # "none" THEN "wireguard"
               ELSE IF HasIn(lib, "protobuf") /\ HasIn(lib, "bloomring") THEN "v2ray"
               ELSE Vpn!Unknown)
OfLibrary(lib, r) ==
  IF lib.bare THEN r = Plain("obfuscated") ELSE OfCore(lib, r) \/ OfOthers(lib, r)

\* The answers that an app allows: of the first library that can be read, in the first archive
\* that says something
OfArchive(zip, r) ==
  /\ zip.opens
  /\ \/ \E l \in DOMAIN zip.libs :
          NoneBefore(zip.libs, l) /\ zip.libs[l].go /\ OfLibrary(zip.libs[l], r)
     \/ NoneOf(zip.libs) /\ zip.named # "none" /\ r = Plain(zip.named)
OfApp(app, r) ==
  \/ \E k \in DOMAIN app :
       /\ \A i \in DOMAIN app : i < k => Silent(app[i])
       /\ OfArchive(app[k], r)
  \/ (\A i \in DOMAIN app : Silent(app[i])) /\ r = Plain("none")

\* Where a read is
Reading ==
  /\ \A i \in DOMAIN package : i < archive => Silent(package[i])
  /\ archive \in DOMAIN package => NoneBefore(package[archive].libs, library)
  /\ at = "entries" => coreType = Vpn!Unknown
  /\ at # "entries" =>
       /\ archive \in DOMAIN package /\ package[archive].opens
       /\ library \in DOMAIN package[archive].libs
       /\ Vpn!Library.go /\ ~Vpn!Library.bare
       /\ Len(answers) < Reads
  /\ at = "loop" =>
       /\ left \subseteq Vpn!Library.modules
       /\ IF coreType = Vpn!Unknown
          THEN \A m \in Vpn!Library.modules \ left : Vpn!PkgType(m.name) = "none"
          ELSE \E m \in Vpn!Library.modules :
                 coreType = Vpn!PkgType(m.name) /\ Vpn!PkgType(m.name) # "none"
  /\ at = "loop2" => left = Vpn!Library.modules /\ Coreless(Vpn!Library)

Paths   == {Vpn!NoPath} \cup {Vpn!CorePath(modules, type) :
                                modules \in SUBSET Vpn!Module, type \in Vpn!Types}
Answers == [type : Vpn!Types, path : Paths]

VpnInv ==
  /\ Vpn!TypeOK /\ package \in Seq(Archives) /\ Reading
  /\ answers \in Seq(Answers) /\ \A i \in DOMAIN answers : OfApp(package, answers[i])

\* What an app allows is an answer.
LEMMA AnswerShape ==
  ASSUME package \in Seq(Archives), NEW r, OfApp(package, r)
  PROVE  r \in Answers
<1>1. ASSUME NEW t \in Vpn!Types PROVE Plain(t) \in Answers
  BY <1>1 DEF Plain, Answers, Paths
<1>2. {"none", "OpenVPN", "Shadowsocks", "obfuscated", "wireguard", "v2ray", Vpn!Unknown}
        \subseteq Vpn!Types
  BY DEF Vpn!Types
<1>3. CASE r = Plain("none")
  BY <1>1, <1>2, <1>3
<1>4. ASSUME NEW zip \in Archives, OfArchive(zip, r) PROVE r \in Answers
  <2>1. CASE zip.named # "none" /\ r = Plain(zip.named)
    BY <1>1, <1>2, <2>1 DEF Archives
  <2>2. ASSUME NEW l \in DOMAIN zip.libs, OfLibrary(zip.libs[l], r) PROVE r \in Answers
    <3> DEFINE lib == zip.libs[l]
    <3>1. lib \in Libraries
      BY <2>2 DEF Archives
    <3>2. CASE r = Plain("obfuscated")
      BY <1>1, <1>2, <3>2
    <3>3. CASE OfOthers(lib, r)
      BY <1>1, <1>2, <3>3 DEF OfOthers
    <3>4. CASE OfCore(lib, r)
      <4>1. PICK m \in lib.modules :
              r = [type |-> Vpn!PkgType(m.name),
                   path |-> Vpn!CorePath(lib.modules, Vpn!PkgType(m.name))]
        BY <3>4 DEF OfCore
      <4>2. Vpn!PkgType(m.name) \in Vpn!Types
        BY DEF Vpn!PkgType, Vpn!Types
      <4>3. lib.modules \in SUBSET Vpn!Module
        BY <3>1 DEF Libraries
      <4> HIDE DEF lib
      <4>4. Vpn!CorePath(lib.modules, Vpn!PkgType(m.name)) \in Paths
        BY <4>2, <4>3 DEF Paths
      <4> QED
        BY <4>1, <4>2, <4>4 DEF Answers
    <3> QED
      BY <2>2, <3>2, <3>3, <3>4 DEF OfLibrary
  <2> QED
    BY <1>4, <2>1, <2>2 DEF OfArchive
<1> QED
  BY <1>3, <1>4 DEF OfApp

\* A set with two elements has more than one.
LEMMA Two ==
  ASSUME NEW S, IsFiniteSet(S), NEW v \in S, NEW w \in S, v # w
  PROVE  Cardinality(S) > 1
<1>1. {v} \in SUBSET S /\ {v} # S
  OBVIOUS
<1>2. Cardinality({v}) = 1 /\ IsFiniteSet({v})
  BY FS_Singleton
<1>3. Cardinality({v}) <= Cardinality(S) /\ Cardinality(S) # Cardinality({v})
  BY <1>1, FS_Subset
<1>4. Cardinality(S) \in Nat
  BY FS_CardinalityType
<1> QED
  BY <1>2, <1>3, <1>4

Cores == {{"clash"}, {"v2ray", "xray"}, {"sing-box"}}

\* Modules of a library that does not mix cores give it one type.
LEMMA OneCore ==
  ASSUME NEW lib, ~Vpn!Mixed(lib), NEW m \in lib.modules, NEW n \in lib.modules,
         Vpn!PkgType(m.name) # "none", Vpn!PkgType(n.name) # "none"
  PROVE  Vpn!PkgType(m.name) = Vpn!PkgType(n.name)
<1> DEFINE There == {core \in Cores : \E q \in lib.modules : q.name \in core}
           Core(name) == IF name \in {"v2ray", "xray"} THEN {"v2ray", "xray"} ELSE {name}
<1>1. IsFiniteSet(There)
  <2>1. IsFiniteSet(Cores)
    <3>1. Cores = {{"clash"}} \cup {{"v2ray", "xray"}} \cup {{"sing-box"}}
      BY DEF Cores
    <3>2. IsFiniteSet({{"clash"}}) /\ IsFiniteSet({{"v2ray", "xray"}}) /\ IsFiniteSet({{"sing-box"}})
      BY FS_Singleton
    <3>3. IsFiniteSet({{"clash"}} \cup {{"v2ray", "xray"}})
      BY <3>2, FS_Union
    <3> QED
      BY <3>1, <3>2, <3>3, FS_Union
  <2>2. There \in SUBSET Cores
    OBVIOUS
  <2> QED
    BY <2>1, <2>2, FS_Subset
<1>2. m.name \in {"clash", "v2ray", "xray", "sing-box"}
      /\ n.name \in {"clash", "v2ray", "xray", "sing-box"}
  BY DEF Vpn!PkgType
<1>3. Core(m.name) \in There /\ Core(n.name) \in There
  BY <1>2 DEF Cores
<1>4. ~(Cardinality(There) > 1)
  <2>1. There = {core \in {{"clash"}, {"v2ray", "xray"}, {"sing-box"}} :
                   \E q \in lib.modules : q.name \in core}
    BY DEF Cores
  <2>2. Vpn!Cardinality(There) = Cardinality(There)
    BY DEF Vpn!Cardinality, Cardinality
  <2> HIDE DEF There
  <2> QED
    BY <2>1, <2>2 DEF Vpn!Mixed
<1> HIDE DEF There
<1>5. Core(m.name) = Core(n.name)
  BY <1>1, <1>3, <1>4, Two
<1>6. m.name \in Core(n.name)
  BY <1>5
<1> QED
  BY <1>2, <1>6 DEF Vpn!PkgType

\* An app whose libraries do not mix cores allows one answer.
LEMMA OneAnswer ==
  ASSUME package \in Seq(Archives), NEW r, NEW q, OfApp(package, r), OfApp(package, q),
         \A k \in DOMAIN package : \A l \in DOMAIN package[k].libs :
           ~Vpn!Mixed(package[k].libs[l])
  PROVE  r = q
<1>0. DOMAIN package = 1 .. Len(package) /\ Len(package) \in Nat
      /\ \A k \in DOMAIN package : package[k] \in Archives
  OBVIOUS
<1>1. ASSUME NEW lib, ~Vpn!Mixed(lib), NEW v, NEW w, OfLibrary(lib, v), OfLibrary(lib, w)
      PROVE  v = w
  <2>1. CASE lib.bare
    BY <1>1, <2>1 DEF OfLibrary
  <2>2. CASE ~lib.bare /\ Coreless(lib)
    BY <1>1, <2>2 DEF OfLibrary, OfCore, OfOthers, Coreless
  <2>3. CASE ~lib.bare /\ ~Coreless(lib)
    <3>1. OfCore(lib, v) /\ OfCore(lib, w)
      BY <1>1, <2>3 DEF OfLibrary, OfOthers
    <3>2. PICK m \in lib.modules :
            /\ Vpn!PkgType(m.name) # "none"
            /\ v = [type |-> Vpn!PkgType(m.name),
                    path |-> Vpn!CorePath(lib.modules, Vpn!PkgType(m.name))]
      BY <3>1 DEF OfCore
    <3>3. PICK n \in lib.modules :
            /\ Vpn!PkgType(n.name) # "none"
            /\ w = [type |-> Vpn!PkgType(n.name),
                    path |-> Vpn!CorePath(lib.modules, Vpn!PkgType(n.name))]
      BY <3>1 DEF OfCore
    <3>4. Vpn!PkgType(m.name) = Vpn!PkgType(n.name)
      BY <1>1, <3>2, <3>3, OneCore
    <3> QED
      BY <3>2, <3>3, <3>4
  <2> QED
    BY <2>1, <2>2, <2>3
<1>2. ASSUME NEW k \in DOMAIN package, NEW v, NEW w,
             OfArchive(package[k], v), OfArchive(package[k], w)
      PROVE  v = w
  <2> DEFINE libs == package[k].libs
  <2>1. libs \in Seq(Libraries) /\ DOMAIN libs \subseteq Int
    <3>1. libs \in Seq(Libraries)
      BY <1>0 DEF Archives
    <3> QED
      BY <3>1
  <2>2. CASE NoneOf(libs)
    BY <1>2, <2>2 DEF OfArchive, NoneOf
  <2>3. CASE ~NoneOf(libs)
    <3>1. PICK l \in DOMAIN libs : NoneBefore(libs, l) /\ libs[l].go /\ OfLibrary(libs[l], v)
      BY <1>2, <2>3 DEF OfArchive
    <3>2. PICK j \in DOMAIN libs : NoneBefore(libs, j) /\ libs[j].go /\ OfLibrary(libs[j], w)
      BY <1>2, <2>3 DEF OfArchive
    <3>3. l = j
      BY <2>1, <3>1, <3>2 DEF NoneBefore
    <3> QED
      BY <1>1, <3>1, <3>2, <3>3
  <2> QED
    BY <2>2, <2>3
<1>3. ASSUME NEW k \in DOMAIN package, NEW v, OfArchive(package[k], v)
      PROVE  ~Silent(package[k])
  BY <1>3 DEF OfArchive, Silent, NoneOf
<1>4. CASE \A k \in DOMAIN package : Silent(package[k])
  BY <1>3, <1>4 DEF OfApp
<1>5. CASE ~\A k \in DOMAIN package : Silent(package[k])
  <2>1. PICK k \in DOMAIN package :
          (\A i \in DOMAIN package : i < k => Silent(package[i])) /\ OfArchive(package[k], r)
    BY <1>5 DEF OfApp
  <2>2. PICK j \in DOMAIN package :
          (\A i \in DOMAIN package : i < j => Silent(package[i])) /\ OfArchive(package[j], q)
    BY <1>5 DEF OfApp
  <2>3. k = j
    BY <1>0, <1>3, <2>1, <2>2
  <2> QED
    BY <1>2, <2>1, <2>2, <2>3
<1> QED
  BY <1>4, <1>5
\* A read of another app begins at its first archive.
LEMMA VpnBegins == Vpn!Init => VpnInv
<1> SUFFICES ASSUME Vpn!Init PROVE VpnInv
  OBVIOUS
<1>1. package \in Seq(Archives)
  BY PartsAssumption DEF Vpn!Init, Archives, Libraries
<1>2. Vpn!TypeOK
  BY <1>1, PartsAssumption DEF Vpn!Init, Vpn!TypeOK, Vpn!Types, Vpn!Unknown
<1>3. Reading
  <2>1. ASSUME NEW k \in DOMAIN package PROVE package[k].libs \in Seq(Libraries)
    <3>1. package[k] \in Archives
      BY <1>1, <2>1
    <3> QED
      BY <3>1 DEF Archives
  <2>2. \A libs \in Seq(Libraries) : NoneBefore(libs, 1)
    BY DEF NoneBefore
  <2> QED
    BY <1>1, <2>1, <2>2 DEF Vpn!Init, Reading
<1>4. answers \in Seq(Answers) /\ \A i \in DOMAIN answers : OfApp(package, answers[i])
  BY DEF Vpn!Init
<1> QED
  BY <1>1, <1>2, <1>3, <1>4 DEF VpnInv

\* What a read returns is an answer that the app allows.
LEMMA VpnKept == VpnInv /\ [Vpn!Next]_Vpn!vars => VpnInv'
<1> SUFFICES ASSUME VpnInv, [Vpn!Next]_Vpn!vars PROVE VpnInv'
  OBVIOUS
<1>0. /\ package \in Seq(Archives) /\ answers \in Seq(Answers)
      /\ DOMAIN package = 1 .. Len(package) /\ Len(package) \in Nat
      /\ \A k \in DOMAIN package : package[k] \in Archives /\ package[k].libs \in Seq(Libraries)
      /\ archive \in 1 .. Len(package) + 1 /\ library \in Nat \ {0} /\ Reads \in Nat
      /\ Len(answers) \in Nat /\ Len(answers) <= Reads
  <2>1. package \in Seq(Archives) /\ answers \in Seq(Answers)
    BY DEF VpnInv
  <2>2. ASSUME NEW k \in DOMAIN package
        PROVE  package[k] \in Archives /\ package[k].libs \in Seq(Libraries)
    <3>1. package[k] \in Archives
      BY <2>1, <2>2
    <3> QED
      BY <3>1 DEF Archives
  <2> QED
    BY <2>1, <2>2, PartsAssumption DEF VpnInv, Vpn!TypeOK
\* a read ends
<1>1. ASSUME NEW type, NEW core, Vpn!Return(type, core), Len(answers) < Reads,
             OfApp(package, [type |-> type, path |-> core])
      PROVE  VpnInv'
  <2> DEFINE r == [type |-> type, path |-> core]
  <2>1. r \in Answers
    BY <1>0, <1>1, AnswerShape
  <2>2. /\ answers' = Append(answers, r) /\ package' = package /\ archive' = 1 /\ library' = 1
        /\ left' = {} /\ coreType' = Vpn!Unknown /\ at' = "entries"
    BY <1>1 DEF Vpn!Return
  <2> HIDE DEF r
  <2>3. answers' \in Seq(Answers) /\ Len(answers') = Len(answers) + 1
        /\ \A i \in DOMAIN answers' : answers'[i] = r \/ (i \in DOMAIN answers /\ answers'[i] = answers[i])
    BY <1>0, <2>1, <2>2
  <2>4. \A i \in DOMAIN answers' : OfApp(package', answers'[i])
    <3>1. OfApp(package, r)
      BY <1>1 DEF r
    <3> QED
      BY <2>2, <2>3, <3>1 DEF VpnInv
  <2>5. Vpn!TypeOK'
    <3>1. ASSUME NEW i \in DOMAIN answers' PROVE answers'[i].type \in Vpn!Types
      <4>1. answers'[i] \in Answers
        BY <2>3, <3>1
      <4> QED
        BY <4>1 DEF Answers
    <3> QED
      BY <1>0, <1>1, <2>2, <2>3, <3>1 DEF Vpn!TypeOK, Vpn!Types, Vpn!Unknown
  <2>6. Reading'
    <3>1. \A libs \in Seq(Libraries) : NoneBefore(libs, 1)
      BY DEF NoneBefore
    <3> QED
      BY <1>0, <2>2, <3>1 DEF Reading
  <2> QED
    BY <1>0, <2>2, <2>3, <2>4, <2>5, <2>6 DEF VpnInv
\* a read goes on
<1>2. ASSUME UNCHANGED <<package, answers>>, Reading',
             archive' \in 1 .. Len(package) + 1, library' \in Nat \ {0},
             left' \subseteq Vpn!Module, coreType' \in Vpn!Types,
             at' \in {"entries", "loop", "loop2"}
      PROVE  VpnInv'
  BY <1>2 DEF VpnInv, Vpn!TypeOK, OfApp
\* the archive and the library of now
<1>3. ASSUME archive \in DOMAIN package
      PROVE  /\ package[archive] \in Archives /\ package[archive].libs \in Seq(Libraries)
             /\ \A i \in DOMAIN package : i < archive => Silent(package[i])
             /\ NoneBefore(package[archive].libs, library)
  BY <1>0, <1>3 DEF VpnInv, Reading
<1>4. ASSUME NEW r, archive \in DOMAIN package, OfArchive(package[archive], r)
      PROVE  OfApp(package, r)
  BY <1>3, <1>4 DEF OfApp
<1>5. ASSUME NEW r, archive \in DOMAIN package, package[archive].opens,
             library \in DOMAIN package[archive].libs,
             Vpn!Library.go, OfLibrary(Vpn!Library, r)
      PROVE  OfApp(package, r)
  BY <1>3, <1>4, <1>5 DEF OfArchive, Vpn!Library, Vpn!Archive
<1>6. CASE Vpn!Skip
  <2>1. /\ archive \in DOMAIN package /\ at = "entries" /\ ~package[archive].libs[library].go
        /\ library' = library + 1 /\ UNCHANGED <<package, archive, left, coreType, at, answers>>
    BY <1>0, <1>6 DEF Vpn!Skip, Vpn!HasLibrary, Vpn!HasArchive, Vpn!Library, Vpn!Archive
  <2>2. NoneBefore(package[archive].libs, library + 1)
    <3>1. package[archive].libs \in Seq(Libraries) /\ NoneBefore(package[archive].libs, library)
      BY <1>3, <2>1
    <3> QED
      BY <1>0, <2>1, <3>1 DEF NoneBefore
  <2>3. Reading'
    BY <2>1, <2>2 DEF VpnInv, Reading
  <2> QED
    BY <1>0, <1>2, <2>1, <2>3 DEF VpnInv, Vpn!TypeOK
<1>7. CASE Vpn!Entry
  <2>1. /\ archive \in DOMAIN package /\ at = "entries" /\ package[archive].opens
        /\ library \in DOMAIN package[archive].libs /\ Vpn!Library.go /\ Len(answers) < Reads
    <3>1. /\ archive <= Len(package) /\ at = "entries" /\ package[archive].opens
          /\ library <= Len(package[archive].libs) /\ Vpn!Library.go /\ Len(answers) < Reads
      BY <1>7 DEF Vpn!Entry, Vpn!HasLibrary, Vpn!HasArchive, Vpn!Archive, Vpn!More
    <3>2. archive \in DOMAIN package
      BY <1>0, <3>1
    <3>3. package[archive].libs \in Seq(Libraries)
      BY <1>0, <3>2
    <3> QED
      BY <1>0, <3>1, <3>2, <3>3
  <2>2. CASE Vpn!Library.bare
    <3>1. Vpn!Return("obfuscated", Vpn!NoPath)
      BY <1>7, <2>2 DEF Vpn!Entry
    <3>2. OfLibrary(Vpn!Library, [type |-> "obfuscated", path |-> Vpn!NoPath])
      BY <2>2 DEF OfLibrary, Plain
    <3> QED
      BY <1>1, <1>5, <2>1, <3>1, <3>2
  <2>3. CASE ~Vpn!Library.bare
    <3>1. /\ at' = "loop" /\ left' = Vpn!Library.modules
          /\ UNCHANGED <<package, archive, library, coreType, answers>>
      BY <1>7, <2>3 DEF Vpn!Entry
    <3>2. Vpn!Library' = Vpn!Library
      BY <3>1 DEF Vpn!Library, Vpn!Archive
    <3>3. Reading'
      BY <2>1, <2>3, <3>1, <3>2 DEF VpnInv, Reading
    <3>4. Vpn!Library \in Libraries
      BY <1>0, <2>1 DEF Vpn!Library, Vpn!Archive
    <3>5. Vpn!Library.modules \subseteq Vpn!Module
      BY <3>4 DEF Libraries
    <3> QED
      BY <1>0, <1>2, <3>1, <3>3, <3>5 DEF VpnInv, Vpn!TypeOK
  <2> QED
    BY <2>2, <2>3
<1>8. CASE Vpn!Loop
  <2>1. PICK m \in left :
          /\ left' = left \ {m}
          /\ coreType' = IF Vpn!PkgType(m.name) # "none" THEN Vpn!PkgType(m.name) ELSE coreType
    BY <1>8 DEF Vpn!Loop
  <2>2. at = "loop" /\ UNCHANGED <<package, archive, library, at, answers>>
    BY <1>8 DEF Vpn!Loop
  <2>3. Vpn!Library' = Vpn!Library
    BY <2>2 DEF Vpn!Library, Vpn!Archive
  <2>4. Vpn!PkgType(m.name) \in Vpn!Types /\ Vpn!PkgType(m.name) # Vpn!Unknown
    BY DEF Vpn!PkgType, Vpn!Types, Vpn!Unknown
  <2>5. /\ left \subseteq Vpn!Library.modules
        /\ IF coreType = Vpn!Unknown
           THEN \A n \in Vpn!Library.modules \ left : Vpn!PkgType(n.name) = "none"
           ELSE \E n \in Vpn!Library.modules :
                  coreType = Vpn!PkgType(n.name) /\ Vpn!PkgType(n.name) # "none"
    BY <2>2 DEF VpnInv, Reading
  <2>6. /\ left' \subseteq Vpn!Library.modules
        /\ IF coreType' = Vpn!Unknown
           THEN \A n \in Vpn!Library.modules \ left' : Vpn!PkgType(n.name) = "none"
           ELSE \E n \in Vpn!Library.modules :
                  coreType' = Vpn!PkgType(n.name) /\ Vpn!PkgType(n.name) # "none"
    <3>1. CASE Vpn!PkgType(m.name) # "none"
      BY <2>1, <2>4, <2>5, <3>1
    <3>2. CASE Vpn!PkgType(m.name) = "none"
      BY <2>1, <2>5, <3>2
    <3> QED
      BY <3>1, <3>2
  <2>7. Reading'
    BY <2>2, <2>3, <2>6 DEF VpnInv, Reading
  <2>8. left' \subseteq Vpn!Module /\ coreType' \in Vpn!Types
    BY <2>1, <2>4 DEF VpnInv, Vpn!TypeOK
  <2> QED
    BY <1>0, <1>2, <2>2, <2>7, <2>8
<1>9. CASE Vpn!AfterLoop
  <2>1. at = "loop" /\ left = {}
    BY <1>9 DEF Vpn!AfterLoop
  <2>2. /\ archive \in DOMAIN package /\ package[archive].opens
        /\ library \in DOMAIN package[archive].libs
        /\ Vpn!Library.go /\ ~Vpn!Library.bare /\ Len(answers) < Reads
        /\ IF coreType = Vpn!Unknown
           THEN \A n \in Vpn!Library.modules : Vpn!PkgType(n.name) = "none"
           ELSE \E n \in Vpn!Library.modules :
                  coreType = Vpn!PkgType(n.name) /\ Vpn!PkgType(n.name) # "none"
    BY <2>1 DEF VpnInv, Reading
  <2>3. CASE coreType = Vpn!Unknown
    <3>1. /\ at' = "loop2" /\ left' = Vpn!Library.modules
          /\ UNCHANGED <<package, archive, library, coreType, answers>>
      BY <1>9, <2>3 DEF Vpn!AfterLoop
    <3>2. Vpn!Library' = Vpn!Library
      BY <3>1 DEF Vpn!Library, Vpn!Archive
    <3>3. Coreless(Vpn!Library)
      BY <2>2, <2>3 DEF Coreless
    <3>4. Reading'
      BY <2>2, <3>1, <3>2, <3>3 DEF VpnInv, Reading
    <3>5. Vpn!Library \in Libraries
      BY <1>0, <2>2 DEF Vpn!Library, Vpn!Archive
    <3>6. Vpn!Library.modules \subseteq Vpn!Module
      BY <3>5 DEF Libraries
    <3> QED
      BY <1>0, <1>2, <3>1, <3>4, <3>6 DEF VpnInv, Vpn!TypeOK
  <2>4. CASE coreType # Vpn!Unknown
    <3>1. Vpn!Return(coreType, Vpn!CorePath(Vpn!Library.modules, coreType))
      BY <1>9, <2>4 DEF Vpn!AfterLoop
    <3>2. OfCore(Vpn!Library, [type |-> coreType,
                               path |-> Vpn!CorePath(Vpn!Library.modules, coreType)])
      BY <2>2, <2>4 DEF OfCore
    <3>3. OfLibrary(Vpn!Library, [type |-> coreType,
                                  path |-> Vpn!CorePath(Vpn!Library.modules, coreType)])
      BY <2>2, <3>2 DEF OfLibrary
    <3> QED
      BY <1>1, <1>5, <2>2, <3>1, <3>3
  <2> QED
    BY <2>3, <2>4
<1>10. CASE Vpn!Loop2
  <2>1. at = "loop2"
    BY <1>10 DEF Vpn!Loop2
  <2>2. /\ archive \in DOMAIN package /\ package[archive].opens
        /\ library \in DOMAIN package[archive].libs
        /\ Vpn!Library.go /\ ~Vpn!Library.bare /\ Len(answers) < Reads
        /\ left = Vpn!Library.modules /\ Coreless(Vpn!Library)
    BY <2>1 DEF VpnInv, Reading
  <2> DEFINE type == IF \E m \in Vpn!Library.modules : Vpn!PkgTypeSecondary(m.name) # "none"
                     THEN "wireguard"
                     ELSE IF HasIn(Vpn!Library, "protobuf") /\ HasIn(Vpn!Library, "bloomring")
                          THEN "v2ray" ELSE Vpn!Unknown
  <2>3. Vpn!Return(type, Vpn!NoPath)
    <3>1. \A name : Vpn!Has(name) <=> HasIn(Vpn!Library, name)
      BY DEF Vpn!Has, HasIn
    <3>2. CASE \E m \in left : Vpn!PkgTypeSecondary(m.name) # "none"
      BY <1>10, <2>2, <3>2 DEF Vpn!Loop2
    <3>3. CASE \A m \in left : Vpn!PkgTypeSecondary(m.name) = "none"
      BY <1>10, <2>2, <3>1, <3>3 DEF Vpn!Loop2
    <3> QED
      BY <3>2, <3>3
  <2>4. OfLibrary(Vpn!Library, [type |-> type, path |-> Vpn!NoPath])
    BY <2>2 DEF OfLibrary, OfOthers, Plain
  <2> HIDE DEF type
  <2> QED
    BY <1>1, <1>5, <2>2, <2>3, <2>4
<1>11. CASE Vpn!ByName
  <2>1. /\ archive \in DOMAIN package /\ package[archive].opens /\ Len(answers) < Reads
        /\ library > Len(package[archive].libs) /\ package[archive].named # "none"
        /\ Vpn!Return(package[archive].named, Vpn!NoPath)
    BY <1>0, <1>11 DEF Vpn!ByName, Vpn!HasArchive, Vpn!Archive, Vpn!More
  <2>2. NoneOf(package[archive].libs)
    BY <1>0, <1>3, <2>1 DEF NoneOf, NoneBefore
  <2>3. OfArchive(package[archive], [type |-> package[archive].named, path |-> Vpn!NoPath])
    BY <2>1, <2>2 DEF OfArchive, Plain
  <2> QED
    BY <1>1, <1>4, <2>1, <2>3
<1>12. CASE Vpn!NextArchive
  <2>1. /\ archive \in DOMAIN package /\ at = "entries"
        /\ \/ ~package[archive].opens
           \/ library > Len(package[archive].libs) /\ package[archive].named = "none"
        /\ archive' = archive + 1 /\ library' = 1
        /\ UNCHANGED <<package, left, coreType, at, answers>>
    BY <1>0, <1>12 DEF Vpn!NextArchive, Vpn!HasArchive, Vpn!Archive
  <2>2. Silent(package[archive])
    BY <1>0, <1>3, <2>1 DEF Silent, NoneOf, NoneBefore
  <2>3. \A libs \in Seq(Libraries) : NoneBefore(libs, 1)
    BY DEF NoneBefore
  <2>4. \A i \in DOMAIN package : i < archive + 1 => Silent(package[i])
    BY <1>0, <1>3, <2>1, <2>2
  <2>5. Reading'
    BY <1>0, <2>1, <2>3, <2>4 DEF VpnInv, Reading
  <2> QED
    BY <1>0, <1>2, <2>1, <2>5 DEF VpnInv, Vpn!TypeOK
<1>13. CASE Vpn!NoAnswer
  <2>1. Len(answers) < Reads /\ archive > Len(package) /\ Vpn!Return("none", Vpn!NoPath)
    BY <1>13 DEF Vpn!NoAnswer, Vpn!More
  <2>2. \A i \in DOMAIN package : Silent(package[i])
    BY <1>0, <2>1 DEF VpnInv, Reading
  <2>3. OfApp(package, [type |-> "none", path |-> Vpn!NoPath])
    BY <2>2 DEF OfApp, Plain
  <2> QED
    BY <1>1, <2>1, <2>3
<1>14. CASE UNCHANGED Vpn!vars
  <2>1. UNCHANGED <<package, archive, library, left, coreType, at, answers>>
    BY <1>14 DEF Vpn!vars
  <2> QED
    BY <2>1 DEF VpnInv, Vpn!TypeOK, Reading, OfApp, Vpn!Library, Vpn!Archive
<1> QED
  BY <1>6, <1>7, <1>8, <1>9, <1>10, <1>11, <1>12, <1>13, <1>14 DEF Vpn!Next


-----------------------------------------------------------------------------
(* FDroidUpdate: what FDroidProofs shows of it holds of the instance here    *)

FP == INSTANCE FDroidProofs WITH deaths <- dead

\* The steps of the two instances are the same, by their definitions.
LEMMA SameChecks == [Fdroid!Next]_Fdroid!vars => [FP!Next]_FP!vars
BY DEF
      Fdroid!Next, FP!Next, Fdroid!vars, FP!vars, Fdroid!mirrors, FP!mirrors, Fdroid!app,
      FP!app, Fdroid!Version, FP!Version, Fdroid!NoCache, FP!NoCache, Fdroid!Idle, FP!Idle,
      Fdroid!Greatest, FP!Greatest, Fdroid!Full, FP!Full, Fdroid!Diff, FP!Diff,
      Fdroid!IsBest, FP!IsBest, Fdroid!ETag, FP!ETag, Fdroid!Loaded, FP!Loaded,
      Fdroid!Written, FP!Written, Fdroid!At, FP!At, Fdroid!Ends, FP!Ends, Fdroid!Check,
      FP!Check, Fdroid!Fails, FP!Fails, Fdroid!Found, FP!Found, Fdroid!Unheard, FP!Unheard,
      Fdroid!ReadAPI, FP!ReadAPI, Fdroid!NotModified, FP!NotModified, Fdroid!NoEntry,
      FP!NoEntry, Fdroid!CacheAtEntry, FP!CacheAtEntry, Fdroid!ReadEntry, FP!ReadEntry,
      Fdroid!ReadIndex, FP!ReadIndex, Fdroid!ReadV1, FP!ReadV1, Fdroid!Answer, FP!Answer,
      Fdroid!Install, FP!Install, Fdroid!Publish, FP!Publish, Fdroid!AddEntry, FP!AddEntry,
      Fdroid!Die, FP!Die

\* What the instances call no cache, idle, a version and a cache is the same.
LEMMA SameNames ==
  /\ Fdroid!NoCache = FP!NoCache /\ Fdroid!Idle = FP!Idle
  /\ Fdroid!Version = FP!Version /\ Fdroid!Caches = FP!Caches
<1>1. Fdroid!NoCache = FP!NoCache
  BY Zenon DEF Fdroid!NoCache, FP!NoCache
<1>2. Fdroid!Idle = FP!Idle
  BY <1>1, Zenon DEF Fdroid!Idle, FP!Idle
<1>3. Fdroid!Version = FP!Version
  BY DEF Fdroid!Version, FP!Version
<1>4. Fdroid!Caches = FP!Caches
  BY <1>1, <1>3, Zenon DEF Fdroid!Caches, FP!Caches
<1> QED
  BY <1>1, <1>2, <1>3, <1>4

\* The instances begin alike.
LEMMA SameBeginning == Fdroid!Init => FP!Init
BY SameNames DEF Fdroid!Init, FP!Init

\* The instances have the same types.
LEMMA SameTypes == FP!TypeOK => Fdroid!TypeOK
BY SameNames DEF Fdroid!TypeOK, FP!TypeOK

\* The instances promise the same.
LEMMA SamePromise == FP!NothingWithheld => Fdroid!NothingWithheld
BY DEF
      Fdroid!NothingWithheld, FP!NothingWithheld, Fdroid!Full, FP!Full, Fdroid!Knows,
      FP!Knows, Fdroid!Covered, FP!Covered

\* What a check reads and knows, and the types of its state
FdroidInv == FP!CacheInv /\ FP!TypeOK

\* The checks begin with no cache, and typed.
LEMMA FdroidBegins == Fdroid!Init => FdroidInv
<1>1. Editions \in Nat \ {0} /\ MaxDeaths \in Nat
  BY PartsAssumption, ServerBounds
<1> QED
  BY <1>1, SameBeginning, FP!CacheBegins, FP!TypesBegin DEF FdroidInv

\* Every step of the checks keeps what their caches know and their types.
LEMMA FdroidKept == FdroidInv /\ [Fdroid!Next]_Fdroid!vars => FdroidInv'
<1>1. Editions \in Nat \ {0} /\ MaxDeaths \in Nat
  BY PartsAssumption, ServerBounds
<1>2. FP!CacheInv => FP!Shapes
  BY DEF FP!CacheInv
<1> QED
  BY <1>1, <1>2, SameChecks, FP!CacheKept, FP!TypesKept DEF FdroidInv

-----------------------------------------------------------------------------
(* ProfileCodec: one message                                                 *)

Words  == {"list", "error", "request", "content", "value", "name", "type", "part",
           "path", "update", "interval", "updated"} \cup Profile!Types
Tokens == Words \cup Nat

\* A list as it is encoded: its count, which may have wrapped, and three tokens a profile.
LEMMA ListEncoded ==
  ASSUME NEW n \in Nat
  PROVE  LET data == Profile!EncodeList(Profile!Profiles(n))
         IN  /\ data \in Seq(Tokens) /\ Len(data) = 3 * n + 2
             /\ data[1] = "list" /\ data[2] = n % Wrap
             /\ \A i \in 1 .. n : data[3 * i] = i
<1> DEFINE tail == [j \in 1 .. 3 * n |-> IF j % 3 = 1 THEN Profile!Profiles(n)[(j + 2) \div 3]
                                         ELSE IF j % 3 = 2 THEN "name" ELSE "type"]
           data == Profile!EncodeList(Profile!Profiles(n))
           head == <<"list", n % Wrap>>
<1>1. /\ Len(Profile!Profiles(n)) = n
      /\ \A i \in 1 .. n : Profile!Profiles(n)[i] = i
  BY DEF Profile!Profiles
<1>2. n % Wrap \in Nat
  BY PartsAssumption
<1>3. data = head \o tail
  BY <1>1 DEF Profile!EncodeList
<1>4. {"list", "name", "type"} \subseteq Tokens /\ Nat \subseteq Tokens
  BY DEF Tokens, Words
<1>5. ASSUME NEW j \in 1 .. 3 * n PROVE tail[j] \in Tokens
  <2>1. CASE j % 3 = 1
    <3>1. (j + 2) \div 3 \in 1 .. n
      BY <2>1
    <3>2. tail[j] = (j + 2) \div 3
      BY <1>1, <2>1, <3>1
    <3> HIDE DEF tail
    <3> QED
      BY <1>4, <3>1, <3>2
  <2>2. CASE j % 3 # 1
    <3>1. tail[j] \in {"name", "type"}
      BY <2>2
    <3> HIDE DEF tail
    <3> QED
      BY <1>4, <3>1
  <2> QED
    BY <2>1, <2>2
<1>6. tail \in [1 .. 3 * n -> Tokens]
  BY <1>5
<1>7. tail \in Seq(Tokens) /\ Len(tail) = 3 * n
  BY <1>6
<1>8. \A i \in 1 .. n : tail[3 * i - 2] = i
  <2>1. ASSUME NEW i \in 1 .. n PROVE tail[3 * i - 2] = i
    <3>1. 3 * i - 2 \in 1 .. 3 * n /\ (3 * i - 2) % 3 = 1 /\ (3 * i - 2 + 2) \div 3 = i
      OBVIOUS
    <3> QED
      BY <1>1, <3>1
  <2> QED
    BY <2>1
<1>9. head \in Seq(Tokens) /\ Len(head) = 2 /\ head[1] = "list" /\ head[2] = n % Wrap
  BY <1>2, <1>4
<1> HIDE DEF tail, data, head
<1>10. /\ data \in Seq(Tokens) /\ Len(data) = Len(head) + Len(tail)
       /\ \A i \in 1 .. Len(head) + Len(tail) :
            data[i] = IF i <= Len(head) THEN head[i] ELSE tail[i - Len(head)]
  <2>1. head \in Seq(Tokens) /\ tail \in Seq(Tokens)
    BY <1>7, <1>9
  <2> QED
    BY <1>3, <2>1, ConcatProperties
<1>11. Len(data) = 3 * n + 2 /\ data[1] = "list" /\ data[2] = n % Wrap
  <2>1. Len(head) + Len(tail) = 3 * n + 2
    BY <1>7, <1>9
  <2>2. 1 \in 1 .. 3 * n + 2 /\ 2 \in 1 .. 3 * n + 2
    OBVIOUS
  <2> QED
    BY <1>9, <1>10, <2>1, <2>2
<1>12. ASSUME NEW i \in 1 .. n PROVE data[3 * i] = i
  <2>1. 3 * i \in 1 .. Len(head) + Len(tail) /\ ~(3 * i <= Len(head))
    BY <1>7, <1>9
  <2>2. data[3 * i] = tail[3 * i - Len(head)]
    BY <1>10, <2>1
  <2> QED
    BY <1>8, <1>9, <2>2
<1> QED
  BY <1>10, <1>11, <1>12 DEF data

\* What follows the configuration is what a decoder of its version looks for.
LEMMA SameFields ==
  ASSUME NEW type \in Profile!Types, NEW v \in {0, 1}
  PROVE  LET fields == Profile!Fields(type, v)
         IN  /\ fields \in Seq(Tokens) /\ Len(fields) \in Nat
             /\ fields = IF v = 1 THEN Profile!EncodeFields(type)
                         ELSE Profile!EncodeOldFields(type)
             /\ Profile!Contains(fields, "path") <=> type # "local"
             /\ Profile!Contains(fields, "update") <=> Profile!ReadsUpdates(type, v)
             /\ Profile!Contains(fields, "interval") <=> type = "remote" /\ v = 1
<1> DEFINE fields == Profile!Fields(type, v)
<1>1. {"path", "update", "interval", "updated"} \subseteq Tokens
  BY DEF Tokens, Words
<1>2. ASSUME NEW b \in Tokens, NEW c \in Tokens, NEW d \in Tokens
      PROVE  /\ <<"path">> \o <<b, c>> = <<"path", b, c>>
             /\ <<"path">> \o <<b, c, d>> = <<"path", b, c, d>>
  <2>1. /\ <<"path">> \in Seq(Tokens) /\ <<b, c>> \in Seq(Tokens) /\ <<b, c, d>> \in Seq(Tokens)
        /\ <<"path", b, c>> \in Seq(Tokens) /\ <<"path", b, c, d>> \in Seq(Tokens)
    BY <1>1
  <2> DEFINE two == <<"path">> \o <<b, c>>
             three == <<"path">> \o <<b, c, d>>
  <2>2. /\ two \in Seq(Tokens) /\ Len(two) = 3
        /\ \A i \in 1 .. 3 : two[i] = IF i <= 1 THEN <<"path">>[i] ELSE <<b, c>>[i - 1]
        /\ three \in Seq(Tokens) /\ Len(three) = 4
        /\ \A i \in 1 .. 4 : three[i] = IF i <= 1 THEN <<"path">>[i] ELSE <<b, c, d>>[i - 1]
    BY <2>1, ConcatProperties
  <2> HIDE DEF two, three
  <2>3. two = <<"path", b, c>>
    BY <2>1, <2>2
  <2>4. three = <<"path", b, c, d>>
    BY <2>1, <2>2
  <2> QED
    BY <2>3, <2>4 DEF two, three
<1>3. fields = IF type = "local" THEN <<>>
               ELSE IF type = "icloud" /\ v = 1 THEN <<"path">>
               ELSE IF v = 1 THEN <<"path", "update", "interval", "updated">>
               ELSE <<"path", "update", "updated">>
  <2>1. <<"path">> \in Seq(Tokens)
    BY <1>1
  <2>2. <<"path">> \o <<>> = <<"path">> /\ <<>> \o <<>> = <<>>
    BY <2>1, ConcatEmptySeq
  <2>3. CASE type = "local"
    BY <2>2, <2>3 DEF Profile!Fields, Profile!ReadsPath, Profile!ReadsUpdates
  <2>4. CASE type = "icloud" /\ v = 1
    BY <2>2, <2>4 DEF Profile!Fields, Profile!ReadsPath, Profile!ReadsUpdates
  <2>5. CASE type # "local" /\ v = 0
    <3>1. fields = <<"path">> \o <<"update", "updated">>
      BY <2>5 DEF Profile!Fields, Profile!ReadsPath, Profile!ReadsUpdates
    <3>2. <<"path">> \o <<"update", "updated">> = <<"path", "update", "updated">>
      BY <1>1, <1>2
    <3> QED
      BY <2>5, <3>1, <3>2
  <2>6. CASE type = "remote" /\ v = 1
    <3>1. fields = <<"path">> \o <<"update", "interval", "updated">>
      BY <2>6 DEF Profile!Fields, Profile!ReadsPath, Profile!ReadsUpdates
    <3> HIDE DEF fields
    <3> QED
      BY <1>1, <1>2, <2>6, <3>1
  <2> QED
    BY <2>3, <2>4, <2>5, <2>6 DEF Profile!Types
<1>4. fields \in Seq(Tokens) /\ Len(fields) \in Nat
  BY <1>1, <1>3
<1>5. /\ Profile!Contains(fields, "path") <=> type # "local"
      /\ Profile!Contains(fields, "update") <=> Profile!ReadsUpdates(type, v)
      /\ Profile!Contains(fields, "interval") <=> type = "remote" /\ v = 1
  <2>1. CASE type = "local"
    BY <1>3, <2>1 DEF Profile!Contains, Profile!ReadsUpdates
  <2>2. CASE type = "icloud" /\ v = 1
    BY <1>3, <2>2 DEF Profile!Contains, Profile!ReadsUpdates
  <2>3. CASE v = 1 /\ type = "remote"
    BY <1>3, <2>3 DEF Profile!Contains, Profile!ReadsUpdates
  <2>4. CASE v = 0 /\ type # "local"
    BY <1>3, <2>4 DEF Profile!Contains, Profile!ReadsUpdates
  <2> QED
    BY <2>1, <2>2, <2>3, <2>4 DEF Profile!Types
<1>6. fields = IF v = 1 THEN Profile!EncodeFields(type) ELSE Profile!EncodeOldFields(type)
  <2>1. CASE v = 1
    BY <2>1 DEF Profile!Fields, Profile!ReadsPath, Profile!ReadsUpdates, Profile!EncodeFields,
                Profile!WritesPath, Profile!WritesUpdates
  <2>2. CASE v = 0
    BY <1>3, <2>2 DEF Profile!EncodeOldFields
  <2> QED
    BY <2>1, <2>2
<1> QED
  BY <1>4, <1>5, <1>6

\* A content message is its head, of five tokens and the configuration, and its fields.
LEMMA ContentEncoded ==
  ASSUME NEW m \in Profile!Contents
  PROVE  LET data == Profile!Encode(m)
             fields == Profile!Fields(m.type, m.version)
         IN  /\ m.kind = "content" /\ m.type \in Profile!Types /\ m.version \in {0, 1}
             /\ m.size \in Nat
             /\ data \in Seq(Tokens) /\ Len(data) = 5 + m.size + Len(fields)
             /\ data[1] = "content" /\ data[2] = m.version /\ data[4] = m.type /\ data[5] = m.size
             /\ \A i \in 1 .. Len(fields) : data[5 + m.size + i] = fields[i]
<1> DEFINE fields == Profile!Fields(m.type, m.version)
           five == <<"content", m.version, "name", m.type, m.size>>
           config == [i \in 1 .. m.size |-> "part"]
           head == Profile!EncodeHead(m)
           data == Profile!Encode(m)
<1>1. /\ m.kind = "content" /\ m.type \in Profile!Types /\ m.version \in {0, 1}
      /\ m.size \in Nat
  BY PartsAssumption DEF Profile!Contents
<1>2. Nat \subseteq Tokens /\ {"content", "name", "part"} \subseteq Tokens
      /\ Profile!Types \subseteq Tokens
  BY DEF Tokens, Words
<1>3. five \in Seq(Tokens) /\ Len(five) = 5 /\ five[1] = "content" /\ five[2] = m.version
      /\ five[4] = m.type /\ five[5] = m.size
  BY <1>1, <1>2
<1>4. config \in Seq(Tokens) /\ Len(config) = m.size
  <2>1. config \in [1 .. m.size -> Tokens]
    BY <1>2
  <2> QED
    BY <1>1, <2>1
<1>5. head = five \o config
  BY DEF Profile!EncodeHead
<1>6. fields \in Seq(Tokens) /\ Len(fields) \in Nat
  BY <1>1, SameFields
<1>7. data = head \o fields
  <2>1. fields = IF m.version = 1 THEN Profile!EncodeFields(m.type)
                 ELSE Profile!EncodeOldFields(m.type)
    BY <1>1, SameFields
  <2> HIDE DEF fields, head
  <2> QED
    BY <1>1, <2>1 DEF Profile!Encode, head
<1> DEFINE n == m.size
           last == Len(fields)
<1>8. /\ n \in Nat /\ last \in Nat
      /\ five \in Seq(Tokens) /\ Len(five) = 5 /\ config \in Seq(Tokens) /\ Len(config) = n
  BY <1>1, <1>3, <1>4, <1>6
<1> HIDE DEF n, fields, five, config, head, data
<1>9. /\ head \in Seq(Tokens) /\ Len(head) = 5 + n
      /\ \A i \in 1 .. 5 : head[i] = five[i]
  <2>1. /\ head \in Seq(Tokens) /\ Len(head) = Len(five) + Len(config)
        /\ \A i \in 1 .. Len(five) + Len(config) :
             head[i] = IF i <= Len(five) THEN five[i] ELSE config[i - Len(five)]
    BY <1>5, <1>8, ConcatProperties
  <2>2. \A i \in 1 .. 5 : i \in 1 .. Len(five) + Len(config) /\ i <= Len(five)
    BY <1>8
  <2> QED
    BY <1>8, <2>1, <2>2
<1>10. /\ data \in Seq(Tokens) /\ Len(data) = Len(head) + last
       /\ \A i \in 1 .. Len(head) + last :
            data[i] = IF i <= Len(head) THEN head[i] ELSE fields[i - Len(head)]
  BY <1>6, <1>7, <1>9, ConcatProperties
<1> HIDE DEF last
<1>11. \A i \in 1 .. 5 : data[i] = five[i]
  <2>1. \A i \in 1 .. 5 : i \in 1 .. Len(head) + last /\ i <= Len(head)
    BY <1>8, <1>9
  <2> QED
    BY <1>9, <1>10, <2>1
<1>12. \A i \in 1 .. last : data[5 + n + i] = fields[i]
  <2>1. ASSUME NEW i \in 1 .. last PROVE data[5 + n + i] = fields[i]
    <3>1. /\ 5 + n + i \in 1 .. Len(head) + last /\ ~(5 + n + i <= Len(head))
          /\ 5 + n + i - Len(head) = i
      BY <1>8, <1>9
    <3> DEFINE x == 5 + n + i
    <3>2. x \in 1 .. Len(head) + last /\ ~(x <= Len(head)) /\ x - Len(head) = i
      BY <1>8, <1>9, <3>1
    <3> HIDE DEF x
    <3>3. data[x] = fields[x - Len(head)]
      BY <1>10, <3>2
    <3> QED
      BY <3>2, <3>3 DEF x
  <2> QED
    BY <2>1
<1>13. data[1] = five[1] /\ data[2] = five[2] /\ data[4] = five[4] /\ data[5] = five[5]
  BY <1>11
<1>14. Len(data) = 5 + n + last
  BY <1>9, <1>10
<1> QED
  BY <1>1, <1>3, <1>10, <1>12, <1>13, <1>14 DEF data, fields, n, last

\* A content message that is whole is decoded to what it says, and one that is cut fails.
LEMMA ContentDecoded ==
  ASSUME NEW m \in Profile!Contents, NEW j \in 1 .. Len(Profile!Encode(m)),
         NEW data \in Seq(Tokens), Len(data) = j,
         \A i \in 1 .. j : data[i] = Profile!Encode(m)[i]
  PROVE  Profile!Decode(data) = IF j = Len(Profile!Encode(m)) THEN Profile!Says(m)
                                ELSE Profile!Failure
<1> DEFINE whole == Profile!Encode(m)
           fields == Profile!Fields(m.type, m.version)
           first == 5 + data[5]
           Value(field) == IF Profile!Contains(fields, field)
                           THEN data[first + CHOOSE i \in DOMAIN fields : fields[i] = field]
                           ELSE Profile!NoTime
<1>1. /\ m.kind = "content" /\ m.type \in Profile!Types /\ m.version \in {0, 1} /\ m.size \in Nat
      /\ Len(whole) = 5 + m.size + Len(fields)
      /\ whole[1] = "content" /\ whole[2] = m.version /\ whole[4] = m.type /\ whole[5] = m.size
      /\ \A i \in 1 .. Len(fields) : whole[5 + m.size + i] = fields[i]
  BY ContentEncoded
<1>2. /\ fields \in Seq(Tokens) /\ Len(fields) \in Nat
      /\ Profile!Contains(fields, "path") <=> m.type # "local"
      /\ Profile!Contains(fields, "update") <=> Profile!ReadsUpdates(m.type, m.version)
      /\ Profile!Contains(fields, "interval") <=> m.type = "remote" /\ m.version = 1
  BY <1>1, SameFields
<1> DEFINE n == m.size
           last == Len(fields)
           all == Len(whole)
<1>3. n \in Nat /\ last \in Nat /\ all = 5 + n + last /\ j \in 1 .. all
  BY <1>1, <1>2
<1> HIDE DEF whole, fields, n, last, all
<1>4. j \in Nat /\ j >= 1 /\ j <= all /\ \A i \in 1 .. j : data[i] = whole[i]
  <2>1. \A i \in 1 .. j : data[i] = whole[i]
    BY DEF whole
  <2> QED
    BY <1>3, <2>1
<1>5. data[1] = "content" /\ data # <<>>
  <2>1. 1 \in 1 .. j /\ Len(data) # 0
    BY <1>4
  <2>2. data[1] = whole[1]
    BY <1>4, <2>1
  <2> QED
    BY <1>1, <2>1, <2>2, EmptySeq
<1>6. Profile!Decode(data) = Profile!DecodeContent(data)
  BY <1>5 DEF Profile!Decode
<1>7. CASE j < 5
  <2>1. Profile!DecodeContent(data) = Profile!Failure
    BY <1>4, <1>7 DEF Profile!DecodeContent
  <2>2. j # all
    BY <1>3, <1>7
  <2> QED
    BY <1>6, <2>1, <2>2 DEF whole, all
<1>8. CASE j >= 5
  <2>1. data[2] = m.version /\ data[4] = m.type /\ data[5] = n
    <3>1. 2 \in 1 .. j /\ 4 \in 1 .. j /\ 5 \in 1 .. j
      BY <1>4, <1>8
    <3> QED
      BY <1>1, <1>4, <3>1 DEF n
  <2>2. Profile!Fields(data[4], data[2]) = fields
    BY <2>1 DEF fields
  <2>3. CASE j # all
    <3>1. Len(data) < 5 + data[5] + last
      BY <1>3, <1>4, <2>1, <2>3
    <3>2. Profile!DecodeContent(data) = Profile!Failure
      BY <2>2, <3>1 DEF Profile!DecodeContent, last
    <3> QED
      BY <1>6, <2>3, <3>2 DEF whole, all
  <2>4. CASE j = all
    <3>1. ~(Len(data) < 5) /\ ~(Len(data) < 5 + data[5] + last)
      BY <1>3, <1>4, <1>8, <2>1, <2>4
    <3>2. Profile!DecodeContent(data)
            = Profile!Read(m.type, m.size, Value("path"), Value("update"), Value("interval"))
      BY <2>1, <2>2, <3>1 DEF Profile!DecodeContent, last, n
    <3>3. ASSUME NEW field, Profile!Contains(fields, field) PROVE Value(field) = field
      <4> DEFINE k == CHOOSE i \in DOMAIN fields : fields[i] = field
      <4>1. k \in DOMAIN fields /\ fields[k] = field
        BY <1>2, <3>3 DEF Profile!Contains
      <4>2. k \in 1 .. last
        BY <1>2, <4>1 DEF last
      <4> HIDE DEF k
      <4>3. 5 + n + k \in 1 .. j
        BY <1>3, <2>4, <4>2
      <4>4. data[5 + n + k] = whole[5 + n + k]
        BY <1>4, <4>3
      <4>5. whole[5 + n + k] = fields[k]
        BY <1>1, <4>2 DEF n, last
      <4>6. data[first + k] = field
        BY <2>1, <4>1, <4>4, <4>5
      <4> QED
        BY <3>3, <4>6 DEF k
    <3>4. Value("path") = IF m.type = "local" THEN Profile!NoTime ELSE "path"
      BY <1>2, <3>3
    <3>5. Value("update") = IF Profile!ReadsUpdates(m.type, m.version) THEN "update"
                            ELSE Profile!NoTime
      BY <1>2, <3>3
    <3>6. Value("interval") = IF m.type = "remote" /\ m.version = 1 THEN "interval"
                              ELSE Profile!NoTime
      BY <1>2, <3>3
    <3> HIDE DEF Value
    <3>7. Profile!Says(m)
            = Profile!Read(m.type, m.size, Value("path"), Value("update"), Value("interval"))
      <4>1. Profile!ReadsUpdates(m.type, m.version)
              <=> m.type = "remote" \/ (m.type = "icloud" /\ m.version = 0)
        BY <1>1 DEF Profile!ReadsUpdates, Profile!Types
      <4> QED
        BY <1>1, <3>4, <3>5, <3>6, <4>1 DEF Profile!Says
    <3> QED
      BY <1>6, <2>4, <3>2, <3>7 DEF whole, all
  <2> QED
    BY <2>3, <2>4
<1> QED
  BY <1>4, <1>7, <1>8

\* A message is one token at least, of which the first tells its kind.
LEMMA Encoded ==
  ASSUME NEW m \in Profile!Messages
  PROVE  LET data == Profile!Encode(m)
         IN  /\ data \in Seq(Tokens) /\ Len(data) \in Nat \ {0} /\ data[1] = m.kind
             /\ \/ m.kind \in {"error", "request"} /\ Len(data) = 2
                   /\ Profile!Says(m) = [kind |-> m.kind]
                \/ m \in Profile!Contents /\ m.kind = "content"
                \/ /\ m.kind = "list" /\ m.size \in Nat /\ Len(data) = 3 * m.size + 2
                   /\ data[2] = m.size % Wrap
                   /\ \A i \in 1 .. m.size : data[3 * i] = i
                   /\ Profile!Says(m) = [kind |-> "list"]
<1> DEFINE data == Profile!Encode(m)
<1>1. CASE m \in {[kind |-> "error"], [kind |-> "request"]}
  <2>1. m = [kind |-> m.kind] /\ m.kind \in {"error", "request"}
    BY <1>1
  <2>2. data = <<m.kind, "value">>
    BY <2>1 DEF Profile!Encode, Profile!EncodeValue
  <2>3. data \in Seq(Tokens) /\ Len(data) = 2 /\ data[1] = m.kind
    BY <2>1, <2>2 DEF Tokens, Words
  <2>4. Profile!Says(m) = [kind |-> m.kind]
    BY <2>1 DEF Profile!Says
  <2> QED
    BY <2>1, <2>3, <2>4
<1>2. CASE m \in Profile!Contents
  <2>1. m.type \in Profile!Types /\ m.version \in {0, 1}
    BY <1>2, ContentEncoded
  <2>2. Len(Profile!Fields(m.type, m.version)) \in Nat
    BY <2>1, SameFields
  <2>3. /\ data \in Seq(Tokens) /\ data[1] = "content" /\ m.kind = "content" /\ m.size \in Nat
        /\ Len(data) = 5 + m.size + Len(Profile!Fields(m.type, m.version))
    BY <1>2, ContentEncoded
  <2> HIDE DEF data
  <2>4. Len(data) \in Nat \ {0}
    BY <2>2, <2>3
  <2> QED
    BY <1>2, <2>3, <2>4 DEF data
<1>3. CASE m \in [kind : {"list"}, size : Lists]
  <2> DEFINE n == m.size
  <2>1. n \in Nat /\ m.kind = "list"
    BY <1>3, PartsAssumption
  <2>2. data = Profile!EncodeList(Profile!Profiles(n))
    BY <2>1 DEF Profile!Encode
  <2>3. Profile!Says(m) = [kind |-> "list"]
    BY <2>1 DEF Profile!Says
  <2> HIDE DEF n, data
  <2>4. /\ data \in Seq(Tokens) /\ Len(data) = 3 * n + 2
        /\ data[1] = "list" /\ data[2] = n % Wrap
        /\ \A i \in 1 .. n : data[3 * i] = i
    BY <2>1, <2>2, ListEncoded
  <2>5. Len(data) \in Nat \ {0}
    BY <2>1, <2>4
  <2> QED
    BY <2>1, <2>3, <2>4, <2>5 DEF n, data
<1> QED
  BY <1>1, <1>2, <1>3 DEF Profile!Messages

\* What is taken of a message, from its beginning, says what the message says or fails; if it is
\* all of it, it does not fail, unless the count has wrapped.  Of a list it has the first
\* profiles, and all of them if it is all of it, unless the count has wrapped.
LEMMA Taken ==
  ASSUME NEW m \in Profile!Messages, NEW j \in 0 .. Len(Profile!Encode(m))
  PROVE  LET whole == Profile!Encode(m)
             data == SubSeq(whole, 1, j)
             fits == m.kind = "list" => m.size < Wrap
         IN  /\ data \in Seq(Tokens) /\ Len(data) = j
             /\ data # <<>> => data[1] = m.kind
             /\ j = Len(whole) => data # <<>>
             /\ Profile!Decode(data) \in {Profile!Says(m), Profile!Failure}
             /\ j = Len(whole) /\ fits => Profile!Decode(data) = Profile!Says(m)
             /\ m.kind = "list" /\ fits =>
                  \E r \in 0 .. m.size : /\ Profile!ListOf(data) = Profile!Profiles(r)
                                         /\ j = Len(whole) => r = m.size
<1> DEFINE whole == Profile!Encode(m)
           data == SubSeq(whole, 1, j)
           fits == m.kind = "list" => m.size < Wrap
           Goal == /\ Profile!Decode(data) \in {Profile!Says(m), Profile!Failure}
                   /\ j = Len(whole) /\ fits => Profile!Decode(data) = Profile!Says(m)
                   /\ m.kind = "list" /\ fits =>
                        \E r \in 0 .. m.size : /\ Profile!ListOf(data) = Profile!Profiles(r)
                                               /\ j = Len(whole) => r = m.size
<1>1. /\ whole \in Seq(Tokens) /\ Len(whole) \in Nat \ {0} /\ whole[1] = m.kind
      /\ \/ m.kind \in {"error", "request"} /\ Len(whole) = 2
            /\ Profile!Says(m) = [kind |-> m.kind]
         \/ m \in Profile!Contents /\ m.kind = "content"
         \/ /\ m.kind = "list" /\ m.size \in Nat /\ Len(whole) = 3 * m.size + 2
            /\ whole[2] = m.size % Wrap
            /\ \A i \in 1 .. m.size : whole[3 * i] = i
            /\ Profile!Says(m) = [kind |-> "list"]
  BY Encoded
<1>2. j \in Nat /\ j <= Len(whole)
  BY <1>1
<1> HIDE DEF whole
<1>3. \A i \in 1 .. j : whole[i] \in Tokens
  BY <1>1, <1>2
<1>4. /\ data \in Seq(Tokens) /\ Len(data) = j
      /\ \A i \in 1 .. j : data[i] = whole[i]
  BY <1>2, <1>3, SubSeqProperties
<1>5. j = 0 <=> data = <<>>
  BY <1>2, <1>4, EmptySeq
<1> HIDE DEF data
<1>6. data # <<>> => data[1] = m.kind
  BY <1>1, <1>2, <1>4, <1>5
<1>7. ASSUME j = 0, m.kind # "list" PROVE Goal
  <2>1. Profile!Decode(data) = Profile!Failure /\ j # Len(whole)
    BY <1>1, <1>5, <1>7 DEF Profile!Decode
  <2> QED
    BY <1>7, <2>1
<1>8. ASSUME j > 0, m.kind \in {"error", "request"} PROVE Goal
  <2>1. data # <<>> /\ data[1] = m.kind
    BY <1>2, <1>5, <1>6, <1>8
  <2>2. Profile!Decode(data) = IF j < 2 THEN Profile!Failure ELSE [kind |-> m.kind]
    BY <1>4, <1>8, <2>1 DEF Profile!Decode, Profile!DecodeValue
  <2>3. Len(whole) = 2 /\ Profile!Says(m) = [kind |-> m.kind] /\ m.kind # "list"
    BY <1>1, <1>8
  <2>4. j = Len(whole) => ~(j < 2)
    BY <2>3
  <2> QED
    BY <2>2, <2>3, <2>4
<1>9. ASSUME j > 0, m.kind = "content" PROVE Goal
  <2>1. m \in Profile!Contents /\ j \in 1 .. Len(Profile!Encode(m))
    BY <1>1, <1>2, <1>9 DEF whole
  <2>2. \A i \in 1 .. j : data[i] = Profile!Encode(m)[i]
    BY <1>4 DEF whole
  <2>3. Profile!Decode(data) = IF j = Len(whole) THEN Profile!Says(m) ELSE Profile!Failure
    BY <1>4, <2>1, <2>2, ContentDecoded DEF whole
  <2> QED
    BY <1>9, <2>3
<1>10. ASSUME m.kind = "list" PROVE Goal
  <2> DEFINE n == m.size
             parts == (j - 2) \div 3
  <2>1. /\ n \in Nat /\ Len(whole) = 3 * n + 2 /\ whole[2] = n % Wrap
        /\ \A i \in 1 .. n : whole[3 * i] = i
        /\ Profile!Says(m) = [kind |-> "list"]
    BY <1>1, <1>10
  <2>2. Profile!Decode(data) \in {Profile!Says(m), Profile!Failure}
    BY <1>5, <1>6, <1>10, <2>1 DEF Profile!Decode
  <2>3. ASSUME n < Wrap, j < 2
        PROVE  /\ j # Len(whole)
               /\ \E r \in 0 .. n : Profile!ListOf(data) = Profile!Profiles(r)
    <3>1. Profile!ListOf(data) = <<>>
      BY <1>4, <2>3 DEF Profile!ListOf
    <3>2. Profile!Profiles(0) = <<>>
      BY DEF Profile!Profiles
    <3>3. j # 3 * n + 2
      BY <2>1, <2>3
    <3> QED
      BY <2>1, <3>1, <3>2, <3>3
  <2>4. ASSUME n < Wrap, j >= 2
        PROVE  /\ parts \in 0 .. n /\ Profile!ListOf(data) = Profile!Profiles(parts)
               /\ j = Len(whole) => parts = n /\ Profile!Decode(data) = Profile!Says(m)
    <3>0. n \in Nat /\ n < Wrap
      BY <2>1, <2>4
    <3> HIDE DEF n
    <3>1. n % Wrap = n
      BY <3>0, PartsAssumption
    <3>2. data[2] = n
      BY <1>2, <1>4, <2>1, <2>4, <3>1
    <3>3. parts \in 0 .. n /\ (j = Len(whole) => parts = n) /\ 3 * parts + 2 <= j
      BY <1>2, <2>1, <2>4
    <3>4. Len(data) = j /\ ~(Len(data) < 2) /\ Len(data) >= 2
      BY <1>2, <1>4, <2>4
    <3> DEFINE p == parts
    <3>5. p \in 0 .. n /\ (Len(data) - 2) \div 3 = p /\ 3 * p + 2 <= j
      BY <3>3, <3>4
    <3> HIDE DEF parts, p
    <3>6. Profile!Readable(data) = p
      BY <2>1, <3>2, <3>5 DEF Profile!Readable
    <3>7. Profile!ListOf(data) = [i \in 1 .. p |-> data[3 * i]]
      BY <3>4, <3>6 DEF Profile!ListOf
    <3>8. \A i \in 1 .. p : data[3 * i] = i
      <4>1. ASSUME NEW i \in 1 .. p PROVE data[3 * i] = i
        <5>1. i \in 1 .. n /\ 3 * i \in 1 .. j
          BY <1>2, <2>1, <3>5
        <5> QED
          BY <1>4, <2>1, <5>1
      <4> QED
        BY <4>1
    <3>9. Profile!ListOf(data) = Profile!Profiles(p)
      BY <3>7, <3>8 DEF Profile!Profiles
    <3>10. ASSUME p = n PROVE Profile!Decode(data) = Profile!Says(m)
      <4>1. Profile!ListIsWhole(data)
        BY <3>2, <3>4, <3>6, <3>10 DEF Profile!ListIsWhole
      <4>2. data # <<>> /\ data[1] = "list"
        BY <1>5, <1>6, <1>10, <2>4
      <4> QED
        BY <2>1, <4>1, <4>2 DEF Profile!Decode
    <3> QED
      BY <3>3, <3>9, <3>10 DEF p
  <2> HIDE DEF parts
  <2>5. n < Wrap => \E r \in 0 .. n : /\ Profile!ListOf(data) = Profile!Profiles(r)
                                      /\ j = Len(whole) => r = n
    BY <1>2, <2>3, <2>4
  <2>6. j = Len(whole) /\ n < Wrap => Profile!Decode(data) = Profile!Says(m)
    BY <1>2, <2>3, <2>4
  <2> QED
    BY <1>10, <2>2, <2>5, <2>6
<1>11. Goal
  BY <1>1, <1>2, <1>7, <1>8, <1>9, <1>10
<1>12. j = Len(whole) => data # <<>>
  BY <1>1, <1>2, <1>5
<1> QED
  BY <1>4, <1>6, <1>11, <1>12 DEF data, whole

-----------------------------------------------------------------------------
(* ProfileCodec: a connection                                                *)

Chunks == [length : Nat, data : Seq(Tokens)]

\* What is on its way is a message, or what the connection left of the last one
OnItsWay(chunk, m, last) ==
  \E j \in 0 .. Len(Profile!Encode(m)) :
    /\ chunk = [length |-> Len(Profile!Encode(m)) % Wrap, data |-> SubSeq(Profile!Encode(m), 1, j)]
    /\ j = Len(Profile!Encode(m)) \/ last

\* What was received of a message
Answered(reading, m, excused) ==
  reading = Profile!Says(m) \/ (reading = Profile!Failure /\ excused)

\* Nothing that was received was too large
Fits == \A k \in DOMAIN received : ~Profile!TooLarge(sent[k])

\* While more can come no profile is missing
Arrived ==
  /\ profiles \in Seq(Nat) /\ listed \in Seq(Nat)
  /\ wire # <<>> \/ ~torn => profiles = listed
  /\ Profile!IsPrefix(profiles, listed)

\* What was sent was received or is on its way, unless a length did not fit its data
ProfileInv ==
  /\ chunked \in BOOLEAN /\ torn \in BOOLEAN
  /\ sent \in Seq(Profile!Messages) /\ wire \in Seq(Chunks) /\ \E S : received \in Seq(S)
  /\ Len(received) + Len(wire) <= Len(sent)
  /\ wire # <<>> \/ ~torn => Len(received) + Len(wire) = Len(sent)
  /\ \A k \in DOMAIN wire :
       OnItsWay(wire[k], sent[Len(received) + k], torn /\ Len(received) + k = Len(sent))
  /\ \A k \in DOMAIN received :
       Answered(received[k], sent[k], Profile!TooLarge(sent[k]) \/ (torn /\ k = Len(sent)))
  /\ Fits => Arrived

\* A message goes in a chunk, or what was left of it.
LEMMA ChunkShape ==
  ASSUME NEW m \in Profile!Messages, NEW j \in 0 .. Len(Profile!Encode(m))
  PROVE  LET whole == Profile!Encode(m)
         IN  /\ Len(whole) \in Nat /\ Len(whole) % Wrap \in Nat
             /\ Len(whole) < Wrap => Len(whole) % Wrap = Len(whole)
             /\ [length |-> Len(whole) % Wrap, data |-> SubSeq(whole, 1, j)] \in Chunks
             /\ Profile!Chunk(whole) = [length |-> Len(whole) % Wrap,
                                        data |-> SubSeq(whole, 1, Len(whole))]
<1> DEFINE whole == Profile!Encode(m)
           n == Len(whole)
<1>1. whole \in Seq(Tokens) /\ n \in Nat
  BY Encoded
<1>2. SubSeq(whole, 1, j) \in Seq(Tokens)
  BY Taken
<1>3. SubSeq(whole, 1, n) = whole
  BY <1>1, SubSeqFull
<1>4. Profile!Chunk(whole) = [length |-> n % Wrap, data |-> whole]
  BY DEF Profile!Chunk
<1> HIDE DEF whole, n
<1>5. n % Wrap \in Nat /\ (n < Wrap => n % Wrap = n)
  BY <1>1, PartsAssumption
<1>6. [length |-> n % Wrap, data |-> SubSeq(whole, 1, j)] \in Chunks
  BY <1>2, <1>5 DEF Chunks
<1> QED
  BY <1>1, <1>3, <1>4, <1>5, <1>6 DEF whole, n

\* A sequence is a prefix of itself, whatever follows it.
LEMMA Prefix ==
  ASSUME NEW s \in Seq(Nat), NEW t \in Seq(Nat)
  PROVE  Profile!IsPrefix(s, s) /\ Profile!IsPrefix(s, s \o t)
<1>1. Len(s) \in Nat /\ Len(t) \in Nat /\ Len(s \o t) = Len(s) + Len(t)
  BY LenProperties, ConcatProperties
<1>2. SubSeq(s \o t, 1, Len(s)) = SubSeq(s, 1, Len(s))
  <2>1. CASE Len(s) = 0
    BY <2>1, SubSeqEmpty
  <2>2. CASE Len(s) # 0
    <3>1. 1 \in 1 .. Len(s) /\ Len(s) \in 1 .. Len(s)
      BY <1>1, <2>2
    <3> QED
      BY <3>1, SubSeqOfConcat1
  <2> QED
    BY <2>1, <2>2
<1> QED
  BY <1>1, <1>2 DEF Profile!IsPrefix

\* The first profiles of a list are a prefix of all of them, whatever came before.
LEMMA PartOfList ==
  ASSUME NEW s \in Seq(Nat), NEW n \in Nat, NEW r \in 0 .. n
  PROVE  /\ Profile!Profiles(r) \in Seq(Nat) /\ s \o Profile!Profiles(r) \in Seq(Nat)
         /\ Profile!IsPrefix(s \o Profile!Profiles(r), s \o Profile!Profiles(n))
<1> DEFINE P(k) == Profile!Profiles(k)
           rest == [i \in 1 .. n - r |-> r + i]
<1>1. r \in Nat /\ n - r \in Nat
  OBVIOUS
<1>2. ASSUME NEW k \in Nat PROVE P(k) \in Seq(Nat) /\ Len(P(k)) = k /\ \A i \in 1 .. k : P(k)[i] = i
  <2>1. \A i \in 1 .. k : i \in Nat
    OBVIOUS
  <2> QED
    BY <2>1 DEF Profile!Profiles
<1>3. rest \in Seq(Nat) /\ Len(rest) = n - r /\ \A i \in 1 .. n - r : rest[i] = r + i
  <2>1. \A i \in 1 .. n - r : r + i \in Nat
    BY <1>1
  <2> QED
    BY <1>1, <2>1
<1> HIDE DEF P, rest
<1> DEFINE q == P(r) \o rest
<1>4. /\ q \in Seq(Nat) /\ Len(q) = r + (n - r)
      /\ \A i \in 1 .. r + (n - r) : q[i] = IF i <= r THEN P(r)[i] ELSE rest[i - r]
  <2>1. P(r) \in Seq(Nat) /\ Len(P(r)) = r
    BY <1>1, <1>2
  <2>2. /\ q \in Seq(Nat) /\ Len(q) = Len(P(r)) + Len(rest)
        /\ \A i \in 1 .. Len(P(r)) + Len(rest) :
             q[i] = IF i <= Len(P(r)) THEN P(r)[i] ELSE rest[i - Len(P(r))]
    BY <1>3, <2>1, ConcatProperties
  <2> QED
    BY <1>3, <2>1, <2>2
<1> HIDE DEF q
<1>5. \A i \in 1 .. n : q[i] = i
  <2>1. ASSUME NEW i \in 1 .. n PROVE q[i] = i
    <3>1. CASE i <= r
      <4>1. i \in 1 .. r /\ i \in 1 .. r + (n - r)
        BY <1>1, <3>1
      <4>2. P(r)[i] = i
        BY <1>1, <1>2, <4>1
      <4> QED
        BY <1>4, <3>1, <4>1, <4>2
    <3>2. CASE i > r
      <4>1. i - r \in 1 .. n - r
        BY <1>1, <3>2
      <4> QED
        BY <1>1, <1>3, <1>4, <3>2, <4>1
    <3> QED
      BY <1>1, <3>1, <3>2
  <2> QED
    BY <2>1
<1>6. P(n) = q
  <2>1. P(n) \in Seq(Nat) /\ q \in Seq(Nat) /\ Len(P(n)) = n /\ Len(q) = n
    BY <1>1, <1>2, <1>4
  <2>2. \A i \in 1 .. n : P(n)[i] = q[i]
    BY <1>2, <1>5
  <2> QED
    BY <2>1, <2>2, SeqEqual
<1>7. s \o P(n) = (s \o P(r)) \o rest
  <2>1. P(r) \in Seq(Nat) /\ rest \in Seq(Nat)
    BY <1>1, <1>2, <1>3
  <2> DEFINE p == P(r)
  <2>2. p \in Seq(Nat)
    BY <2>1
  <2> HIDE DEF p
  <2>3. s \o (p \o rest) = (s \o p) \o rest
    <3>1. PICK S : s \in Seq(S) /\ p \in Seq(S) /\ rest \in Seq(S)
      BY <2>1, <2>2
    <3> QED
      BY <3>1, ConcatAssociative
  <2> QED
    BY <1>6, <2>3 DEF q, p
<1>8. s \o P(r) \in Seq(Nat)
  BY <1>1, <1>2, ConcatProperties
<1>9. Profile!IsPrefix(s \o P(r), (s \o P(r)) \o rest)
  BY <1>3, <1>8, Prefix
<1> QED
  BY <1>1, <1>2, <1>7, <1>8, <1>9 DEF P

\* A connection begins with nothing sent.
LEMMA ProfileBegins == Profile!Init => ProfileInv
<1> SUFFICES ASSUME Profile!Init PROVE ProfileInv
  OBVIOUS
<1>1. /\ chunked \in BOOLEAN /\ torn = FALSE /\ sent = <<>> /\ wire = <<>> /\ received = <<>>
      /\ profiles = <<>> /\ listed = <<>>
  BY DEF Profile!Init
<1>2. \A S : <<>> \in Seq(S)
  BY EmptySeq
<1>3. Len(<<>>) = 0 /\ DOMAIN <<>> = {}
  OBVIOUS
<1>4. Profile!IsPrefix(<<>>, <<>>)
  BY <1>2, Prefix
<1>5. Arrived
  BY <1>1, <1>2, <1>4 DEF Arrived
<1>6. torn \in BOOLEAN
  BY <1>1, Zenon
<1> QED
  BY <1>1, <1>2, <1>3, <1>5, <1>6 DEF ProfileInv

\* What is sent comes after all that is on its way.
LEMMA SendKeeps ==
  ASSUME ProfileInv, NEW m \in Profile!Messages, Profile!Send(m)
  PROVE  ProfileInv'
<1>1. /\ ~torn /\ sent' = Append(sent, m)
      /\ wire' = Append(wire, Profile!Chunk(Profile!Encode(m)))
      /\ UNCHANGED <<chunked, received, profiles, listed, torn>>
  BY DEF Profile!Send
<1>2. PICK S : received \in Seq(S)
  BY DEF ProfileInv
<1>3. sent \in Seq(Profile!Messages) /\ wire \in Seq(Chunks)
      /\ Len(sent) \in Nat /\ Len(wire) \in Nat /\ Len(received) \in Nat
      /\ DOMAIN received = 1 .. Len(received) /\ DOMAIN wire = 1 .. Len(wire)
  BY <1>2, LenProperties DEF ProfileInv
<1>4. /\ Profile!Chunk(Profile!Encode(m)) \in Chunks
      /\ OnItsWay(Profile!Chunk(Profile!Encode(m)), m, FALSE)
  <2> DEFINE whole == Profile!Encode(m)
  <2>1. Len(whole) \in Nat /\ Len(whole) \in 0 .. Len(whole)
    BY Encoded
  <2>2. /\ Profile!Chunk(whole) = [length |-> Len(whole) % Wrap,
                                   data |-> SubSeq(whole, 1, Len(whole))]
        /\ [length |-> Len(whole) % Wrap, data |-> SubSeq(whole, 1, Len(whole))] \in Chunks
    BY <2>1, ChunkShape
  <2> QED
    BY <2>1, <2>2 DEF OnItsWay
<1>5. /\ sent' \in Seq(Profile!Messages) /\ Len(sent') = Len(sent) + 1
      /\ \A k \in 1 .. Len(sent) : sent'[k] = sent[k]
      /\ sent'[Len(sent) + 1] = m
  BY <1>1, <1>3, AppendProperties
<1>6. /\ wire' \in Seq(Chunks) /\ Len(wire') = Len(wire) + 1
      /\ \A k \in 1 .. Len(wire) : wire'[k] = wire[k]
      /\ wire'[Len(wire) + 1] = Profile!Chunk(Profile!Encode(m))
      /\ DOMAIN wire' = 1 .. Len(wire')
  BY <1>1, <1>3, <1>4, AppendProperties, LenProperties
<1>7. Len(received) + Len(wire) = Len(sent)
  BY <1>1 DEF ProfileInv
<1>8. ASSUME NEW k \in DOMAIN wire'
      PROVE  OnItsWay(wire'[k], sent'[Len(received') + k],
                      torn' /\ Len(received') + k = Len(sent'))
  <2>1. received' = received /\ k \in 1 .. Len(wire) + 1
    BY <1>1, <1>6, <1>8
  <2>2. CASE k = Len(wire) + 1
    <3>1. Len(received') + k = Len(sent) + 1
      BY <1>3, <1>7, <2>1, <2>2
    <3> QED
      <4> DEFINE c == wire'[k]
                 d == sent'[Len(received') + k]
      <4>1. c = Profile!Chunk(Profile!Encode(m)) /\ d = m
        BY <1>5, <1>6, <2>2, <3>1
      <4> HIDE DEF c, d
      <4>2. OnItsWay(c, d, FALSE)
        BY <1>4, <4>1
      <4> QED
        BY <4>2 DEF OnItsWay, c, d
  <2>3. CASE k # Len(wire) + 1
    <3>1. k \in DOMAIN wire /\ k \in 1 .. Len(wire) /\ Len(received) + k \in 1 .. Len(sent)
      BY <1>3, <1>7, <2>1, <2>3
    <3>2. OnItsWay(wire[k], sent[Len(received) + k], torn /\ Len(received) + k = Len(sent))
      BY <3>1 DEF ProfileInv
    <3> QED
      BY <1>1, <1>5, <1>6, <2>1, <3>1, <3>2 DEF OnItsWay
  <2> QED
    BY <2>2, <2>3
<1>9. ASSUME NEW k \in DOMAIN received PROVE sent'[k] = sent[k]
  <2>1. k \in 1 .. Len(sent)
    BY <1>3, <1>7, <1>9
  <2> QED
    BY <1>5, <2>1
<1>10. Fits' => Fits
  BY <1>1, <1>9 DEF Fits, Profile!TooLarge
<1>11. Fits => Arrived'
  <2> SUFFICES ASSUME Fits PROVE Arrived'
    OBVIOUS
  <2>1. Arrived
    BY DEF ProfileInv
  <2> QED
    BY <1>1, <1>9, <2>1 DEF Arrived
<1>12. Len(received') + Len(wire') = Len(sent') /\ Len(received') + Len(wire') <= Len(sent')
  <2>1. Len(received') = Len(received)
    BY <1>1
  <2>2. Len(wire') = Len(wire) + 1 /\ Len(sent') = Len(sent) + 1
    BY <1>5, <1>6
  <2> QED
    BY <1>3, <1>7, <2>1, <2>2
<1>13. received' \in Seq(S) /\ chunked' \in BOOLEAN /\ torn' \in BOOLEAN
  BY <1>1, <1>2, Zenon DEF ProfileInv
<1>14. ASSUME NEW k \in DOMAIN received'
       PROVE  Answered(received[k], sent[k], Profile!TooLarge(sent[k]) \/ (torn /\ k = Len(sent)))'
  <2>1. k \in DOMAIN received /\ received'[k] = received[k] /\ sent'[k] = sent[k]
    BY <1>1, <1>9, <1>14
  <2>2. Answered(received[k], sent[k], Profile!TooLarge(sent[k]))
    BY <1>1, <2>1 DEF ProfileInv, Answered
  <2> QED
    BY <1>1, <2>1, <2>2 DEF Answered, Profile!TooLarge
<1> QED
  BY <1>5, <1>6, <1>8, <1>10, <1>11, <1>12, <1>13, <1>14 DEF ProfileInv

\* A cut leaves less of the last message, and nothing can follow it.
LEMMA BreakKeeps ==
  ASSUME ProfileInv, Profile!Break
  PROVE  ProfileInv'
<1> DEFINE n == Len(wire)
           m == sent[Len(sent)]
           whole == Profile!Encode(m)
<1>1. /\ ~torn /\ wire # <<>> /\ torn' = TRUE
      /\ UNCHANGED <<chunked, sent, received, profiles, listed>>
  BY DEF Profile!Break
<1>2. PICK S : received \in Seq(S)
  BY DEF ProfileInv
<1>3. sent \in Seq(Profile!Messages) /\ wire \in Seq(Chunks)
      /\ Len(sent) \in Nat /\ n \in Nat \ {0} /\ Len(received) \in Nat
      /\ DOMAIN received = 1 .. Len(received) /\ DOMAIN wire = 1 .. n
  BY <1>1, <1>2, LenProperties, EmptySeq DEF ProfileInv
<1>4. Len(received) + n = Len(sent)
  BY <1>1 DEF ProfileInv
<1>5. m \in Profile!Messages
  <2>1. Len(sent) \in 1 .. Len(sent)
    BY <1>3, <1>4
  <2> QED
    BY <1>3, <2>1, ElementOfSeq
<1>6. wire[n] = [length |-> Len(whole) % Wrap, data |-> SubSeq(whole, 1, Len(whole))]
  <2>1. n \in DOMAIN wire
    BY <1>3
  <2>2. OnItsWay(wire[n], sent[Len(received) + n], torn /\ Len(received) + n = Len(sent))
    BY <2>1 DEF ProfileInv
  <2> QED
    BY <1>1, <1>4, <2>2 DEF OnItsWay
<1>7. whole \in Seq(Tokens) /\ Len(whole) \in Nat \ {0} /\ SubSeq(whole, 1, Len(whole)) = whole
  BY <1>5, Encoded, SubSeqFull
<1> HIDE DEF whole
<1>8. PICK kept \in 0 .. Len(whole) - 1 :
        wire' = [wire EXCEPT ![n] = [length |-> Len(whole) % Wrap, data |-> SubSeq(whole, 1, kept)]]
  <2>1. PICK kept \in 0 .. Len(wire[n].data) - 1 :
          wire' = [wire EXCEPT ![n] = Profile!Cut(wire[n], kept)]
    BY <1>3 DEF Profile!Break, Profile!Last
  <2>2. wire[n].data = whole /\ wire[n].length = Len(whole) % Wrap
    BY <1>6, <1>7
  <2>3. Profile!Cut(wire[n], kept) = [length |-> Len(whole) % Wrap, data |-> SubSeq(whole, 1, kept)]
    BY <2>2 DEF Profile!Cut
  <2> QED
    BY <2>1, <2>2, <2>3
<1> DEFINE chunk == [length |-> Len(whole) % Wrap, data |-> SubSeq(whole, 1, kept)]
<1>9. chunk \in Chunks /\ kept \in 0 .. Len(whole)
  <2>1. kept \in 0 .. Len(whole)
    BY <1>7
  <2> QED
    BY <1>5, <2>1, ChunkShape DEF whole
<1>10. wire' = [wire EXCEPT ![n] = chunk] /\ OnItsWay(chunk, m, TRUE)
  BY <1>8, <1>9 DEF OnItsWay, whole
<1> HIDE DEF n, m, chunk
<1>11. /\ wire' \in Seq(Chunks) /\ Len(wire') = n
       /\ \A k \in 1 .. n : wire'[k] = IF k = n THEN chunk ELSE wire[k]
       /\ DOMAIN wire' = 1 .. n
  <2>1. n \in 1 .. Len(wire)
    BY <1>3 DEF n
  <2>2. wire' \in Seq(Chunks) /\ Len(wire') = Len(wire)
        /\ \A k \in 1 .. Len(wire) : wire'[k] = IF k = n THEN chunk ELSE wire[k]
    BY <1>3, <1>9, <1>10, <2>1, ExceptSeq
  <2> QED
    BY <2>2, LenProperties DEF n
<1>12. ASSUME NEW k \in DOMAIN wire'
       PROVE  OnItsWay(wire'[k], sent'[Len(received') + k],
                       torn' /\ Len(received') + k = Len(sent'))
  <2>1. received' = received /\ sent' = sent /\ k \in 1 .. n
    BY <1>1, <1>11, <1>12
  <2>2. CASE k = n
    <3>1. Len(received') + k = Len(sent') /\ wire'[k] = chunk
      BY <1>4, <1>11, <2>1, <2>2 DEF n
    <3>2. OnItsWay(wire'[k], sent'[Len(sent')], TRUE)
      BY <1>10, <2>1, <3>1 DEF m
    <3> QED
      BY <1>1, <3>1, <3>2 DEF OnItsWay
  <2>3. CASE k # n
    <3>1. OnItsWay(wire[k], sent[Len(received) + k], torn /\ Len(received) + k = Len(sent))
      BY <1>3, <2>1 DEF ProfileInv, n
    <3> QED
      BY <1>1, <1>11, <2>1, <2>3, <3>1 DEF OnItsWay
  <2> QED
    BY <2>2, <2>3
<1>13. Fits' => Fits
  BY <1>1 DEF Fits, Profile!TooLarge
<1>14. Fits => Arrived'
  <2> SUFFICES ASSUME Fits PROVE Arrived'
    OBVIOUS
  <2>1. Arrived /\ (wire # <<>> => profiles = listed)
    BY DEF ProfileInv, Arrived
  <2> QED
    BY <1>1, <2>1 DEF Arrived
<1>15. received' \in Seq(S) /\ chunked' \in BOOLEAN /\ torn' \in BOOLEAN
       /\ sent' \in Seq(Profile!Messages)
  BY <1>1, <1>2, <1>3, Zenon DEF ProfileInv
<1>16. Len(received') + Len(wire') <= Len(sent') /\ Len(received') + Len(wire') = Len(sent')
  <2>1. Len(received') = Len(received) /\ Len(sent') = Len(sent)
    BY <1>1, Zenon
  <2>2. Len(wire') = n
    BY <1>11
  <2> QED
    BY <1>3, <1>4, <2>1, <2>2 DEF n
<1>17. ASSUME NEW k \in DOMAIN received'
       PROVE  Answered(received[k], sent[k], Profile!TooLarge(sent[k]) \/ (torn /\ k = Len(sent)))'
  <2>1. Answered(received[k], sent[k], Profile!TooLarge(sent[k]))
    BY <1>1, <1>17 DEF ProfileInv, Answered
  <2> QED
    BY <1>1, <2>1 DEF Answered, Profile!TooLarge
<1> QED
  BY <1>11, <1>12, <1>13, <1>14, <1>15, <1>16, <1>17 DEF ProfileInv

\* A beginning of a beginning is one.
LEMMA Beginning ==
  ASSUME NEW s \in Seq(Tokens), NEW j \in 0 .. Len(s), NEW i \in 0 .. j
  PROVE  SubSeq(SubSeq(s, 1, j), 1, i) = SubSeq(s, 1, i)
<1>1. Len(s) \in Nat /\ j \in Nat /\ i \in Nat /\ i <= j /\ j <= Len(s)
  BY LenProperties
<1>2. \A k \in 1 .. j : s[k] \in Tokens
  BY <1>1
<1>3. SubSeq(s, 1, j) \in Seq(Tokens)
  BY <1>1, <1>2, SubSeqProperties
<1>4. CASE i = 0
  BY <1>3, <1>4, SubSeqEmpty
<1>5. CASE i > 0
  <2>1. 1 \in 1 .. Len(s) /\ j \in 1 .. Len(s) /\ 1 \in 1 .. j - 1 + 1 /\ i \in 1 .. j - 1 + 1
    BY <1>1, <1>5
  <2>2. SubSeq(SubSeq(s, 1, j), 1, i) = SubSeq(s, 1 + 1 - 1, 1 + i - 1)
    BY <2>1, SubSeqOfSubSeq
  <2>3. 1 + 1 - 1 = 1 /\ 1 + i - 1 = i
    BY <1>1
  <2> QED
    BY <2>2, <2>3
<1> QED
  BY <1>1, <1>4, <1>5

\* What the reader takes of the next chunk: a message that is not too large, all of it, or
\* what was left of the last one.
LEMMA HeadArrives ==
  ASSUME ProfileInv, wire # <<>>
  PROVE  LET m     == sent[Len(received) + 1]
             chunk == Head(wire)
             size  == IF chunked /\ chunk.length < Len(chunk.data) THEN chunk.length
                      ELSE Len(chunk.data)
             data  == SubSeq(chunk.data, 1, size)
             last  == torn /\ Len(received) + 1 = Len(sent)
         IN  /\ m \in Profile!Messages
             /\ data # <<>> => (data[1] = "list" <=> m.kind = "list")
             /\ Answered(Profile!Decode(data), m, Profile!TooLarge(m) \/ last)
             /\ ~Profile!TooLarge(m) =>
                  /\ size = Len(chunk.data)
                  /\ data # <<>> \/ last
                  /\ m.kind = "list" =>
                       \E r \in 0 .. m.size : /\ Profile!ListOf(data) = Profile!Profiles(r)
                                              /\ r = m.size \/ last
<1> DEFINE m    == sent[Len(received) + 1]
           whole == Profile!Encode(m)
           w    == wire[1]
           size == IF chunked /\ w.length < Len(w.data) THEN w.length ELSE Len(w.data)
           data == SubSeq(w.data, 1, size)
           last == torn /\ Len(received) + 1 = Len(sent)
<1>1. PICK S : received \in Seq(S)
  BY DEF ProfileInv
<1>2. /\ wire \in Seq(Chunks) /\ Len(wire) \in Nat \ {0} /\ Len(received) \in Nat
      /\ DOMAIN wire = 1 .. Len(wire) /\ sent \in Seq(Profile!Messages) /\ Len(sent) \in Nat
      /\ Len(received) + Len(wire) <= Len(sent) /\ chunked \in BOOLEAN
  BY <1>1, LenProperties, EmptySeq DEF ProfileInv
<1>3. Head(wire) = w
  BY <1>2
<1>4. m \in Profile!Messages
  <2>1. Len(received) + 1 \in 1 .. Len(sent)
    BY <1>2
  <2> QED
    BY <1>2, <2>1, ElementOfSeq
<1>5. OnItsWay(w, m, last)
  <2>1. 1 \in DOMAIN wire
    BY <1>2
  <2> QED
    BY <2>1 DEF ProfileInv
<1> HIDE DEF m, w, last
<1>6. PICK j \in 0 .. Len(whole) :
        /\ w = [length |-> Len(whole) % Wrap, data |-> SubSeq(whole, 1, j)]
        /\ j = Len(whole) \/ last
  BY <1>5 DEF OnItsWay
<1>7. whole \in Seq(Tokens) /\ Len(whole) \in Nat \ {0} /\ Len(whole) % Wrap \in Nat
      /\ (Len(whole) < Wrap => Len(whole) % Wrap = Len(whole))
  BY <1>4, <1>6, Encoded, ChunkShape
<1>8. w.data = SubSeq(whole, 1, j) /\ Len(w.data) = j /\ w.length = Len(whole) % Wrap
  BY <1>4, <1>6, Taken
<1>9. Profile!TooLarge(m) <=> \/ m.kind = "list" /\ m.size >= Wrap
                              \/ chunked /\ Len(whole) >= Wrap
  BY DEF Profile!TooLarge
<1>10. m.kind = "list" => m.size \in Nat
  BY <1>4, PartsAssumption DEF Profile!Messages, Profile!Contents
<1> HIDE DEF whole
<1>11. /\ size \in 0 .. j /\ size \in 0 .. Len(whole)
       /\ ~Profile!TooLarge(m) => size = j
  BY <1>7, <1>8, <1>9, PartsAssumption
<1>12. data = SubSeq(whole, 1, size)
  BY <1>7, <1>8, <1>11, Beginning
<1> HIDE DEF size
<1>13. /\ data # <<>> => data[1] = m.kind
       /\ size = Len(whole) => data # <<>>
       /\ Profile!Decode(data) \in {Profile!Says(m), Profile!Failure}
       /\ size = Len(whole) /\ (m.kind = "list" => m.size < Wrap)
            => Profile!Decode(data) = Profile!Says(m)
       /\ m.kind = "list" /\ m.size < Wrap =>
            \E r \in 0 .. m.size : /\ Profile!ListOf(data) = Profile!Profiles(r)
                                   /\ size = Len(whole) => r = m.size
  BY <1>4, <1>11, <1>12, Taken DEF whole
<1> HIDE DEF data
<1>14. ~Profile!TooLarge(m) => /\ m.kind = "list" => m.size < Wrap
                               /\ size = Len(whole) \/ last
  <2>1. ~Profile!TooLarge(m) /\ m.kind = "list" => m.size < Wrap
    BY <1>9, <1>10, PartsAssumption
  <2> QED
    BY <1>6, <1>11, <2>1
<1>15. Answered(Profile!Decode(data), m, Profile!TooLarge(m) \/ last)
  BY <1>13, <1>14 DEF Answered
<1>16. ASSUME ~Profile!TooLarge(m)
       PROVE  /\ size = Len(w.data)
              /\ data # <<>> \/ last
              /\ m.kind = "list" =>
                   \E r \in 0 .. m.size : /\ Profile!ListOf(data) = Profile!Profiles(r)
                                          /\ r = m.size \/ last
  BY <1>8, <1>11, <1>13, <1>14, <1>16
<1> QED
  BY <1>3, <1>4, <1>13, <1>15, <1>16 DEF size, data, w, m, last

\* The next chunk is decoded to its message, or its message was too large, or cut.
LEMMA ReceiveKeeps ==
  ASSUME ProfileInv, Profile!Receive
  PROVE  ProfileInv'
<1> DEFINE n    == Len(received)
           m    == sent[n + 1]
           chunk == Head(wire)
           size == IF chunked /\ chunk.length < Len(chunk.data) THEN chunk.length
                   ELSE Len(chunk.data)
           data == SubSeq(chunk.data, 1, size)
           list == data # <<>> /\ data[1] = "list"
           all  == size = Len(chunk.data)
           read == Profile!Decode(data)
           last == torn /\ n + 1 = Len(sent)
<1>1. /\ wire # <<>> /\ received' = Append(received, read)
      /\ profiles' = IF list THEN profiles \o Profile!ListOf(data) ELSE profiles
      /\ listed' = IF list THEN listed \o Profile!Profiles(m.size) ELSE listed
      /\ torn' = (torn \/ ~all)
      /\ wire' = IF ~all THEN <<>> ELSE Tail(wire)
      /\ UNCHANGED <<chunked, sent>>
  BY DEF Profile!Receive
<1>2. /\ m \in Profile!Messages
      /\ data # <<>> => (data[1] = "list" <=> m.kind = "list")
      /\ Answered(read, m, Profile!TooLarge(m) \/ last)
      /\ ~Profile!TooLarge(m) =>
           /\ all
           /\ data # <<>> \/ last
           /\ m.kind = "list" =>
                \E r \in 0 .. m.size : /\ Profile!ListOf(data) = Profile!Profiles(r)
                                       /\ r = m.size \/ last
  BY <1>1, HeadArrives
<1> HIDE DEF chunk, size, data, all, read
<1>3. PICK S : received \in Seq(S)
  BY DEF ProfileInv
<1>4. /\ sent \in Seq(Profile!Messages) /\ wire \in Seq(Chunks)
      /\ Len(sent) \in Nat /\ Len(wire) \in Nat \ {0} /\ n \in Nat
      /\ DOMAIN received = 1 .. n /\ DOMAIN wire = 1 .. Len(wire)
  BY <1>1, <1>3, LenProperties, EmptySeq DEF ProfileInv
<1>5. n + Len(wire) = Len(sent)
  BY <1>1 DEF ProfileInv
<1>6. /\ received' \in Seq(S \cup {read}) /\ Len(received') = n + 1
      /\ \A k \in 1 .. n : received'[k] = received[k]
      /\ received'[n + 1] = read
      /\ DOMAIN received' = 1 .. n + 1
  <2>1. received \in Seq(S \cup {read}) /\ read \in S \cup {read}
    BY <1>3, SeqMonotonic
  <2>2. /\ received' \in Seq(S \cup {read}) /\ Len(received') = n + 1
        /\ \A k \in 1 .. n : received'[k] = received[k]
        /\ received'[n + 1] = read
    BY <1>1, <2>1, AppendProperties
  <2>3. DOMAIN received' = 1 .. Len(received')
    BY <2>2, LenProperties
  <2> QED
    BY <2>2, <2>3
<1>7. /\ Tail(wire) \in Seq(Chunks) /\ Len(Tail(wire)) = Len(wire) - 1
      /\ \A k \in 1 .. Len(Tail(wire)) : Tail(wire)[k] = wire[k + 1]
      /\ DOMAIN Tail(wire) = 1 .. Len(Tail(wire))
  <2>1. /\ Tail(wire) \in Seq(Chunks) /\ Len(Tail(wire)) = Len(wire) - 1
        /\ \A k \in 1 .. Len(Tail(wire)) : Tail(wire)[k] = wire[k + 1]
    BY <1>1, <1>4, HeadTailProperties
  <2> QED
    BY <2>1, LenProperties
<1> HIDE DEF n, m, list, last
<1>8. torn' \in BOOLEAN /\ chunked' \in BOOLEAN /\ sent' = sent /\ chunked' = chunked
  BY <1>1, Zenon DEF ProfileInv
<1>9. n + 1 \in DOMAIN received' /\ Len(sent') = Len(sent)
  BY <1>4, <1>6, <1>8
<1>10. ASSUME NEW k \in DOMAIN received'
       PROVE  Answered(received[k], sent[k], Profile!TooLarge(sent[k]) \/ (torn /\ k = Len(sent)))'
  <2>1. torn => torn'
    BY <1>1
  <2>2. CASE k = n + 1
    <3>1. received'[k] = read /\ sent'[k] = m /\ (last => torn' /\ k = Len(sent'))
      BY <1>6, <1>8, <2>1, <2>2 DEF m, last
    <3>2. Profile!TooLarge(m) => Profile!TooLarge(sent[k])'
      BY <1>8, <3>1 DEF Profile!TooLarge
    <3> QED
      BY <1>2, <3>1, <3>2 DEF Answered
  <2>3. CASE k # n + 1
    <3>1. k \in DOMAIN received /\ received'[k] = received[k]
      BY <1>4, <1>6, <1>10, <2>3
    <3>2. Answered(received[k], sent[k], Profile!TooLarge(sent[k]) \/ (torn /\ k = Len(sent)))
      BY <3>1 DEF ProfileInv
    <3> QED
      BY <1>8, <2>1, <3>1, <3>2 DEF Answered, Profile!TooLarge
  <2> QED
    BY <2>2, <2>3
<1>11. CASE ~all
  <2>1. wire' = <<>> /\ torn'
    BY <1>1, <1>11
  <2>2. Len(wire') = 0 /\ DOMAIN wire' = {} /\ wire' \in Seq(Chunks)
    BY <2>1, EmptySeq
  <2>3. Len(received') + Len(wire') <= Len(sent')
    BY <1>4, <1>5, <1>6, <1>9, <2>2
  <2>4. ~Fits'
    <3>1. Profile!TooLarge(m)
      BY <1>2, <1>11
    <3> QED
      BY <1>8, <1>9, <3>1 DEF Fits, Profile!TooLarge, m
  <2> QED
    BY <1>4, <1>6, <1>8, <1>10, <2>1, <2>2, <2>3, <2>4 DEF ProfileInv
<1>12. CASE all
  <2>1. wire' = Tail(wire) /\ torn' = torn
    BY <1>1, <1>8, <1>12, Zenon DEF ProfileInv
  <2>2. Len(wire') = Len(wire) - 1 /\ DOMAIN wire' = 1 .. Len(wire) - 1
    BY <1>7, <2>1
  <2>3. Len(received') + Len(wire') = Len(sent') /\ Len(received') + Len(wire') <= Len(sent')
    BY <1>4, <1>5, <1>6, <1>9, <2>2
  <2>4. ASSUME NEW k \in DOMAIN wire'
        PROVE  OnItsWay(wire'[k], sent'[Len(received') + k],
                        torn' /\ Len(received') + k = Len(sent'))
    <3>1. k \in 1 .. Len(wire) - 1 /\ k + 1 \in DOMAIN wire
      BY <1>4, <2>2, <2>4
    <3>2. OnItsWay(wire[k + 1], sent[n + (k + 1)], torn /\ n + (k + 1) = Len(sent))
      BY <3>1 DEF ProfileInv, n
    <3>3. wire'[k] = wire[k + 1]
      BY <1>7, <2>1, <2>2, <3>1
    <3>4. Len(received') + k = n + (k + 1)
      BY <1>4, <1>6, <3>1
    <3> QED
      BY <1>8, <2>1, <3>2, <3>3, <3>4 DEF OnItsWay
  <2>5. ASSUME Fits' PROVE Arrived'
    <3>1. ~Profile!TooLarge(m)
      BY <1>8, <1>9, <2>5 DEF Fits, Profile!TooLarge, m
    <3>2. Fits
      BY <1>4, <1>6, <1>8, <2>5 DEF Fits, Profile!TooLarge
    <3>3. profiles \in Seq(Nat) /\ listed = profiles
      BY <1>1, <3>2 DEF ProfileInv, Arrived
    <3>4. last => wire' = <<>> /\ torn'
      <4>1. last => Len(wire') = 0
        BY <1>4, <1>5, <2>2 DEF last
      <4> QED
        BY <1>7, <2>1, <4>1, EmptySeq DEF last
    <3>5. CASE ~list
      <4>1. profiles' = profiles /\ listed' = profiles
        BY <1>1, <3>3, <3>5
      <4> QED
        BY <3>3, <4>1, Prefix, EmptySeq DEF Arrived
    <3>6. CASE list
      <4>1. m.kind = "list"
        BY <1>2, <3>6 DEF list
      <4>2. m.size \in Nat
        BY <1>2, <4>1, Encoded, PartsAssumption DEF Profile!Messages, Profile!Contents
      <4>3. PICK r \in 0 .. m.size : /\ Profile!ListOf(data) = Profile!Profiles(r)
                                     /\ r = m.size \/ last
        BY <1>2, <3>1, <4>1
      <4>4. m.size \in 0 .. m.size
        BY <4>2
      <4>5. /\ profiles' = profiles \o Profile!Profiles(r)
            /\ listed' = profiles \o Profile!Profiles(m.size)
        BY <1>1, <3>3, <3>6, <4>3
      <4>6. /\ profiles' \in Seq(Nat) /\ listed' \in Seq(Nat)
            /\ Profile!IsPrefix(profiles', listed')
        BY <3>3, <4>2, <4>4, <4>5, PartOfList
      <4>7. wire' # <<>> \/ ~torn' => profiles' = listed'
        BY <3>4, <4>3, <4>5
      <4> QED
        BY <4>6, <4>7 DEF Arrived
    <3> QED
      BY <3>5, <3>6
  <2>6. wire' \in Seq(Chunks)
    BY <1>7, <2>1
  <2> QED
    BY <1>4, <1>6, <1>8, <1>10, <2>3, <2>4, <2>5, <2>6 DEF ProfileInv
<1> QED
  BY <1>11, <1>12

\* Whatever is sent, received or cut, the connection keeps the invariant.
LEMMA ProfileKept == ProfileInv /\ [Profile!Next]_Profile!vars => ProfileInv'
<1> SUFFICES ASSUME ProfileInv, [Profile!Next]_Profile!vars PROVE ProfileInv'
  OBVIOUS
<1>1. CASE UNCHANGED Profile!vars
  <2>1. UNCHANGED <<chunked, sent, wire, received, profiles, listed, torn>>
    BY <1>1 DEF Profile!vars
  <2> QED
    BY <2>1 DEF ProfileInv, Answered, Fits, Arrived, Profile!TooLarge
<1> QED
  BY <1>1, SendKeeps, BreakKeeps, ReceiveKeeps DEF Profile!Next

-----------------------------------------------------------------------------
(* Theorems about the parts                                                  *)

\* Whatever the app, two reads of it agree on its core, unless a library of it has modules of
\* several cores, for which the order of a map decides.
THEOREM VpnSafe == MCSpec => []VpnTypeStable
<1>1. MCInit => VpnInv
  BY VpnBegins DEF MCInit
<1>2. VpnInv /\ [MCNext]_MCvars => VpnInv'
  BY VpnKept, OwnSteps
<1>3. VpnInv => VpnTypeStable
  BY OneAnswer DEF VpnInv, VpnTypeStable, Vpn!VpnTypeStable
<1> QED
  BY <1>1, <1>2, <1>3, PTL DEF MCSpec

\* Whatever the number of callers, of parts of a body and of calls, and wherever the connection
\* is cut, a transfer that returns a success has the whole body, unless the callers mixed
\* GetContent and WriteTo.
THEOREM HttpSafe == MCSpec => []NoSilentLoss
<1>1. MCInit => HttpInv
  BY HttpBegins DEF MCInit
<1>2. HttpInv /\ [MCNext]_MCvars => HttpInv'
  BY HttpKept, OwnSteps
<1>3. HttpInv => NoSilentLoss
  BY DEF HttpInv, Whole, NoSilentLoss, Http!NoSilentLoss
<1> QED
  BY <1>1, <1>2, <1>3, PTL DEF MCSpec

\* Whatever the number of mirrors, checks and editions, each version that the cache of the
\* F-Droid checks silences was told to the app or is about to be, unless a death took it with
\* its answer, or its jar had no index (unheard).  The bounds of the run on which check and
\* which mirror move are not needed (FdroidKept).
THEOREM ChecksSafe == MCSpec => []NothingWithheld
<1>1. MCInit => FdroidInv
  BY FdroidBegins DEF MCInit
<1>2. FdroidInv /\ [MCNext]_MCvars => FdroidInv'
  BY FdroidKept, OwnSteps
<1>3. FP!CacheInv => FP!NothingWithheld
  BY DEF FP!CacheInv, FP!NothingWithheld, FP!Told
<1>4. FdroidInv => NothingWithheld
  BY <1>3, SamePromise DEF FdroidInv, NothingWithheld
<1> QED
  BY <1>1, <1>2, <1>4, PTL DEF MCSpec

\* However many messages are sent, with lists of any numbers of profiles and configurations of
\* any size, whole or in chunks, and wherever the connection breaks: each arrives as it was sent
\* and in its place, or it fails, and then it was cut or too large for 16 bits; the profiles
\* of all lists arrive, of a list that was cut the first ones, while nothing that was received
\* is too large.
THEOREM MessagesArrive == MCSpec => []RoundTrip
<1>1. MCInit => ProfileInv
  BY ProfileBegins DEF MCInit
<1>2. ProfileInv /\ [MCNext]_MCvars => ProfileInv'
  BY ProfileKept, OwnSteps
<1>3. ProfileInv => RoundTrip
  <2> SUFFICES ASSUME ProfileInv PROVE Profile!RoundTrip
    BY DEF RoundTrip
  <2>1. \A k \in DOMAIN received :
          \/ received[k] = Profile!Says(sent[k])
          \/ received[k] = Profile!Failure
             /\ (Profile!TooLarge(sent[k]) \/ (torn /\ k = Len(sent)))
    BY DEF ProfileInv, Answered
  <2>2. (\A k \in DOMAIN received : ~Profile!TooLarge(sent[k])) =>
          (~torn => profiles = listed) /\ Profile!IsPrefix(profiles, listed)
    BY DEF ProfileInv, Fits, Arrived
  <2> QED
    BY <2>1, <2>2 DEF Profile!RoundTrip
<1> QED
  BY <1>1, <1>2, <1>3, PTL DEF MCSpec

\* The state of the command server, of the checks, of a DNS query, of a transfer and of the
\* reader of apps keeps its types, the numbers that name listeners and answers included.
THEOREM PartsTyped == MCSpec => []LibboxTypes
<1> DEFINE Inv == /\ TypeOK /\ CountInv /\ FdroidInv
                  /\ Dns!TypeOK /\ HttpInv /\ VpnInv
<1>1. MCInit => Inv
  BY TypesBegin, FdroidBegins, DnsBegins, HttpBegins, VpnBegins DEF MCInit
<1>2. Inv /\ [MCNext]_MCvars => Inv'
  BY OwnSteps, TypesKept, CountKept, FdroidKept, DnsKept, HttpKept, VpnKept
<1>3. Inv => LibboxTypes
  BY SameTypes DEF LibboxTypes, FdroidInv, HttpInv, VpnInv
<1> QED
  BY <1>1, <1>2, <1>3, PTL DEF MCSpec
=============================================================================
