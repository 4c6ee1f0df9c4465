---------------------------- MODULE DnsExchange -----------------------------
(***************************************************************************)
(* A DNS query that libbox hands to the platform (dns.go): a goroutine     *)
(* makes the blocking call, the caller waits for its outcome or for the    *)
(* end of the context, and the platform may ask to be told of that end.    *)
(***************************************************************************)
EXTENDS Naturals

VARIABLES
  raw,         \* iif.Raw(): the platform takes whole messages
  question,    \* the type that is asked for
  context,     \* "live" or "done"
  caller,      \* Exchange: where it is
  returned,    \* and what it returned
  response,    \* the ExchangeContext: what the platform told it
  lookup,      \* the goroutine of the call
  outcome,     \* what the call came to
  done,        \* the channel: what it holds
  watcher      \* the goroutine of OnCancel

vars == <<raw, question, context, caller, returned, response, lookup, outcome, done, watcher>>

Nothing == "nothing"

TypeOK ==
  /\ raw \in BOOLEAN /\ question \in {"A", "AAAA", "other"}
  /\ context \in {"live", "done"}
  /\ caller \in {"begin", "select", "end"}
  /\ returned \in {Nothing, "answer", "error", "unsupported", "canceled"}
  /\ response \in [answer : BOOLEAN, error : BOOLEAN]
  /\ lookup \in {"none", "calling", "sending", "over"}
  /\ {outcome, done} \subseteq {Nothing, "answer", "error"}
  /\ watcher \in {"none", "waiting", "called"}

Init ==
  /\ raw \in BOOLEAN /\ question \in {"A", "AAAA", "other"}
  /\ context = "live" /\ caller = "begin" /\ returned = Nothing
  /\ response = [answer |-> FALSE, error |-> FALSE]
  /\ lookup = "none" /\ outcome = Nothing /\ done = Nothing /\ watcher = "none"

-----------------------------------------------------------------------------
Returns(result) == caller' = "end" /\ returned' = result

\* Exchange packs the message, or looks at the type of the question, and starts the
\* goroutine
Exchange ==
  /\ caller = "begin"
  /\ \/ ~raw /\ question = "other" /\ Returns("unsupported") /\ UNCHANGED lookup
     \/ raw /\ Returns("error") /\ UNCHANGED lookup     \* the message cannot be packed
     \/ /\ raw \/ question # "other"
        /\ lookup' = "calling" /\ caller' = "select" /\ UNCHANGED returned
  /\ UNCHANGED <<raw, question, context, response, outcome, done, watcher>>

\* select: the outcome, or the end of the context; either one if both are there
Take ==
  /\ caller = "select" /\ done # Nothing
  /\ Returns(done) /\ done' = Nothing
  /\ UNCHANGED <<raw, question, context, response, lookup, outcome, watcher>>

Cancel ==
  /\ caller = "select" /\ context = "done"
  /\ Returns("canceled")
  /\ UNCHANGED <<raw, question, context, response, lookup, outcome, done, watcher>>

\* The context ends: a timeout, or the caller has what it wanted
EndContext ==
  /\ context = "live" /\ context' = "done"
  /\ UNCHANGED <<raw, question, caller, returned, response, lookup, outcome, done, watcher>>

-----------------------------------------------------------------------------
(* The platform, within its call                                           *)

\* Success, RawSuccess (of a message that can be parsed, or not), ErrorCode, ErrnoCode
Tell(answer, error) ==
  /\ lookup = "calling"
  /\ response' = [answer |-> response.answer \/ answer, error |-> response.error \/ error]
  /\ UNCHANGED <<raw, question, context, caller, returned, lookup, outcome, done, watcher>>

OnCancel ==
  /\ lookup = "calling" /\ watcher = "none" /\ watcher' = "waiting"
  /\ UNCHANGED <<raw, question, context, caller, returned, response, lookup, outcome, done>>

\* The call returns, with an error of its own or with what the response has
CallReturns(failed) ==
  /\ lookup = "calling" /\ lookup' = "sending"
  /\ outcome' = IF failed \/ response.error THEN "error" ELSE "answer"
  /\ UNCHANGED <<raw, question, context, caller, returned, response, done, watcher>>

-----------------------------------------------------------------------------
(* The goroutines                                                          *)

BugRoom == caller = "select"   \* a channel without a buffer needs its receiver

\* done has a buffer of one
Room == done = Nothing

Send ==
  /\ lookup = "sending" /\ Room
  /\ done' = outcome /\ lookup' = "over"
  /\ UNCHANGED <<raw, question, context, caller, returned, response, outcome, watcher>>

Invoke ==
  /\ watcher = "waiting" /\ context = "done" /\ watcher' = "called"
  /\ UNCHANGED <<raw, question, context, caller, returned, response, lookup, outcome, done>>

Own == Exchange \/ Take \/ Cancel \/ Send \/ Invoke

Next ==
  \/ Own \/ EndContext \/ OnCancel
  \/ \E answer, error \in BOOLEAN : Tell(answer, error)
  \/ \E failed \in BOOLEAN : CallReturns(failed)

\* The goroutines run; the platform may never return, and the context may never end.
Fairness == WF_vars(Exchange) /\ WF_vars(Take \/ Cancel) /\ WF_vars(Send) /\ WF_vars(Invoke)

Spec == Init /\ [][Next]_vars /\ Fairness

-----------------------------------------------------------------------------
(* Properties                                                              *)

\* When the context ends the caller returns and the platform is told, whether or not its
\* call ever returns; and a call that returns, however late, ends its goroutine.
NothingLeftBehind ==
  /\ context = "done" ~> caller = "end" /\ watcher # "waiting"
  /\ lookup = "sending" ~> lookup = "over"
=============================================================================
