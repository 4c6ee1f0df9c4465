---------------------------- MODULE HttpTransfer ----------------------------
(***************************************************************************)
(* One request of libbox's HTTP client (http.go) and the callers that take *)
(* the body of its response: as a string, which is read once and kept, or  *)
(* into a file.  They share one body, a stream that is closed by whoever   *)
(* is through with it.                                                     *)
(***************************************************************************)
EXTENDS Naturals, FiniteSets

CONSTANTS
  Caller,
  Parts,       \* bound: the pieces in which the body arrives
  MaxCalls     \* bound

VARIABLES
  response,    \* "none", "ok", "bad" (a status other than 200) or "given" to the caller
  body,        \* pieces that were not read yet
  cut,         \* the connection ends before the body does
  closed,      \* Body.Close was called
  once,        \* getContentOnce: "new", "running" or "over"
  content,     \* pieces that GetContent has
  contentError,
  call,        \* [Caller -> what it does, and what it has got]
  calls,
  returned,    \* what the calls returned
  mixed        \* observability: the body was read by two calls at a time

vars == <<response, body, cut, closed, once, content, contentError, call, calls, returned, mixed>>

Idle == [op |-> "none", got |-> 0]

TypeOK ==
  /\ response \in {"none", "ok", "bad", "given", "failed"}
  /\ body \in 0 .. Parts /\ content \in 0 .. Parts
  /\ {cut, closed, contentError, mixed} \subseteq BOOLEAN
  /\ once \in {"new", "running", "over"}
  /\ call \in [Caller -> [op : {"none", "content", "wait", "file"}, got : 0 .. Parts]]
  /\ calls \in 0 .. MaxCalls
  /\ returned \subseteq [op : {"content", "file"}, ok : BOOLEAN, got : 0 .. Parts]

Init ==
  /\ response = "none" /\ body = Parts /\ cut = FALSE /\ closed = FALSE
  /\ once = "new" /\ content = 0 /\ contentError = FALSE
  /\ call = [c \in Caller |-> Idle] /\ calls = 0 /\ returned = {} /\ mixed = FALSE

-----------------------------------------------------------------------------
Reading(c) == call[c].op \in {"content", "file"}

\* A call begins to read, perhaps while another one does
Begin(c, op) ==
  /\ call' = [call EXCEPT ![c] = [op |-> op, got |-> 0]]
  /\ mixed' = (mixed \/ \E d \in Caller : Reading(d))

Return(c, op, ok, got) ==
  /\ call' = [call EXCEPT ![c] = Idle]
  /\ returned' = returned \cup {[op |-> op, ok |-> ok, got |-> got]}

\* Execute: the request fails, or has a response
Execute ==
  /\ response = "none"
  /\ response' \in {"failed", "ok", "bad"}
  /\ UNCHANGED <<body, cut, closed, once, content, contentError, call, calls, returned, mixed>>

\* A status other than 200 becomes an error, with the content in its text if there is one
ErrorString(c) ==
  /\ response = "bad" /\ once = "new" /\ once' = "running"
  /\ Begin(c, "content")
  /\ UNCHANGED <<response, body, cut, closed, content, contentError, calls, returned>>

Give ==
  /\ \/ response = "ok" /\ response' = "given"
     \/ response = "bad" /\ once = "over" /\ response' = "failed"
  /\ UNCHANGED <<body, cut, closed, once, content, contentError, call, calls, returned, mixed>>

BugKept(error) == FALSE   \* only the first caller hears of the error

\* the error stays with the content it cut short
Kept(error) == error

\* GetContent: the first call reads the body, others wait for it, later ones have it
GetContent(c) ==
  /\ response = "given" /\ call[c].op = "none" /\ calls < MaxCalls /\ calls' = calls + 1
  /\ \/ once = "new" /\ once' = "running" /\ Begin(c, "content") /\ UNCHANGED returned
     \/ /\ once = "running" /\ call' = [call EXCEPT ![c].op = "wait"]
        /\ UNCHANGED <<once, returned, mixed>>
     \/ /\ once = "over" /\ Return(c, "content", ~contentError, content)
        /\ UNCHANGED <<once, mixed>>
  /\ UNCHANGED <<response, body, cut, closed, content, contentError>>

Awake(c) ==
  /\ call[c].op = "wait" /\ once = "over"
  /\ Return(c, "content", ~contentError, content)
  /\ UNCHANGED <<response, body, cut, closed, once, content, contentError, calls, mixed>>

\* WriteTo, WriteToWithProgress: a file that cannot be created closes the body
WriteTo(c) ==
  /\ response = "given" /\ call[c].op = "none" /\ calls < MaxCalls /\ calls' = calls + 1
  /\ \/ Begin(c, "file") /\ UNCHANGED <<closed, returned>>
     \/ Return(c, "file", FALSE, 0) /\ closed' = TRUE /\ UNCHANGED mixed
  /\ UNCHANGED <<response, body, cut, once, content, contentError>>

\* a piece of the body
Read(c) ==
  /\ Reading(c) /\ ~closed /\ ~cut /\ body > 0
  /\ body' = body - 1 /\ call' = [call EXCEPT ![c].got = @ + 1]
  /\ UNCHANGED <<response, cut, closed, once, content, contentError, calls, returned, mixed>>

CutOff ==
  /\ ~cut /\ body > 0 /\ cut' = TRUE
  /\ UNCHANGED <<response, body, closed, once, content, contentError, call, calls, returned, mixed>>

\* The end of the body, if it is all read and nobody closed it, else an error; a file may
\* also fail to be written.  The body is closed in each case.
Ends(c, ok) ==
  /\ Reading(c) /\ closed' = TRUE
  /\ \/ ~ok /\ (closed \/ cut \/ call[c].op = "file")
     \/ ok /\ ~closed /\ body = 0
  /\ IF call[c].op = "content"
     THEN /\ once' = "over" /\ content' = call[c].got /\ contentError' = Kept(~ok)
          /\ IF response = "bad" THEN call' = [call EXCEPT ![c] = Idle] /\ UNCHANGED returned
             ELSE Return(c, "content", ok, call[c].got)
     ELSE /\ Return(c, "file", ok, call[c].got)
          /\ UNCHANGED <<once, content, contentError>>
  /\ UNCHANGED <<response, body, cut, calls, mixed>>

Next ==
  \/ Execute \/ Give \/ CutOff
  \/ \E c \in Caller :
       \/ ErrorString(c) \/ GetContent(c) \/ Awake(c) \/ WriteTo(c) \/ Read(c)
       \/ \E ok \in BOOLEAN : Ends(c, ok)

Spec == Init /\ [][Next]_vars

-----------------------------------------------------------------------------
(* Properties                                                              *)

\* A call that succeeds delivered the whole body: not what a broken connection left of it,
\* not the nothing of a body that another call has read or closed.  Only two calls that
\* read at a time may each succeed with their share.
NoSilentLoss == ~mixed => \A r \in returned : r.ok => r.got = Parts
=============================================================================
