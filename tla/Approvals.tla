------------------------------- MODULE Approvals -------------------------------
(***************************************************************************)
(* Decisions of a native session (src/agentplatform/server.go).  The agent *)
(* asks in a goroutine of its own, Request registers the question and      *)
(* waits on a channel of one slot; a client answers it from the manual     *)
(* dialog or with a conditional control.  Turns of conversation commands   *)
(* come and go meanwhile, contexts end, the service closes.  One owner is  *)
(* modelled: owners share nothing here.                                    *)
(***************************************************************************)
EXTENDS Naturals, FiniteSets

CONSTANTS
    Requests,        \* the questions, by their random identifiers
    Contents,        \* what a question asks; equal contents have equal digests
    Commands,        \* conversation commands
    NoCommand, NoContent,
    MaxPending       \* 16 in the code

ASSUME ApprovalsAssumption ==
    /\ IsFiniteSet(Requests)
    /\ NoCommand \notin Commands
    /\ NoContent \notin Contents
    /\ MaxPending \in Nat

VARIABLES
    open,        \* the service context, managed.done, is not done
    ready,       \* managed.ready
    origin,      \* managed.origin: the command whose turn holds the session
    running,     \* the command whose record says running
    stage,       \* where Request stands
    content,     \* what the request asks
    tag,         \* approval.Origin
    ended,       \* requests whose context is done
    pending,     \* the keys of managed.requests
    channel,     \* answers in the channel of each request
    result,      \* what Request returns
    decisions,   \* history: decisions accepted for each request
    agreed,      \* history: the content the decision was made for
    cause        \* history: the command in whose turn the agent asked

askVars == <<open, ready, origin, running, stage, content, tag, ended, pending,
          channel, result, decisions, agreed, cause>>

turns == <<origin, running>>
asked == <<content, cause>>
decided == <<decisions, agreed>>

AskTypeOK ==
    /\ open \in BOOLEAN
    /\ ready \in BOOLEAN
    /\ origin \in Commands \cup {NoCommand}
    /\ running \in Commands \cup {NoCommand}
    /\ stage \in [Requests -> {"none", "asked", "waiting", "leaving", "returned"}]
    /\ content \in [Requests -> Contents \cup {NoContent}]
    /\ tag \in [Requests -> Commands \cup {NoCommand}]
    /\ ended \in SUBSET Requests
    /\ pending \in SUBSET Requests
    /\ channel \in [Requests -> Nat]
    /\ result \in [Requests -> {"none", "answer", "refused"}]
    /\ decisions \in [Requests -> Nat]
    /\ agreed \in [Requests -> Contents \cup {NoContent}]
    /\ cause \in [Requests -> Commands \cup {NoCommand}]

AskInit ==
    /\ open = TRUE
    /\ ready = FALSE
    /\ origin = NoCommand
    /\ running = NoCommand
    /\ stage = [r \in Requests |-> "none"]
    /\ content = [r \in Requests |-> NoContent]
    /\ tag = [r \in Requests |-> NoCommand]
    /\ ended = {}
    /\ pending = {}
    /\ channel = [r \in Requests |-> 0]
    /\ result = [r \in Requests |-> "none"]
    /\ decisions = [r \in Requests |-> 0]
    /\ agreed = [r \in Requests |-> NoContent]
    /\ cause = [r \in Requests |-> NoCommand]

--------------------------------------------------------------------------------
(* The owner and the turns of its session, as SessionService has them. *)

BecomeReady ==
    /\ open /\ ~ready
    /\ ready' = TRUE
    /\ UNCHANGED <<open, turns, stage, asked, tag, ended, pending, channel, result, decided>>

BeginCommand(c) ==
    /\ open /\ ready
    /\ origin = NoCommand
    /\ origin' = c
    /\ running' = c
    /\ UNCHANGED <<open, ready, stage, asked, tag, ended, pending, channel, result, decided>>

\* The outcome is recorded first, the session released after it.
RecordTurn ==
    /\ running # NoCommand
    /\ running' = NoCommand
    /\ UNCHANGED <<open, ready, origin, stage, asked, tag, ended, pending, channel, result, decided>>

ReleaseTurn ==
    /\ origin # NoCommand /\ running = NoCommand
    /\ origin' = NoCommand
    /\ UNCHANGED <<open, ready, running, stage, asked, tag, ended, pending, channel, result, decided>>

CloseService ==
    /\ open
    /\ open' = FALSE
    /\ UNCHANGED <<ready, turns, stage, asked, tag, ended, pending, channel, result, decided>>

--------------------------------------------------------------------------------
(* Request. *)

\* The agent's frame is read; the goroutine that handles it has not run yet.
Ask(r, k) ==
    /\ stage[r] = "none"
    /\ stage' = [stage EXCEPT ![r] = "asked"]
    /\ content' = [content EXCEPT ![r] = k]
    /\ cause' = [cause EXCEPT ![r] = running]
    /\ UNCHANGED <<open, ready, turns, tag, ended, pending, channel, result, decided>>

PendingHasRoom == Cardinality(pending) < MaxPending

Register(r) ==
    /\ stage[r] = "asked"
    /\ ready /\ PendingHasRoom
    /\ stage' = [stage EXCEPT ![r] = "waiting"]
    /\ tag' = [tag EXCEPT ![r] = origin]
    /\ pending' = pending \cup {r}
    /\ UNCHANGED <<open, ready, turns, asked, ended, channel, result, decided>>

Refuse(r) ==
    /\ stage[r] = "asked"
    /\ ~ready \/ ~PendingHasRoom
    /\ stage' = [stage EXCEPT ![r] = "returned"]
    /\ result' = [result EXCEPT ![r] = "refused"]
    /\ UNCHANGED <<open, ready, turns, asked, tag, ended, pending, channel, decided>>

\* The turn or the connection ended, or the request timed out.
EndContext(r) ==
    /\ stage[r] \in {"asked", "waiting"}
    /\ r \notin ended
    /\ ended' = ended \cup {r}
    /\ UNCHANGED <<open, ready, turns, stage, asked, tag, pending, channel, result, decided>>

TakeAnswer(r) ==
    /\ stage[r] = "waiting"
    /\ channel[r] > 0
    /\ channel' = [channel EXCEPT ![r] = @ - 1]
    /\ result' = [result EXCEPT ![r] = "answer"]
    /\ stage' = [stage EXCEPT ![r] = "leaving"]
    /\ UNCHANGED <<open, ready, turns, asked, tag, ended, pending, decided>>

\* Mutant: the wait has a limit of its own.
GiveUpAnytime(r) ==
    /\ stage[r] = "waiting"
    /\ result' = [result EXCEPT ![r] = "refused"]
    /\ stage' = [stage EXCEPT ![r] = "leaving"]
    /\ UNCHANGED <<open, ready, turns, asked, tag, ended, pending, channel, decided>>

\* When an answer is there as well, select may choose either.
GiveUp(r) ==
    /\ stage[r] = "waiting"
    /\ r \in ended \/ ~open
    /\ result' = [result EXCEPT ![r] = "refused"]
    /\ stage' = [stage EXCEPT ![r] = "leaving"]
    /\ UNCHANGED <<open, ready, turns, asked, tag, ended, pending, channel, decided>>

\* Mutants: an answered request alone is forgotten; Request never gets to its end.
UnregisterAnswered(r) ==
    /\ stage[r] = "leaving"
    /\ stage' = [stage EXCEPT ![r] = "returned"]
    /\ pending' = IF result[r] = "answer" THEN pending \ {r} ELSE pending
    /\ UNCHANGED <<open, ready, turns, asked, tag, ended, channel, result, decided>>
UnregisterWhileOpen(r) ==
    /\ stage[r] = "leaving" /\ open
    /\ stage' = [stage EXCEPT ![r] = "returned"]
    /\ pending' = pending \ {r}
    /\ UNCHANGED <<open, ready, turns, asked, tag, ended, channel, result, decided>>

\* The deferred removal.
Unregister(r) ==
    /\ stage[r] = "leaving"
    /\ stage' = [stage EXCEPT ![r] = "returned"]
    /\ pending' = pending \ {r}
    /\ UNCHANGED <<open, ready, turns, asked, tag, ended, channel, result, decided>>

--------------------------------------------------------------------------------
(* Decisions. *)

\* Mutant: what the client was shown is not compared.
AnswerableUnseen(r, k) == r \in pending /\ r \notin ended

\* The digest the client echoes is that of the pending request.
Answerable(r, k) == r \in pending /\ r \notin ended /\ k = content[r]

\* Mutant: the request stays registered.
AcceptAgain(r, k) ==
    /\ Answerable(r, k)
    /\ channel' = [channel EXCEPT ![r] = @ + 1]
    /\ decisions' = [decisions EXCEPT ![r] = @ + 1]
    /\ agreed' = [agreed EXCEPT ![r] = k]
    /\ UNCHANGED <<open, ready, turns, stage, asked, tag, ended, pending, result>>

\* Both routes end alike, under managed.mu: removed, then sent.
Accept(r, k) ==
    /\ Answerable(r, k)
    /\ pending' = pending \ {r}
    /\ channel' = [channel EXCEPT ![r] = @ + 1]
    /\ decisions' = [decisions EXCEPT ![r] = @ + 1]
    /\ agreed' = [agreed EXCEPT ![r] = k]
    /\ UNCHANGED <<open, ready, turns, stage, asked, tag, ended, result>>

\* The manual dialog.
Approve(r, k) == Accept(r, k)

\* A conditional control: only for the command it belongs to, while it runs.
CommitRequest(r, k) ==
    /\ open
    /\ tag[r] # NoCommand /\ tag[r] = running
    /\ Accept(r, k)

--------------------------------------------------------------------------------
Return(r) == TakeAnswer(r) \/ GiveUp(r) \/ Unregister(r)

AskNext ==
    \/ BecomeReady \/ RecordTurn \/ ReleaseTurn \/ CloseService
    \/ \E c \in Commands : BeginCommand(c)
    \/ \E r \in Requests :
          \/ Register(r) \/ Refuse(r) \/ EndContext(r) \/ Return(r)
          \/ \E k \in Contents : Ask(r, k) \/ Approve(r, k) \/ CommitRequest(r, k)

AskSpec == AskInit /\ [][AskNext]_askVars

\* A goroutine in Request runs on; that a context ends is not assumed.
FairAskSpec == AskSpec /\ \A r \in Requests : WF_askVars(Return(r))

--------------------------------------------------------------------------------
(* Properties. *)

\* A competing manual and conditional decision deliver at most one answer, so
\* the send, made with managed.mu held, never blocks on the one-slot channel.
OneDecision == \A r \in Requests : decisions[r] <= 1

\* An agent that is told yes or no is told what somebody decided about exactly
\* the question it asked.
AnswerWasDecided ==
    \A r \in Requests :
        result[r] = "answer" => decisions[r] = 1 /\ agreed[r] = content[r]

\* An accepted decision is lost only to an ended context or to Close.
DecisionArrives ==
    \A r \in Requests :
        decisions[r] = 1 /\ result[r] = "refused" => r \in ended \/ ~open

\* A question on the clients' list has a goroutine that waits for the decision
\* or is about to take it off: no entry leaks and eats up the limit.
PendingHasWaiter == \A r \in pending : stage[r] \in {"waiting", "leaving"}

\* Whoever decides, in whatever order: once, about that question, and not in
\* vain; and no entry is left behind.
DecisionsAreSound == AskTypeOK /\ OneDecision /\ AnswerWasDecided /\ DecisionArrives /\ PendingHasWaiter

\* Request returns once its decision was made, its context ended or the service
\* closed.
RequestsEnd ==
    \A r \in Requests :
        stage[r] = "waiting" /\ (channel[r] > 0 \/ r \in ended \/ ~open) ~> stage[r] = "returned"

\* "The existing approvals projection now includes origin.conversation and
\* origin.commandId only when the request arose during an accepted canonical
\* command": a tag names the command that was running when the agent asked.
OriginIsCause == \A r \in Requests : tag[r] # NoCommand => tag[r] = cause[r]
================================================================================
