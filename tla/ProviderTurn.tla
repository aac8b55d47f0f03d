----------------------------- MODULE ProviderTurn -----------------------------
(***************************************************************************)
(* Turns of one Codex session (src/agentplatform/provider.go and rpc.go):  *)
(* Prompt resumes the thread once, starts a turn and waits for the notice  *)
(* that this turn is over.  Answers and notices come over one pipe and are *)
(* handed on by a reader goroutine, an answer to the call that waits for   *)
(* it, a notice to the prompt in progress.  The agent runs turns of its    *)
(* own in the same thread; it may refuse, die or never answer.             *)
(*                                                                         *)
(* Left out: Interrupt, which only asks the agent to end a turn, as the    *)
(* agent may do at any time; History and Models, which only read; the      *)
(* approvals an agent asks for (module Approvals).                         *)
(***************************************************************************)
EXTENDS Naturals, Sequences, FiniteSets

CONSTANTS
    Prompts,  \* calls of Prompt
    Turns,    \* native turn identities
    NoPrompt, NoTurn,
    Capacity  \* of the completion channel: 64 in the code

ASSUME TurnAssumption ==
    /\ NoPrompt \notin Prompts
    /\ NoTurn \notin Turns
    /\ IsFiniteSet(Turns) /\ Capacity \in Nat

VARIABLES
    busy, resumed, \* fields of session
    completion,    \* the completion channel, empty between prompts
    done,          \* rpc.done is closed
    stage,         \* where each call of Prompt is
    turnOf,        \* the turn a prompt was told it started
    result,        \* what Prompt returned
    slot,          \* the channel of the call in progress
    asked,         \* the call the agent has not taken up, and its prompt
    wire,          \* what the agent wrote and the reader has not read
    owed,          \* turns whose start the agent has not answered
    alive,         \* the agent process
    turn,          \* native: the state of each turn
    cause,         \* native: the prompt that started each turn
    denied,        \* history: turns that began and whose start got no usable answer
    heard          \* history: turns whose notices came during the prompt in progress

ours == <<busy, resumed, completion, stage, turnOf, result, slot, heard>>
theirs == <<asked, wire, owed, alive, turn, cause, denied>>
turnVars == <<ours, done, theirs>>

Empty == [kind |-> "empty"]
NoneAsked == [call |-> "none"]
Frame ==
    [kind : {"answer"}, turn : Turns \cup {NoTurn}] \cup [kind : {"refusal"}]
      \cup [kind : {"garbled"}] \cup [kind : {"completed"}, turn : Turns]

TurnTypes ==
    /\ {busy, resumed, done, alive} \subseteq BOOLEAN
    /\ completion \in Seq(Turns)
    /\ Len(completion) <= Capacity
    /\ ~busy => completion = <<>> /\ heard = {}
    /\ stage \in [Prompts -> {"new", "resume", "resuming", "start", "starting", "wait", "returned"}]
    /\ turnOf \in [Prompts -> Turns \cup {NoTurn}]
    /\ result \in [Prompts -> {"none", "ended", "failed", "uncertain"}]
    /\ slot \in Frame \cup {Empty}
    /\ asked \in [call : {"resume", "start"}, by : Prompts] \cup {NoneAsked}
    /\ wire \in Seq(Frame)
    /\ owed \in SUBSET Turns
    /\ turn \in [Turns -> {"unused", "running", "ended", "unheard", "killed"}]
    /\ cause \in [Turns -> Prompts \cup {NoPrompt}]
    /\ denied \in SUBSET Turns /\ heard \in SUBSET Turns

TurnInit ==
    /\ busy = FALSE
    /\ resumed \in BOOLEAN  \* a session that was created needs no resume
    /\ completion = <<>>
    /\ done = FALSE
    /\ stage = [p \in Prompts |-> "new"]
    /\ turnOf = [p \in Prompts |-> NoTurn]
    /\ result = [p \in Prompts |-> "none"]
    /\ slot = Empty
    /\ asked = NoneAsked
    /\ wire = <<>>
    /\ owed = {}
    /\ alive = TRUE
    /\ turn = [t \in Turns |-> "unused"]
    /\ cause = [t \in Turns |-> NoPrompt]
    /\ denied = {}
    /\ heard = {}

--------------------------------------------------------------------------------
(* Prompt. *)

Begin(p) ==
    /\ stage[p] = "new"
    /\ ~busy
    /\ busy' = TRUE
    /\ completion' = <<>>
    /\ heard' = {}
    /\ stage' = [stage EXCEPT ![p] = IF resumed THEN "start" ELSE "resume"]
    /\ UNCHANGED <<resumed, turnOf, result, slot, done, theirs>>

\* The deferred reset is part of every return.
Return(p, outcome) ==
    /\ stage' = [stage EXCEPT ![p] = "returned"]
    /\ result' = [result EXCEPT ![p] = outcome]
    /\ busy' = FALSE
    /\ completion' = <<>>
    /\ heard' = {}

RefuseBusy(p) ==
    /\ stage[p] = "new"
    /\ busy
    /\ stage' = [stage EXCEPT ![p] = "returned"]
    /\ result' = [result EXCEPT ![p] = "failed"]
    /\ UNCHANGED <<busy, completion, heard, resumed, turnOf, slot, done, theirs>>

CallMade(s) == IF s = "resume" THEN "resuming" ELSE "starting"

\* A call is written to the agent's input.
Write(p) ==
    /\ stage[p] \in {"resume", "start"}
    /\ ~done
    /\ asked' = [call |-> stage[p], by |-> p]
    /\ slot' = Empty
    /\ stage' = [stage EXCEPT ![p] = CallMade(stage[p])]
    /\ UNCHANGED <<busy, completion, heard, result, resumed, turnOf, done>>
    /\ UNCHANGED <<wire, owed, alive, turn, cause, denied>>

WriteFails(p) ==
    /\ stage[p] \in {"resume", "start"}
    /\ done
    /\ Return(p, "failed")
    /\ UNCHANGED <<resumed, turnOf, slot, done, theirs>>

\* An error, or what is not a result of the call, fails it; the connection lives.
Fails(f) == f.kind \in {"refusal", "garbled"}

TakeResumed(p) ==
    /\ stage[p] = "resuming"
    /\ \/ /\ slot.kind = "answer"
          /\ resumed' = TRUE
          /\ stage' = [stage EXCEPT ![p] = "start"]
          /\ UNCHANGED <<busy, completion, heard, result>>
       \/ Fails(slot) /\ Return(p, "failed") /\ UNCHANGED resumed
    /\ slot' = Empty
    /\ UNCHANGED <<turnOf, done, theirs>>

\* The answer names the turn; an agent that names none is closed.  One that fails
\* the call is not, although the turn may have begun.
TakeStarted(p) ==
    /\ stage[p] = "starting"
    /\ \/ /\ slot.kind = "answer" /\ slot.turn # NoTurn
          /\ turnOf' = [turnOf EXCEPT ![p] = slot.turn]
          /\ stage' = [stage EXCEPT ![p] = "wait"]
          /\ UNCHANGED <<busy, completion, heard, result, done>>
       \/ /\ slot.kind = "answer" /\ slot.turn = NoTurn
          /\ done' = TRUE
          /\ Return(p, "uncertain")
          /\ UNCHANGED turnOf
       \/ Fails(slot) /\ Return(p, "failed") /\ UNCHANGED <<turnOf, done>>
    /\ slot' = Empty
    /\ UNCHANGED <<resumed, theirs>>

\* Mutant: the first notice ends the prompt.
TakeAnyCompletion(p) ==
    /\ stage[p] = "wait"
    /\ completion # <<>>
    /\ Return(p, "ended")
    /\ UNCHANGED <<resumed, turnOf, slot, done, theirs>>

\* Notices of other turns are passed over.
TakeCompletion(p) ==
    /\ stage[p] = "wait"
    /\ completion # <<>>
    /\ IF Head(completion) = turnOf[p]
       THEN Return(p, "ended")
       ELSE completion' = Tail(completion) /\ UNCHANGED <<busy, heard, stage, result>>
    /\ UNCHANGED <<resumed, turnOf, slot, done, theirs>>

Waiting == {"resuming", "starting", "wait"}

ConnectionLost(p) ==
    /\ stage[p] \in Waiting
    /\ done
    /\ Return(p, "uncertain")
    /\ UNCHANGED <<resumed, turnOf, slot, done, theirs>>

\* Mutant: the time limit ends the call and leaves the agent alone.
ExpireKeeps(p) ==
    /\ stage[p] \in Waiting
    /\ Return(p, "uncertain")
    /\ UNCHANGED <<resumed, turnOf, slot, done, theirs>>

\* Mutant: there is no time limit for the turn itself.
ExpireInCall(p) ==
    /\ stage[p] \in {"resuming", "starting"}
    /\ done' = TRUE
    /\ Return(p, "uncertain")
    /\ UNCHANGED <<resumed, turnOf, slot, theirs>>

\* The time limit of the call or of the turn, or the end of the service: the
\* connection is closed with it.
Expire(p) ==
    /\ stage[p] \in Waiting
    /\ done' = TRUE
    /\ Return(p, "uncertain")
    /\ UNCHANGED <<resumed, turnOf, slot, theirs>>

--------------------------------------------------------------------------------
(* The reader, and the end of the connection. *)

\* Mutant: the channel holds one notice.
HasRoomForOne == completion = <<>>

HasRoom == Len(completion) < Capacity

\* A notice without a prompt in progress, or without room, is dropped, and so is
\* an answer nobody waits for.  The reader does not stop at once when the
\* connection is closed.
Read ==
    LET frame == Head(wire) IN
    /\ wire # <<>>
    /\ wire' = Tail(wire)
    /\ IF frame.kind = "completed"
       THEN /\ completion' = IF busy /\ HasRoom THEN Append(completion, frame.turn)
                             ELSE completion
            /\ heard' = IF busy THEN heard \cup {frame.turn} ELSE heard
            /\ UNCHANGED slot
       ELSE /\ slot' = IF \E p \in Prompts : stage[p] \in {"resuming", "starting"}
                       THEN frame ELSE slot
            /\ UNCHANGED <<completion, heard>>
    /\ UNCHANGED <<busy, resumed, stage, turnOf, result, done, asked, owed, alive, turn, cause, denied>>

\* The reader comes to the end of the agent's output.
EndOfOutput ==
    /\ ~alive
    /\ wire = <<>>
    /\ ~done
    /\ done' = TRUE
    /\ UNCHANGED <<ours, theirs>>

\* The owner of the session is closed.
Close ==
    /\ ~done
    /\ done' = TRUE
    /\ UNCHANGED <<ours, theirs>>

--------------------------------------------------------------------------------
(* The agent process. *)

AgentResumes ==
    /\ alive
    /\ asked.call = "resume"
    /\ asked' = NoneAsked
    /\ \E f \in {[kind |-> "answer", turn |-> NoTurn], [kind |-> "refusal"], [kind |-> "garbled"]} :
          wire' = Append(wire, f)
    /\ UNCHANGED <<ours, done, owed, alive, turn, cause, denied>>

\* The turn runs, and may be over, before its start is answered.
AgentStarts(t) ==
    /\ alive
    /\ asked.call = "start"
    /\ turn[t] = "unused"
    /\ asked' = NoneAsked
    /\ turn' = [turn EXCEPT ![t] = "running"]
    /\ cause' = [cause EXCEPT ![t] = asked.by]
    /\ owed' = owed \cup {t}
    /\ UNCHANGED <<ours, done, wire, alive, denied>>

AgentRefuses ==
    /\ alive
    /\ asked.call = "start"
    /\ asked' = NoneAsked
    /\ wire' = Append(wire, [kind |-> "refusal"])
    /\ UNCHANGED <<ours, done, owed, alive, turn, cause, denied>>

\* With the turn's identity or without, with an error although the turn began, or
\* with what cannot be decoded.
AgentAnswers(t) ==
    /\ alive
    /\ t \in owed
    /\ owed' = owed \ {t}
    /\ \/ /\ \E named \in {t, NoTurn} : wire' = Append(wire, [kind |-> "answer", turn |-> named])
          /\ UNCHANGED denied
       \/ /\ \E k \in {"refusal", "garbled"} : wire' = Append(wire, [kind |-> k])
          /\ denied' = denied \cup {t}
    /\ UNCHANGED <<ours, done, asked, alive, turn, cause>>

\* A turn of the agent's own, a review or a compaction.
AgentOwnTurn(t) ==
    /\ alive
    /\ turn[t] = "unused"
    /\ turn' = [turn EXCEPT ![t] = "running"]
    /\ UNCHANGED <<ours, done, asked, wire, owed, alive, cause, denied>>

\* With a notice, or with one that cannot be decoded and is passed over.
AgentEnds(t) ==
    /\ alive
    /\ turn[t] = "running"
    /\ \/ /\ turn' = [turn EXCEPT ![t] = "ended"]
          /\ wire' = Append(wire, [kind |-> "completed", turn |-> t])
       \/ turn' = [turn EXCEPT ![t] = "unheard"] /\ UNCHANGED wire
    /\ UNCHANGED <<ours, done, asked, owed, alive, cause, denied>>

\* By itself, or killed because the connection was closed.
AgentDies ==
    /\ alive
    /\ alive' = FALSE
    /\ turn' = [t \in Turns |-> IF turn[t] = "running" THEN "killed" ELSE turn[t]]
    /\ asked' = NoneAsked
    /\ owed' = {}
    /\ UNCHANGED <<ours, done, wire, cause, denied>>

--------------------------------------------------------------------------------

Advance(p) ==
    \/ WriteFails(p) \/ TakeResumed(p) \/ TakeStarted(p) \/ TakeCompletion(p) \/ ConnectionLost(p)

TurnNext ==
    \/ \E p \in Prompts : Begin(p) \/ RefuseBusy(p) \/ Write(p) \/ Advance(p) \/ Expire(p)
    \/ \E t \in Turns : AgentStarts(t) \/ AgentAnswers(t) \/ AgentOwnTurn(t) \/ AgentEnds(t)
    \/ Read \/ EndOfOutput \/ Close
    \/ AgentResumes \/ AgentRefuses \/ AgentDies

TurnSpec == TurnInit /\ [][TurnNext]_turnVars

\* A prompt may be larger than the pipe: its write ends only if the agent reads.
\* The other calls are small.
Fairness ==
    /\ WF_turnVars(Read) /\ WF_turnVars(EndOfOutput)
    /\ \A p \in Prompts : WF_turnVars(Advance(p)) /\ WF_turnVars(stage[p] = "resume" /\ Write(p))

\* Every call and every turn has a time limit (rpc.go:127, server.go:673), which
\* is looked at once the call is written.  Of the agent nothing is assumed.
LimitSpec == TurnSpec /\ Fairness /\ \A p \in Prompts : WF_turnVars(Expire(p))

\* The agent reads its input.
ReadingSpec == LimitSpec /\ \A p \in Prompts : WF_turnVars(Write(p))

--------------------------------------------------------------------------------
(* Properties. *)

\* A prompt that reports its turn over reports its own, not a turn that the
\* agent or an earlier prompt had in the same thread.
ReportsOwnTurn ==
    \A p \in Prompts : result[p] = "ended" =>
        turnOf[p] # NoTurn /\ turn[turnOf[p]] = "ended" /\ cause[turnOf[p]] = p

\* A turn runs on after its prompt returned only on a connection that is closed,
\* where the process that runs it is killed, or when the agent had begun it and
\* answered its start with an error or with what cannot be decoded.  Then the prompt
\* has failed, the next one may begin and nobody follows the turn.
NoTurnLeftBehind ==
    \A t \in Turns : cause[t] # NoPrompt /\ turn[t] = "running" =>
        stage[cause[t]] # "returned" \/ done \/ t \in denied

\* The same without the exception: a prompt that reports a failure on a connection
\* that lives left no turn running.
FailedPromptsRunNothing ==
    \A t \in Turns : cause[t] # NoPrompt /\ result[cause[t]] = "failed" =>
        turn[t] # "running" \/ done

\* Prompts and the turns they started end together, each with its own.
TurnsAreFollowed == TurnTypes /\ ReportsOwnTurn /\ NoTurnLeftBehind

Unread(t) == \E i \in DOMAIN wire : wire[i].kind = "completed" /\ wire[i].turn = t

\* The notice a prompt waits for is on its way or in the channel, also when the
\* turn was over before its start was answered.  It is lost only when as many
\* notices of other turns as the channel holds came during the same prompt.
NoticeIsKept ==
    \A p \in Prompts, t \in Turns :
        cause[t] = p /\ turn[t] = "ended" /\ stage[p] \in {"starting", "wait"} =>
            \/ Unread(t)
            \/ \E i \in DOMAIN completion : completion[i] = t
            \/ Cardinality(heard \ {t}) >= Capacity

\* Every prompt that has begun returns, also when the agent never answers.
PromptsEnd == \A p \in Prompts : stage[p] \notin {"new", "returned"} ~> stage[p] = "returned"

\* "All operations are bounded" (rpc.go:124): no call takes for ever.
CallsAreBounded ==
    \A p \in Prompts :
        stage[p] \in {"resume", "resuming", "start", "starting"} ~> stage[p] \in {"wait", "returned"}
================================================================================
