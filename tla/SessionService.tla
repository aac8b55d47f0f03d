---------------------------- MODULE SessionService ----------------------------
(***************************************************************************)
(* The command ledger of the native session service (src/agentplatform):   *)
(* owners and their busy flag, prompts sent directly to a session, the     *)
(* conversations that link sessions and own their commands, the goroutine  *)
(* that runs each accepted prompt, the two private files that survive a    *)
(* crash (commands.json, conversations.json), closing and restarting.      *)
(*                                                                         *)
(* convMu, Server.mu and managed.mu are held in that order; a section of   *)
(* the code that holds convMu or Server.mu throughout is one action, and   *)
(* every point where the code gives the locks up is a boundary between     *)
(* actions.  A request that the code refuses changes nothing and is left   *)
(* to stuttering.  When the process is down, `receipts' and `convs' are    *)
(* what the files say.  A session has one owner: SessionOwners describes   *)
(* the race of its creation with a selection in which it has two.          *)
(***************************************************************************)
EXTENDS Naturals, FiniteSets

CONSTANTS
    Sessions,        \* native sessions (provider, id, cwd)
    Conversations,   \* identifiers of Iugum conversations
    Commands,        \* command UUIDs chosen by clients
    NoSession, NoConversation, NoCommand,
    MaxRevision      \* bound on the selection changes of one conversation

ASSUME NobodyAssumption ==
    /\ NoSession \notin Sessions
    /\ NoConversation \notin Conversations
    /\ NoCommand \notin Commands
ASSUME MaxRevisionAssumption == MaxRevision \in Nat

VARIABLES
    proc,            \* the server process: "up", "closing" or "down"
    owned,           \* Server.sessions: the sessions with a live owner
    busy,            \* managed.busy
    origin,          \* managed.origin: the conversation command a turn serves
    selecting,       \* model selections in progress (they hold busy)
    receipts,        \* Server.receipts
    savedReceipts,   \* commands.json
    convs,           \* Server.conversations
    savedConvs,      \* conversations.json
    turn,            \* the goroutine that runs an accepted prompt
    deliveries       \* history: times the native agent was given the prompt

vars == <<proc, owned, busy, origin, selecting, receipts, savedReceipts,
          convs, savedConvs, turn, deliveries>>

memory == <<owned, busy, origin, selecting, turn>>
files == <<savedReceipts, savedConvs>>

--------------------------------------------------------------------------------
Outcomes == {"complete", "uncertain"}
Statuses == {"absent", "running"} \cup Outcomes

\* A conversation that does not exist yet has revision 0.
Conversation ==
    [revision : Nat, selected : Sessions \cup {NoSession},
     links : SUBSET Sessions, commands : [Commands -> Statuses]]

NoCommands == [c \in Commands |-> "absent"]
Absent == [revision |-> 0, selected |-> NoSession, links |-> {}, commands |-> NoCommands]

\* "spawned": started, the agent has not seen the prompt; "delivered": it has;
\* "settling": between the two updates that end the goroutine.
Stages == {"idle", "spawned", "delivered", "settling"}
Turn ==
    [stage : Stages, session : Sessions \cup {NoSession},
     conv : Conversations \cup {NoConversation}, outcome : Outcomes \cup {"running"}]
NoTurn ==
    [stage |-> "idle", session |-> NoSession, conv |-> NoConversation, outcome |-> "running"]

TypeOK ==
    /\ proc \in {"up", "closing", "down"}
    /\ owned \in SUBSET Sessions
    /\ busy \in SUBSET Sessions
    /\ origin \in [Sessions -> Commands \cup {NoCommand}]
    /\ selecting \in SUBSET Sessions
    /\ receipts \in [Commands -> Statuses]
    /\ savedReceipts \in [Commands -> Statuses]
    /\ convs \in [Conversations -> Conversation]
    /\ savedConvs \in [Conversations -> Conversation]
    /\ turn \in [Commands -> Turn]
    /\ deliveries \in [Commands -> Nat]

Init ==
    /\ proc = "up"
    /\ owned = {}
    /\ busy = {}
    /\ origin = [s \in Sessions |-> NoCommand]
    /\ selecting = {}
    /\ receipts = NoCommands
    /\ savedReceipts = NoCommands
    /\ convs = [k \in Conversations |-> Absent]
    /\ savedConvs = [k \in Conversations |-> Absent]
    /\ turn = [c \in Commands |-> NoTurn]
    /\ deliveries = [c \in Commands |-> 0]

--------------------------------------------------------------------------------
(* What the handlers ask of the state. *)

Linked(s) == \E k \in Conversations : s \in convs[k].links

LinkedElsewhere(k, s) == \E other \in Conversations \ {k} : s \in convs[other].links

\* Mutant: the receipts are not asked.
UnusedInConversations(c) == \A k \in Conversations : convs[k].commands[c] = "absent"

\* Neither the receipts nor any conversation has recorded the identifier.
Unused(c) ==
    /\ receipts[c] = "absent"
    /\ \A k \in Conversations : convs[k].commands[c] = "absent"

\* The goroutine of command c still runs or may still run the prompt.
Live(c) == turn[c].stage \in {"spawned", "delivered"}

\* How a prompt call may return: without delivery only with an error.
Returns(c) == IF turn[c].stage = "delivered" THEN Outcomes ELSE {"uncertain"}

\* Mutant: interrupted commands are dropped at startup.
InterruptedDropped(status) ==
    [c \in Commands |-> IF status[c] = "running" THEN "absent" ELSE status[c]]

\* What a file read at startup becomes: interrupted work is uncertain.
Interrupted(status) == [c \in Commands |-> IF status[c] = "running" THEN "uncertain" ELSE status[c]]

\* Publish only what the atomic private-file write has stored.
PutConversation(k, c) ==
    /\ convs' = [convs EXCEPT ![k] = c]
    /\ savedConvs' = convs'

--------------------------------------------------------------------------------
(* Owners and conversations. *)

\* An owner is never released before the process ends.
SelectSession(s) ==
    /\ proc = "up"
    /\ s \notin owned
    /\ owned' = owned \cup {s}
    /\ UNCHANGED <<proc, busy, origin, selecting, receipts, convs, files, turn, deliveries>>

CreateConversation(k, s) ==
    /\ proc # "down"
    /\ s \in owned \ busy
    /\ convs[k] = Absent
    /\ ~LinkedElsewhere(k, s)
    /\ PutConversation(k, [Absent EXCEPT !.revision = 1, !.selected = s, !.links = {s}])
    /\ UNCHANGED <<proc, memory, receipts, savedReceipts, deliveries>>

\* Mutant: the links of a conversation are replaced by the session selected.
SwitchConversationReplacesLinks(k, s) ==
    /\ proc # "down"
    /\ s \in owned
    /\ convs[k].revision \in 1 .. MaxRevision - 1
    /\ ~LinkedElsewhere(k, s)
    /\ s \in convs[k].links \/ s \notin busy
    /\ PutConversation(k, [convs[k] EXCEPT !.revision = @ + 1, !.selected = s, !.links = {s}])
    /\ UNCHANGED <<proc, memory, receipts, savedReceipts, deliveries>>

\* Switching never waits for, or stops, work of the session it leaves.
SwitchConversation(k, s) ==
    /\ proc # "down"
    /\ s \in owned
    /\ convs[k].revision \in 1 .. MaxRevision - 1
    /\ ~LinkedElsewhere(k, s)
    /\ s \in convs[k].links \/ s \notin busy
    /\ PutConversation(k, [convs[k] EXCEPT !.revision = @ + 1, !.selected = s,
                                           !.links = @ \cup {s}])
    /\ UNCHANGED <<proc, memory, receipts, savedReceipts, deliveries>>

--------------------------------------------------------------------------------
(* Accepting a prompt. *)

Spawn(c, s, k) ==
    turn' = [turn EXCEPT ![c] =
                [stage |-> "spawned", session |-> s, conv |-> k, outcome |-> "running"]]

\* The reservation is in the conversation and on disk before the goroutine
\* starts; a failed write rolls everything back (a stuttering step).
PromptConversation(k, s, c) ==
    /\ proc = "up"
    /\ s \in owned \ busy
    /\ convs[k].revision > 0
    /\ convs[k].selected = s
    /\ Unused(c)
    /\ busy' = busy \cup {s}
    /\ origin' = [origin EXCEPT ![s] = c]
    /\ PutConversation(k, [convs[k] EXCEPT !.commands[c] = "running"])
    /\ Spawn(c, s, k)
    /\ UNCHANGED <<proc, owned, selecting, receipts, savedReceipts, deliveries>>

\* Mutant: a failed write of the receipts does not free the session.
PromptDirectKeepsBusy(s, c) ==
    /\ proc = "up"
    /\ s \in owned \ busy
    /\ ~Linked(s)
    /\ Unused(c)
    /\ receipts' = [receipts EXCEPT ![c] = "running"]
    /\ busy' = busy \cup {s}
    /\ \/ savedReceipts' = receipts' /\ Spawn(c, s, NoConversation)
       \/ UNCHANGED <<savedReceipts, turn>>
    /\ UNCHANGED <<proc, owned, origin, selecting, convs, savedConvs, deliveries>>

PromptDirect(s, c) ==
    /\ proc = "up"
    /\ s \in owned \ busy
    /\ ~Linked(s)
    /\ Unused(c)
    /\ receipts' = [receipts EXCEPT ![c] = "running"]
    /\ \/ /\ savedReceipts' = receipts'
          /\ busy' = busy \cup {s}
          /\ Spawn(c, s, NoConversation)
       \/ \* saveReceipts failed: the session is free again, the receipt stays
          UNCHANGED <<savedReceipts, busy, turn>>
    /\ UNCHANGED <<proc, owned, origin, selecting, convs, savedConvs, deliveries>>

--------------------------------------------------------------------------------
(* The goroutine of an accepted prompt. *)

\* client.Prompt hands the text to the native agent.
Deliver(c) ==
    /\ turn[c].stage = "spawned"
    /\ turn' = [turn EXCEPT ![c] = [@ EXCEPT !.stage = "delivered"]]
    /\ deliveries' = [deliveries EXCEPT ![c] = @ + 1]
    /\ UNCHANGED <<proc, owned, busy, origin, selecting, receipts, convs, files>>

Settle(c, outcome) ==
    turn' = [turn EXCEPT ![c] = [@ EXCEPT !.stage = "settling", !.outcome = outcome]]

\* A direct turn frees the session first and records its outcome afterwards.
ReleaseDirect(c) ==
    /\ Live(c)
    /\ turn[c].conv = NoConversation
    /\ busy' = busy \ {turn[c].session}
    /\ \E outcome \in Returns(c) : Settle(c, outcome)
    /\ UNCHANGED <<proc, owned, origin, selecting, receipts, convs, files, deliveries>>

RecordDirect(c) ==
    /\ turn[c].stage = "settling"
    /\ turn[c].conv = NoConversation
    /\ receipts' = [receipts EXCEPT ![c] = turn[c].outcome]
    /\ savedReceipts' \in {receipts', savedReceipts}
    /\ turn' = [turn EXCEPT ![c] = NoTurn]
    /\ UNCHANGED <<proc, owned, busy, origin, selecting, convs, savedConvs, deliveries>>

\* Mutants: the outcome is published although its write failed; or not at all.
RecordOutcomeUnsaved(k, c, outcome) ==
    /\ convs' = [convs EXCEPT ![k] = [@ EXCEPT !.commands[c] = outcome]]
    /\ savedConvs' \in {convs', savedConvs}
RecordOutcomeIfSaved(k, c, outcome) ==
    \/ PutConversation(k, [convs[k] EXCEPT !.commands[c] = outcome])
    \/ UNCHANGED <<convs, savedConvs>>

\* When the write fails, clients are still told, in memory only, that the
\* outcome is uncertain.
RecordOutcome(k, c, outcome) ==
    \/ PutConversation(k, [convs[k] EXCEPT !.commands[c] = outcome])
    \/ /\ convs' = [convs EXCEPT ![k] = [@ EXCEPT !.commands[c] = "uncertain"]]
       /\ UNCHANGED savedConvs

\* A conversation turn records its outcome first and frees the session last.
RecordConversation(c) ==
    LET k == turn[c].conv IN
    /\ Live(c)
    /\ k # NoConversation
    /\ \E outcome \in Returns(c) : Settle(c, outcome) /\ RecordOutcome(k, c, outcome)
    /\ UNCHANGED <<proc, owned, busy, origin, selecting, receipts, savedReceipts, deliveries>>

ReleaseConversation(c) ==
    /\ turn[c].stage = "settling"
    /\ turn[c].conv # NoConversation
    /\ busy' = busy \ {turn[c].session}
    /\ origin' = [origin EXCEPT ![turn[c].session] = NoCommand]
    /\ turn' = [turn EXCEPT ![c] = NoTurn]
    /\ UNCHANGED <<proc, owned, selecting, receipts, convs, files, deliveries>>

--------------------------------------------------------------------------------
(* Model selection holds the busy flag around calls to the provider. *)

\* Mutant: the busy flag is set without being read.
BeginSelectModelAnytime(s) ==
    /\ proc # "down"
    /\ s \in owned \ selecting
    /\ busy' = busy \cup {s}
    /\ selecting' = selecting \cup {s}
    /\ UNCHANGED <<proc, owned, origin, receipts, convs, files, turn, deliveries>>

BeginSelectModel(s) ==
    /\ proc # "down"
    /\ s \in owned \ busy
    /\ busy' = busy \cup {s}
    /\ selecting' = selecting \cup {s}
    /\ UNCHANGED <<proc, owned, origin, receipts, convs, files, turn, deliveries>>

EndSelectModel(s) ==
    /\ s \in selecting
    /\ busy' = busy \ {s}
    /\ selecting' = selecting \ {s}
    /\ UNCHANGED <<proc, owned, origin, receipts, convs, files, turn, deliveries>>

--------------------------------------------------------------------------------
(* The life of the process. *)

Close ==
    /\ proc = "up"
    /\ proc' = "closing"
    /\ UNCHANGED <<memory, receipts, convs, files, deliveries>>

\* The process is gone: only the files remain.
Stop ==
    /\ proc' = "down"
    /\ owned' = {}
    /\ busy' = {}
    /\ origin' = [s \in Sessions |-> NoCommand]
    /\ selecting' = {}
    /\ turn' = [c \in Commands |-> NoTurn]
    /\ receipts' = savedReceipts
    /\ convs' = savedConvs
    /\ UNCHANGED <<files, deliveries>>

\* Close returns when the WaitGroup has counted every turn out.
Exit ==
    /\ proc = "closing"
    /\ \A c \in Commands : turn[c].stage = "idle"
    /\ Stop

Crash == proc # "down" /\ Stop

\* New: the receipts are marked in memory, the conversations also on disk.
Restart ==
    /\ proc = "down"
    /\ proc' = "up"
    /\ receipts' = Interrupted(savedReceipts)
    /\ convs' = [k \in Conversations |->
                    [savedConvs[k] EXCEPT !.commands = Interrupted(@)]]
    /\ savedConvs' = convs'
    /\ UNCHANGED <<memory, savedReceipts, deliveries>>

--------------------------------------------------------------------------------
Finish(c) == ReleaseDirect(c) \/ RecordDirect(c) \/ RecordConversation(c) \/ ReleaseConversation(c)

Next ==
    \/ \E s \in Sessions : SelectSession(s) \/ BeginSelectModel(s) \/ EndSelectModel(s)
    \/ \E k \in Conversations, s \in Sessions :
          \/ CreateConversation(k, s)
          \/ SwitchConversation(k, s)
          \/ \E c \in Commands : PromptConversation(k, s, c)
    \/ \E s \in Sessions, c \in Commands : PromptDirect(s, c)
    \/ \E c \in Commands : Deliver(c) \/ Finish(c)
    \/ Close \/ Exit \/ Crash \/ Restart

Spec == Init /\ [][Next]_vars

\* A prompt call returns: its context carries a 30 minute timeout and is
\* cancelled by Close.  The goroutine then runs to its end, a model selection
\* returns with its provider call, and Close waits for nothing else.
Fairness ==
    /\ \A c \in Commands : WF_vars(Finish(c))
    /\ \A s \in Sessions : WF_vars(EndSelectModel(s))
    /\ WF_vars(Exit)

FairSpec == Spec /\ Fairness
--------------------------------------------------------------------------------
(* Safety. *)

\* The command is in one of the two files.
OnDisk(c) ==
    \/ savedReceipts[c] # "absent"
    \/ \E k \in Conversations : savedConvs[k].commands[c] # "absent"

\* "Canonical command IDs are reserved on disk before dispatch": whatever a
\* turn may deliver, or has delivered, a restarted server will know about.
ReservedBeforeDelivery ==
    \A c \in Commands : Live(c) \/ deliveries[c] > 0 => OnDisk(c)

\* A prompt reaches the native agent at most once, whatever is retried on
\* either route, before and after any number of crashes and failed writes.
DeliveredOnce == \A c \in Commands : deliveries[c] <= 1

\* A command identifier names one request: it is a receipt of the direct route
\* or a command of one conversation, in memory and in the files.
RecordedOnce ==
    \A c \in Commands, k \in Conversations :
        /\ convs[k].commands[c] # "absent" =>
              /\ receipts[c] = "absent"
              /\ \A l \in Conversations \ {k} : convs[l].commands[c] = "absent"
        /\ savedConvs[k].commands[c] # "absent" =>
              /\ savedReceipts[c] = "absent"
              /\ \A l \in Conversations \ {k} : savedConvs[l].commands[c] = "absent"

\* A session is linked to at most one conversation, also by a restarted server.
OneConversationPerSession ==
    \A k, l \in Conversations : k # l =>
        /\ convs[k].links \cap convs[l].links = {}
        /\ savedConvs[k].links \cap savedConvs[l].links = {}

\* No turn that bypasses the conversation runs in a session it links: the
\* conversation's history is the whole history of the session from then on.
NoDirectTurnInConversation ==
    \A c \in Commands : Live(c) /\ turn[c].conv = NoConversation =>
        \A k \in Conversations : turn[c].session \notin convs[k].links

\* "Reject concurrent writers": a live turn has its session to itself; no
\* other turn and no model selection runs there.
TurnsAreExclusive ==
    \A c \in Commands : Live(c) =>
        /\ turn[c].session \in busy \ selecting
        /\ \A d \in Commands \ {c} : Live(d) => turn[d].session # turn[c].session

\* Approvals are attributed to `origin': while it names a command, that
\* command's own turn holds the session, and nothing else can ask in its name.
OriginHoldsSession ==
    \A s \in Sessions, c \in Commands : origin[s] = c =>
        /\ turn[c].session = s
        /\ turn[c].conv # NoConversation
        /\ s \in busy
        /\ turn[c].stage # "idle"

\* A conversation command that a client sees running has a goroutine that will
\* end it; after a restart none is left running.
RunningHasTurn ==
    \A k \in Conversations, c \in Commands :
        proc # "down" /\ convs[k].commands[c] = "running" => Live(c) /\ turn[c].conv = k

\* An outcome a client has seen is the outcome a restarted server reports.
OutcomeSurvivesCrash ==
    \A k \in Conversations, c \in Commands :
        convs[k].commands[c] \in Outcomes /\ proc # "down" =>
            Interrupted(savedConvs[k].commands)[c] = convs[k].commands[c]

\* Nothing a conversation has published is lost by any step, a crash or a
\* restart included: not a revision, a link, or the record of a command.
NothingForgotten ==
    [][\A k \in Conversations :
          /\ convs[k].revision <= convs'[k].revision
          /\ convs[k].links \subseteq convs'[k].links
          /\ \A c \in Commands :
                convs[k].commands[c] # "absent" => convs'[k].commands[c] # "absent"]_convs

--------------------------------------------------------------------------------
(* What the ledger implements. *)

Phase(c) ==
    CASE turn[c].stage = "spawned" -> "reserved"
      [] turn[c].stage = "delivered" -> "delivered"
      [] OTHER -> IF OnDisk(c) THEN "settled" ELSE "unused"

Delivery == INSTANCE CommandDelivery WITH phase <- [c \in Commands |-> Phase(c)]

\* The service implements the abstract delivery promise.
ImplementsDelivery == Delivery!Spec

--------------------------------------------------------------------------------
(* Liveness. *)

\* Connected clients never wait forever: a running conversation command gets an
\* outcome, also when its record cannot be written, unless the process dies.
RunningSettles ==
    \A k \in Conversations, c \in Commands :
        convs[k].commands[c] = "running" /\ proc # "down" ~>
            convs[k].commands[c] # "running" \/ proc = "down"

\* No path leaves a session busy for ever.
SessionBecomesFree == \A s \in Sessions : s \in busy ~> s \notin busy

--------------------------------------------------------------------------------
(* Documented, and not kept by the code. *)

\* "HTTP failures and persistence failures report uncertainty": a receipt that
\* reports running has a turn behind it.
RunningReceiptHasTurn ==
    \A c \in Commands :
        proc # "down" /\ receipts[c] = "running" => turn[c].stage # "idle"
================================================================================
