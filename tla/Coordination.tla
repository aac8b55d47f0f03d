----------------------------- MODULE Coordination -----------------------------
(***************************************************************************)
(* Coordination tasks (src/agentplatform/coordination.go): the agent of an *)
(* owner conversation has another conversation do work for it.  A task     *)
(* names its worker and the commands it sent; it is kept in memory and in  *)
(* coordination.json.  coord.mu is held over a whole operation, so one is  *)
(* in progress at a time: its steps are the variable call.  Between them   *)
(* users switch, prompt and create conversations, turns end, a save fails  *)
(* or the service dies.                                                    *)
(*                                                                         *)
(* Policies, validation of identifiers and the operations that only read   *)
(* (status, approvals) are left out: a refusal before the first save       *)
(* changes nothing.                                                        *)
(***************************************************************************)
EXTENDS Naturals, Sequences, SequencesExt

CONSTANTS
    Tasks,          \* task identities, chosen by the coordinating agents
    Commands,       \* command identities: nothing keeps agents and users from choosing the same
    Conversations,
    Sessions,
    Prepared,       \* what may exist already: conversations, each with its session
    Nobody, Nothing,
    MaxRevision     \* bound on switches of a conversation

ASSUME CoordinationAssumption ==
    /\ \A p \in Prepared :
          /\ DOMAIN p \subseteq Conversations
          /\ IsInjective(p)
          /\ \A v \in DOMAIN p : p[v] \in Sessions
    /\ Nobody \notin Tasks \cup Commands
    /\ Nothing \notin Conversations \cup Sessions
    /\ MaxRevision \in Nat \ {0}

VARIABLES
    enabled,   \* coordinationState.Enabled, the same in memory and on disk
    tasks,     \* coordinationState.Tasks
    saved,     \* the tasks in coordination.json
    call,      \* the operation that holds coord.mu
    worker,    \* the conversations
    native,    \* the sessions that exist
    holder,    \* the command that made a session busy; "direct" for a prompt without one
    created,   \* history: sessions each task had created
    stopped    \* history: interrupts, the task's state and last prompt, and the turn reached

outside == <<worker, native, holder>>
vars == <<enabled, tasks, saved, call, outside, created, stopped>>

Task ==
    [owner : Conversations, conversation : Conversations \cup {Nothing},
     target : Sessions \cup {Nothing}, commands : Seq(Commands),
     state : {"starting", "active", "uncertain"}]
NoTask == [state |-> "absent"]

Command ==
    [id : Commands, session : Sessions, status : {"running", "complete", "uncertain"},
     by : Tasks \cup {Nobody}]
Conversation ==
    [selected : Sessions, links : SUBSET Sessions, revision : 1..MaxRevision,
     commands : Seq(Command)]
NoConversation == [revision |-> 0]

Call ==
    [task : Tasks, entry : Task, revision : 0..MaxRevision,
     stage : {"create", "target", "conversation", "reserve", "chat", "record"}]
NoCall == [stage |-> "none"]

TypeOK ==
    /\ enabled \in [Conversations -> BOOLEAN]
    /\ tasks \in [Tasks -> Task \cup {NoTask}]
    /\ saved \in [Tasks -> Task \cup {NoTask}]
    /\ call \in Call \cup {NoCall}
    /\ worker \in [Conversations -> Conversation \cup {NoConversation}]
    /\ native \in SUBSET Sessions
    /\ holder \in [Sessions -> Commands \cup {Nobody, "direct"}]
    /\ created \in [Tasks -> Nat]
    /\ stopped \in SUBSET [task : Tasks, state : {"starting", "active", "uncertain"},
                            last : Commands, turn : Commands \cup {Nobody, "direct"}]

Fresh(s) == [selected |-> s, links |-> {s}, revision |-> 1, commands |-> <<>>]

Init ==
    /\ enabled = [v \in Conversations |-> FALSE]
    /\ tasks = [t \in Tasks |-> NoTask]
    /\ saved = [t \in Tasks |-> NoTask]
    /\ call = NoCall
    /\ \E p \in Prepared :
          /\ worker = [v \in Conversations |->
                         IF v \in DOMAIN p THEN Fresh(p[v]) ELSE NoConversation]
          /\ native = {p[v] : v \in DOMAIN p}
    /\ holder = [s \in Sessions |-> Nobody]
    /\ created = [t \in Tasks |-> 0]
    /\ stopped = {}

Exists(v) == worker[v] # NoConversation
Linked(s) == \E v \in Conversations : Exists(v) /\ s \in worker[v].links
Recorded(c) ==
    \E v \in Conversations : Exists(v) /\ \E i \in DOMAIN worker[v].commands :
        worker[v].commands[i].id = c
Idle == call = NoCall

--------------------------------------------------------------------------------
(* Users, and turns. *)

ManualSwitch(v, s) ==
    /\ Exists(v)
    /\ s \in native
    /\ \A u \in Conversations \ {v} : Exists(u) => s \notin worker[u].links
    /\ s \in worker[v].links \/ holder[s] = Nobody
    /\ worker[v].revision < MaxRevision
    /\ worker' = [worker EXCEPT ![v].selected = s, ![v].links = @ \cup {s},
                                ![v].revision = @ + 1]
    /\ UNCHANGED <<enabled, tasks, saved, call, native, holder, created, stopped>>

\* The session must be idle and in no other conversation.
Linkable(s) == s \in native /\ holder[s] = Nobody /\ ~Linked(s)

ManualCreate(v, s) ==
    /\ ~Exists(v)
    /\ Linkable(s)
    /\ worker' = [worker EXCEPT ![v] = Fresh(s)]
    /\ UNCHANGED <<enabled, tasks, saved, call, native, holder, created, stopped>>

\* What a prompt of a conversation requires.
Accepts(v, s, c, r) ==
    /\ Exists(v)
    /\ worker[v].revision = r
    /\ worker[v].selected = s
    /\ ~Recorded(c)
    /\ holder[s] = Nobody

Send(v, s, c, who) ==
    /\ holder' = [holder EXCEPT ![s] = c]
    /\ worker' = [worker EXCEPT ![v].commands =
                    Append(@, [id |-> c, session |-> s, status |-> "running", by |-> who])]

ManualPrompt(v, c) ==
    /\ Exists(v)
    /\ Accepts(v, worker[v].selected, c, worker[v].revision)
    /\ Send(v, worker[v].selected, c, Nobody)
    /\ UNCHANGED <<enabled, tasks, saved, call, native, created, stopped>>

DirectPrompt(s) ==
    /\ Linkable(s)
    /\ holder' = [holder EXCEPT ![s] = "direct"]
    /\ UNCHANGED <<enabled, tasks, saved, call, worker, native, created, stopped>>

RecordTurn(v, i, status) ==
    /\ worker[v].commands[i].status = "running"
    /\ worker' = [worker EXCEPT ![v].commands[i].status = status]
    /\ UNCHANGED <<enabled, tasks, saved, call, native, holder, created, stopped>>

Running(c) ==
    \E v \in Conversations : Exists(v) /\ \E i \in DOMAIN worker[v].commands :
        worker[v].commands[i].id = c /\ worker[v].commands[i].status = "running"

ReleaseTurn(s) ==
    /\ holder[s] # Nobody
    /\ ~Running(holder[s])
    /\ holder' = [holder EXCEPT ![s] = Nobody]
    /\ UNCHANGED <<enabled, tasks, saved, call, worker, native, created, stopped>>

--------------------------------------------------------------------------------
(* Saving. *)

\* The user turns coordination by a conversation on or off.
SetMode(v) ==
    /\ Exists(v)
    /\ Idle
    /\ enabled' = [enabled EXCEPT ![v] = ~@]
    /\ UNCHANGED <<tasks, saved, call, outside, created, stopped>>

\* Memory is published after the file.
Save(t, entry) ==
    /\ saved' = [tasks EXCEPT ![t] = entry]
    /\ tasks' = saved'

\* The file could not be written; memory says what is known all the same.
KeepInMemory(t, entry) ==
    /\ tasks' = [tasks EXCEPT ![t] = entry]
    /\ UNCHANGED saved

Uncertain(entry) == [entry EXCEPT !.state = "uncertain"]

\* Worker creation is not confirmed: recorded, if only in memory, and over.
GiveUp(t, entry) ==
    /\ Save(t, Uncertain(entry)) \/ KeepInMemory(t, Uncertain(entry))
    /\ call' = NoCall

--------------------------------------------------------------------------------
(* Start. *)

\* Mutant: creation goes on when the reservation could not be saved.
StartCreateUnsaved(o, t, c) ==
    LET entry == [owner |-> o, conversation |-> Nothing, target |-> Nothing,
                  commands |-> <<c>>, state |-> "starting"]
    IN /\ Idle
       /\ enabled[o]
       /\ tasks[t] = NoTask
       /\ Save(t, entry) \/ KeepInMemory(t, entry)
       /\ call' = [task |-> t, entry |-> entry, revision |-> 0, stage |-> "create"]
       /\ UNCHANGED <<enabled, outside, created, stopped>>

\* The task is reserved before anything is created for it.
StartCreate(o, t, c) ==
    LET entry == [owner |-> o, conversation |-> Nothing, target |-> Nothing,
                  commands |-> <<c>>, state |-> "starting"]
    IN /\ Idle
       /\ enabled[o]
       /\ tasks[t] = NoTask
       /\ Save(t, entry)
       /\ call' = [task |-> t, entry |-> entry, revision |-> 0, stage |-> "create"]
       /\ UNCHANGED <<enabled, outside, created, stopped>>

\* A session that was created may still be lost to the task: the call fails later.
CreateSession(s) ==
    /\ call.stage = "create"
    /\ s \notin native
    /\ native' = native \cup {s}
    /\ created' = [created EXCEPT ![call.task] = @ + 1]
    /\ \/ /\ call' = [call EXCEPT !.stage = "target", !.entry.target = s]
          /\ UNCHANGED <<tasks, saved>>
       \/ GiveUp(call.task, call.entry)
    /\ UNCHANGED <<enabled, worker, holder, stopped>>

CreateFails ==
    /\ call.stage = "create"
    /\ GiveUp(call.task, call.entry)
    /\ UNCHANGED <<enabled, outside, created, stopped>>

RecordTarget ==
    /\ call.stage = "target"
    /\ \/ Save(call.task, call.entry) /\ call' = [call EXCEPT !.stage = "conversation"]
       \/ GiveUp(call.task, call.entry)
    /\ UNCHANGED <<enabled, outside, created, stopped>>

\* A user may have been faster with the session.
CreateConversation(v) ==
    /\ call.stage = "conversation"
    /\ ~Exists(v)
    /\ Linkable(call.entry.target)
    /\ worker' = [worker EXCEPT ![v] = Fresh(call.entry.target)]
    /\ call' = [call EXCEPT !.stage = "reserve", !.entry.conversation = v, !.revision = 1]
    /\ UNCHANGED <<enabled, tasks, saved, native, holder, created, stopped>>

ConversationFails ==
    /\ call.stage = "conversation"
    /\ GiveUp(call.task, call.entry)
    /\ UNCHANGED <<enabled, outside, created, stopped>>

\* A prepared worker, at the revision and the selection it has when it is read.
StartExisting(o, t, c, v) ==
    /\ Idle
    /\ enabled[o]
    /\ tasks[t] = NoTask
    /\ v # o /\ Exists(v)
    /\ \A u \in Tasks : tasks[u] # NoTask => tasks[u].conversation # v
    /\ call' = [task |-> t, stage |-> "reserve", revision |-> worker[v].revision,
                entry |-> [owner |-> o, conversation |-> v, target |-> worker[v].selected,
                           commands |-> <<c>>, state |-> "starting"]]
    /\ UNCHANGED <<enabled, tasks, saved, outside, created, stopped>>

\* Mutant: the prompt is sent although its reservation was not saved.
ReserveUnsaved ==
    /\ call.stage = "reserve"
    /\ Save(call.task, call.entry) \/ KeepInMemory(call.task, call.entry)
    /\ call' = [call EXCEPT !.stage = "chat"]
    /\ UNCHANGED <<enabled, outside, created, stopped>>

\* The task with its worker is saved before the prompt is sent.
Reserve ==
    /\ call.stage = "reserve"
    /\ \/ Save(call.task, call.entry) /\ call' = [call EXCEPT !.stage = "chat"]
       \/ KeepInMemory(call.task, Uncertain(call.entry)) /\ call' = NoCall
    /\ UNCHANGED <<enabled, outside, created, stopped>>

--------------------------------------------------------------------------------
(* Dispatch, the same for start and follow_up. *)

\* The conversation's own route decides; it may also refuse for other reasons.
Chat ==
    LET e == call.entry IN
    /\ call.stage = "chat"
    /\ \/ /\ Accepts(e.conversation, e.target, Last(e.commands), call.revision)
          /\ Send(e.conversation, e.target, Last(e.commands), call.task)
          /\ call' = [call EXCEPT !.stage = "record", !.entry.state = "active"]
       \/ /\ call' = [call EXCEPT !.stage = "record", !.entry.state = "uncertain"]
          /\ UNCHANGED <<worker, holder>>
    /\ UNCHANGED <<enabled, tasks, saved, native, created, stopped>>

RecordOutcome ==
    /\ call.stage = "record"
    /\ Save(call.task, call.entry) \/ KeepInMemory(call.task, Uncertain(call.entry))
    /\ call' = NoCall
    /\ UNCHANGED <<enabled, outside, created, stopped>>

--------------------------------------------------------------------------------
(* Follow-up and stop. *)

\* The task is the owner's, and its worker is known.
Addressable(o, t) ==
    /\ Idle
    /\ enabled[o]
    /\ tasks[t] # NoTask
    /\ tasks[t].owner = o
    /\ tasks[t].conversation # Nothing

StatusOf(v, c) ==
    {worker[v].commands[i].status :
       i \in {j \in DOMAIN worker[v].commands : worker[v].commands[j].id = c}}

\* Mutant: any outcome of the last command will do.
FollowUpSettled(o, t, c, r) ==
    LET e == [tasks[t] EXCEPT !.commands = Append(@, c), !.state = "starting"] IN
    /\ Addressable(o, t)
    /\ "running" \notin StatusOf(tasks[t].conversation, Last(tasks[t].commands))
    /\ tasks[t].state = "active"
    /\ ~Contains(tasks[t].commands, c)
    /\ Save(t, e)
    /\ call' = [task |-> t, entry |-> e, revision |-> r, stage |-> "chat"]
    /\ UNCHANGED <<enabled, outside, created, stopped>>

\* Whatever revision the agent read: only the conversation's route compares it.
FollowUp(o, t, c, r) ==
    LET e == [tasks[t] EXCEPT !.commands = Append(@, c), !.state = "starting"] IN
    /\ Addressable(o, t)
    /\ "complete" \in StatusOf(tasks[t].conversation, Last(tasks[t].commands))
    /\ tasks[t].state = "active"
    /\ ~Contains(tasks[t].commands, c)
    /\ Save(t, e)
    /\ call' = [task |-> t, entry |-> e, revision |-> r, stage |-> "chat"]
    /\ UNCHANGED <<enabled, outside, created, stopped>>

\* The interrupt goes to the session: it reaches the turn that holds it.
Interrupt(t) == [task |-> t, state |-> tasks[t].state, last |-> Last(tasks[t].commands),
                 turn |-> holder[tasks[t].target]]

\* Mutant: whatever runs in the session is stopped.
StopSession(o, t) ==
    /\ Addressable(o, t)
    /\ holder[tasks[t].target] # Nobody
    /\ stopped' = stopped \cup {Interrupt(t)}
    /\ UNCHANGED <<enabled, tasks, saved, call, outside, created>>

\* The latest turn of a session in the record of the conversation.
Latest(v, s) ==
    {i \in DOMAIN worker[v].commands :
       /\ worker[v].commands[i].session = s
       /\ \A j \in DOMAIN worker[v].commands : worker[v].commands[j].session = s => j <= i}

\* Only when the latest turn of the session has the identity of the task's last
\* prompt and still runs; who sent it is not asked.  convMu is held over the
\* interrupt, so the turn is not recorded in between.
Stop(o, t) ==
    LET e == tasks[t]
    IN /\ Addressable(o, t)
       /\ \E i \in Latest(e.conversation, e.target) :
             /\ worker[e.conversation].commands[i].id = Last(e.commands)
             /\ worker[e.conversation].commands[i].status = "running"
       /\ stopped' = stopped \cup {Interrupt(t)}
       /\ UNCHANGED <<enabled, tasks, saved, call, outside, created>>

--------------------------------------------------------------------------------
(* The process. *)

Interrupted(d) == IF d.status = "running" THEN [d EXCEPT !.status = "uncertain"] ELSE d

Afterwards(entry) == IF entry.state = "starting" THEN Uncertain(entry) ELSE entry

\* Mutant: the tasks are taken over as they were saved.
RestartAsSaved ==
    /\ tasks' = saved
    /\ call' = NoCall
    /\ worker' = [v \in Conversations |->
                    IF Exists(v)
                    THEN [worker[v] EXCEPT !.commands =
                            [i \in DOMAIN @ |-> Interrupted(@[i])]]
                    ELSE NoConversation]
    /\ holder' = [s \in Sessions |-> Nobody]
    /\ UNCHANGED <<enabled, saved, native, created, stopped>>

\* What was in progress is uncertain, in memory; the file is not rewritten.
Restart ==
    /\ tasks' = [t \in Tasks |-> Afterwards(saved[t])]
    /\ call' = NoCall
    /\ worker' = [v \in Conversations |->
                    IF Exists(v)
                    THEN [worker[v] EXCEPT !.commands =
                            [i \in DOMAIN @ |-> Interrupted(@[i])]]
                    ELSE NoConversation]
    /\ holder' = [s \in Sessions |-> Nobody]
    /\ UNCHANGED <<enabled, saved, native, created, stopped>>

Continue ==
    \/ \E s \in Sessions : CreateSession(s)
    \/ \E v \in Conversations : CreateConversation(v)
    \/ CreateFails
    \/ RecordTarget
    \/ ConversationFails
    \/ Reserve
    \/ Chat
    \/ RecordOutcome

Next ==
    \/ \E v \in Conversations :
          \/ \E s \in Sessions : ManualSwitch(v, s) \/ ManualCreate(v, s)
          \/ \E c \in Commands : ManualPrompt(v, c)
          \/ \E status \in {"complete", "uncertain"} :
                Exists(v) /\ \E i \in DOMAIN worker[v].commands : RecordTurn(v, i, status)
          \/ SetMode(v)
    \/ \E s \in Sessions : DirectPrompt(s) \/ ReleaseTurn(s)
    \/ \E o \in Conversations, t \in Tasks :
          \/ \E c \in Commands :
                \/ StartCreate(o, t, c)
                \/ \E v \in Conversations : StartExisting(o, t, c, v)
                \/ \E r \in 1..MaxRevision : FollowUp(o, t, c, r)
          \/ Stop(o, t)
    \/ Continue
    \/ Restart

Spec == Init /\ [][Next]_vars

\* The calls an operation makes return.
FairSpec == Spec /\ WF_vars(Continue)

--------------------------------------------------------------------------------
(* Properties. *)

\* A task has at most one native session created for it, whatever failed or was
\* restarted, and however often the start is repeated.
CreatesOnce == \A t \in Tasks : created[t] <= 1

\* What a task sent is in the file, with the worker it was sent to: a restart
\* never forgets a prompt.
SentIsReserved ==
    \A v \in Conversations : Exists(v) => \A i \in DOMAIN worker[v].commands :
        LET d == worker[v].commands[i] IN
        d.by \in Tasks =>
            /\ saved[d.by] # NoTask
            /\ saved[d.by].conversation = v
            /\ saved[d.by].target = d.session
            /\ Contains(saved[d.by].commands, d.id)

\* A worker is given new directions only when it completed all earlier ones.
PriorCommandsComplete ==
    \A t \in Tasks : tasks[t] # NoTask => \A i \in 1..(Len(tasks[t].commands) - 1) :
        StatusOf(tasks[t].conversation, tasks[t].commands[i]) = {"complete"}

\* A task accounts for all it did: one session, every prompt, each after the last.
TasksKeepAccount == TypeOK /\ CreatesOnce /\ SentIsReserved /\ PriorCommandsComplete

SentBy(t) ==
    {c \in Commands : \E v \in Conversations : Exists(v) /\
        \E i \in DOMAIN worker[v].commands :
            worker[v].commands[i].id = c /\ worker[v].commands[i].by = t}

\* A stop never reaches a turn that came after the task's, or a direct one: it has
\* the identity of the task's last prompt.  And a task that knows its prompt was taken
\* (it is active) stops that prompt.  Of an uncertain task the turn may be somebody
\* else's: the identity stays with the task also when its prompt was refused, so
\* that of a turn which had it before, or was given it later, is taken for its own.
StopsItsTurn ==
    \A x \in stopped :
        /\ x.turn = x.last
        /\ x.state = "active" => x.turn \in SentBy(x.task)

\* "An old task cannot cancel a later direct turn using the same provider-native
\* session": a stop reaches no turn but those the task sent.
StopsOwnTurn == \A x \in stopped : x.turn \in SentBy(x.task)

\* No task stays in "starting".
StartingSettles ==
    \A t \in Tasks : tasks[t].state = "starting" ~> tasks[t].state # "starting"
================================================================================
