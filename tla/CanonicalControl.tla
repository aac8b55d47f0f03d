---------------------------- MODULE CanonicalControl ----------------------------
(***************************************************************************)
(* Conditional controls of one conversation                                *)
(* (src/agentplatform/canonical_control.go): a client prepares an action,  *)
(* is given a proposal bound to what the action was prepared against, and  *)
(* commits it later, perhaps more than once, perhaps after a restart.      *)
(* Around it the conversation is switched by hand, turns start and end,    *)
(* requests are asked, answered and withdrawn.                             *)
(*                                                                         *)
(* A commit holds controls.mu, convMu, Server.mu and managed.mu up to its  *)
(* acceptance, so acceptance is one action; a model control gives them up  *)
(* for the provider calls.  A preparation changes nothing before it        *)
(* reserves the identity, and what it read may be stale by then just as it *)
(* may be stale at commit, so it is one action as well.  Expiry, policy    *)
(* and cancellation are a refusal that may come at any commit.  Close only  *)
(* disables (every handler asks for it first): a closed service is one     *)
(* that nobody calls any more, and has no state of its own here.           *)
(***************************************************************************)
EXTENDS Naturals, FiniteSets

CONSTANTS
    Actions,         \* action identities, chosen by clients
    Sessions, First, \* native sessions, and the one the conversation starts with
    Models, Requests, Commands,
    Nobody, Nothing,
    MaxReceipts,     \* 4096 in the code
    MaxRevision, MaxIncarnation  \* bounds on manual switches and on restarts

ASSUME ControlAssumption ==
    /\ First \in Sessions
    /\ Nobody \notin Actions \cup Commands
    /\ Actions \cap Commands = {}
    /\ Nothing \notin Sessions \cup Models \cup Requests
    /\ {MaxReceipts, MaxRevision, MaxIncarnation} \subseteq Nat
    /\ MaxIncarnation # 0

VARIABLES
    incarnation,  \* canonicalControls.incarnation, fresh in each process
    receipts,     \* canonicalControls.receipts
    issued,       \* the proposals clients hold, of this and earlier processes
    job,          \* the handler of an accepted model control
    revision, selected, links,  \* the conversation
    owners,       \* sessions with a ready owner
    holder,       \* who made a session busy: a command, a model control, nobody
    command,      \* the status of the conversation's commands
    pending,      \* the requests clients may answer
    asked,        \* the session and the origin of each request
    decisions,    \* history: answers given to each request
    effects,      \* history: effects of each action in this process
    took          \* history: the proposal that last took effect

conversation == <<revision, selected, links>>
native == <<owners, holder, command>>
questions == <<pending, asked, decisions>>
history == <<effects, took>>
vars == <<incarnation, receipts, issued, job, conversation, native, questions, history>>

Proposal ==
    [action : Actions, incarnation : Nat, kind : {"switch", "model", "request"},
     revision : Nat, session : Sessions, what : Sessions \cup Models \cup Requests]

Final == {"completed", "rejected", "uncertain"}
Receipt == [proposal : Proposal, status : {"prepared", "running"} \cup Final]
NoReceipt == [status |-> "absent"]
NoProposal == [kind |-> "none"]

TypeOK ==
    /\ incarnation \in 1..MaxIncarnation
    /\ receipts \in [Actions -> Receipt \cup {NoReceipt}]
    /\ issued \in SUBSET Proposal
    /\ job \in [Actions -> {"none", "reserved", "checked"} \cup Final]
    /\ revision \in Nat \ {0}
    /\ selected \in Sessions
    /\ links \in SUBSET Sessions
    /\ owners \in SUBSET Sessions
    /\ holder \in [Sessions -> Actions \cup Commands \cup {Nobody}]
    /\ command \in [Commands -> {"unused", "running", "settled"}]
    /\ pending \in SUBSET Requests
    /\ asked \in [Requests -> [session : Sessions \cup {Nothing}, origin : Commands \cup {Nobody}]]
    /\ decisions \in [Requests -> Nat]
    /\ effects \in [Actions -> Nat]
    /\ took \in [Actions -> Proposal \cup {NoProposal}]

Init ==
    /\ incarnation = 1
    /\ receipts = [a \in Actions |-> NoReceipt]
    /\ issued = {}
    /\ job = [a \in Actions |-> "none"]
    /\ revision = 1
    /\ selected = First
    /\ links = {First}
    /\ owners = {First}
    /\ holder = [s \in Sessions |-> Nobody]
    /\ command = [c \in Commands |-> "unused"]
    /\ pending = {}
    /\ asked = [r \in Requests |-> [session |-> Nothing, origin |-> Nobody]]
    /\ decisions = [r \in Requests |-> 0]
    /\ effects = [a \in Actions |-> 0]
    /\ took = [a \in Actions |-> NoProposal]

--------------------------------------------------------------------------------
(* What goes on around the controls. *)

\* A manual switch: the session is opened, and linked if it was not.
ManualSwitch(s) ==
    /\ revision < MaxRevision
    /\ s \in links \/ holder[s] = Nobody
    /\ owners' = owners \cup {s}
    /\ selected' = s
    /\ links' = links \cup {s}
    /\ revision' = revision + 1
    /\ UNCHANGED <<incarnation, receipts, issued, job, holder, command, questions, history>>

\* Opened, and nothing more (also after a restart).
OpenOwner(s) ==
    /\ s \notin owners
    /\ owners' = owners \cup {s}
    /\ UNCHANGED <<incarnation, receipts, issued, job, conversation, holder, command,
                   questions, history>>

StartTurn(c) ==
    /\ command[c] = "unused"
    /\ selected \in owners
    /\ holder[selected] = Nobody
    /\ command' = [command EXCEPT ![c] = "running"]
    /\ holder' = [holder EXCEPT ![selected] = c]
    /\ UNCHANGED <<incarnation, receipts, issued, job, conversation, owners,
                   questions, history>>

RecordTurn(c) ==
    /\ command[c] = "running"
    /\ command' = [command EXCEPT ![c] = "settled"]
    /\ UNCHANGED <<incarnation, receipts, issued, job, conversation, owners, holder,
                   questions, history>>

ReleaseTurn(c, s) ==
    /\ holder[s] = c
    /\ command[c] = "settled"
    /\ holder' = [holder EXCEPT ![s] = Nobody]
    /\ UNCHANGED <<incarnation, receipts, issued, job, conversation, owners, command,
                   questions, history>>

Ask(r, s) ==
    /\ asked[r].session = Nothing
    /\ s \in owners
    /\ pending' = pending \cup {r}
    /\ asked' = [asked EXCEPT ![r] =
                    [session |-> s, origin |-> IF holder[s] \in Commands THEN holder[s] ELSE Nobody]]
    /\ UNCHANGED <<incarnation, receipts, issued, job, conversation, native,
                   decisions, history>>

Withdraw(r) ==
    /\ r \in pending
    /\ pending' = pending \ {r}
    /\ UNCHANGED <<incarnation, receipts, issued, job, conversation, native,
                   asked, decisions, history>>

ManualAnswer(r) ==
    /\ r \in pending
    /\ pending' = pending \ {r}
    /\ decisions' = [decisions EXCEPT ![r] = @ + 1]
    /\ UNCHANGED <<incarnation, receipts, issued, job, conversation, native,
                   asked, history>>

--------------------------------------------------------------------------------
(* Preparation. *)

\* validateControlRequest.
Decidable(r, s) ==
    /\ r \in pending
    /\ asked[r].session = s
    /\ asked[r].origin # Nobody
    /\ command[asked[r].origin] = "running"

IdentityFree(a) == receipts[a] = NoReceipt

Reserve(a, kind, what) ==
    LET p == [action |-> a, incarnation |-> incarnation, kind |-> kind, revision |-> revision,
              session |-> selected, what |-> what]
    IN /\ selected \in owners
       /\ IdentityFree(a)
       /\ Cardinality({b \in Actions : receipts[b] # NoReceipt}) < MaxReceipts
       /\ receipts' = [receipts EXCEPT ![a] = [proposal |-> p, status |-> "prepared"]]
       /\ issued' = issued \cup {p}
       /\ UNCHANGED <<incarnation, job, conversation, native, questions, history>>

PrepareSwitch(a, s) == s \in links \cap owners /\ Reserve(a, "switch", s)

PrepareModel(a, x) == holder[selected] = Nobody /\ Reserve(a, "model", x)

PrepareRequest(a, r) == Decidable(r, selected) /\ Reserve(a, "request", r)

--------------------------------------------------------------------------------
(* Commit. *)

SetStatus(a, status) == receipts' = [receipts EXCEPT ![a] = [@ EXCEPT !.status = status]]

TakeEffect(p) ==
    /\ effects' = [effects EXCEPT ![p.action] = @ + 1]
    /\ took' = [took EXCEPT ![p.action] = p]

\* Mutants: the action identity alone is looked up; the status is not.
BoundByIdentity(p) == receipts[p.action].status = "prepared"
BoundWhatever(p) ==
    /\ p.incarnation = incarnation
    /\ receipts[p.action] # NoReceipt
    /\ receipts[p.action].proposal = p

\* The proposal is the one prepared under its identity in this process, and was
\* not committed before.
Bound(p) ==
    /\ p.incarnation = incarnation
    /\ receipts[p.action].status = "prepared"
    /\ receipts[p.action].proposal = p

\* Mutant: the conversation may have moved on and back.
TargetUnchangedSession(p) == p.session = selected

TargetUnchanged(p) == p.revision = revision /\ p.session = selected

Acceptable(p) == Bound(p) /\ TargetUnchanged(p) /\ p.session \in owners

Reject(p) ==
    /\ Bound(p)
    /\ SetStatus(p.action, "rejected")
    /\ UNCHANGED <<incarnation, issued, job, conversation, native, questions, history>>

CommitRequest(p) ==
    /\ p.kind = "request"
    /\ Acceptable(p)
    /\ Decidable(p.what, p.session)
    /\ pending' = pending \ {p.what}
    /\ decisions' = [decisions EXCEPT ![p.what] = @ + 1]
    /\ SetStatus(p.action, "completed")
    /\ TakeEffect(p)
    /\ UNCHANGED <<incarnation, issued, job, conversation, native, asked>>

\* The selection is published only when it could be saved.
CommitSwitch(p) ==
    /\ p.kind = "switch"
    /\ Acceptable(p)
    /\ p.what \in links \cap owners
    /\ \/ /\ selected' = p.what
          /\ revision' = revision + 1
          /\ SetStatus(p.action, "completed")
          /\ TakeEffect(p)
       \/ /\ SetStatus(p.action, "uncertain")
          /\ UNCHANGED <<selected, revision, history>>
    /\ UNCHANGED <<incarnation, issued, job, links, native, questions>>

ReserveModel(p) ==
    /\ p.kind = "model"
    /\ Acceptable(p)
    /\ holder[p.session] = Nobody
    /\ holder' = [holder EXCEPT ![p.session] = p.action]
    /\ SetStatus(p.action, "running")
    /\ job' = [job EXCEPT ![p.action] = "reserved"]
    /\ UNCHANGED <<incarnation, issued, conversation, owners, command, questions, history>>

--------------------------------------------------------------------------------
(* The rest of a model control, without locks. *)

\* The catalogue and the current model are read again: as they were prepared
\* against, or nothing is attempted.
CheckModels(a) ==
    /\ job[a] = "reserved"
    /\ \E found \in {"checked", "rejected"} : job' = [job EXCEPT ![a] = found]
    /\ UNCHANGED <<incarnation, receipts, issued, conversation, native, questions, history>>

\* Mutant: an attempt that failed is reported like one that was not made.
SelectModelOrReject(a) ==
    LET p == receipts[a].proposal IN
    /\ job[a] = "checked"
    /\ TakeEffect(p)
    /\ \E end \in {"completed", "rejected"} : job' = [job EXCEPT ![a] = end]
    /\ UNCHANGED <<incarnation, receipts, issued, conversation, native, questions>>

\* The call and the private file; after a failure the model may have changed.
SelectModel(a) ==
    LET p == receipts[a].proposal IN
    /\ job[a] = "checked"
    /\ TakeEffect(p)
    /\ \E end \in {"completed", "uncertain"} : job' = [job EXCEPT ![a] = end]
    /\ UNCHANGED <<incarnation, receipts, issued, conversation, native, questions>>

ReleaseModel(a) ==
    LET p == receipts[a].proposal IN
    /\ job[a] \in Final
    /\ holder[p.session] = a
    /\ holder' = [holder EXCEPT ![p.session] = Nobody]
    /\ UNCHANGED <<incarnation, receipts, issued, job, conversation, owners, command,
                   questions, history>>

\* Mutant: the handler returns without recording a failure.
RecordModelIfCompleted(a) ==
    LET p == receipts[a].proposal IN
    /\ job[a] \in Final
    /\ holder[p.session] # a
    /\ IF job[a] = "completed" THEN SetStatus(a, "completed") ELSE UNCHANGED receipts
    /\ job' = [job EXCEPT ![a] = "none"]
    /\ UNCHANGED <<incarnation, issued, conversation, native, questions, history>>

RecordModel(a) ==
    LET p == receipts[a].proposal IN
    /\ job[a] \in Final
    /\ holder[p.session] # a
    /\ SetStatus(a, job[a])
    /\ job' = [job EXCEPT ![a] = "none"]
    /\ UNCHANGED <<incarnation, issued, conversation, native, questions, history>>

--------------------------------------------------------------------------------
(* The process. *)

\* Only the conversation and the native agents outlive the process.
Restart ==
    /\ incarnation < MaxIncarnation
    /\ incarnation' = incarnation + 1
    /\ receipts' = [a \in Actions |-> NoReceipt]
    /\ job' = [a \in Actions |-> "none"]
    /\ owners' = {}
    /\ holder' = [s \in Sessions |-> Nobody]
    /\ command' = [c \in Commands |-> IF command[c] = "running" THEN "settled" ELSE command[c]]
    /\ pending' = {}
    /\ effects' = [a \in Actions |-> 0]
    /\ took' = [a \in Actions |-> NoProposal]
    /\ UNCHANGED <<issued, conversation, asked, decisions>>

Commit(p) == Reject(p) \/ CommitRequest(p) \/ CommitSwitch(p) \/ ReserveModel(p)
Continue(a) == CheckModels(a) \/ SelectModel(a) \/ ReleaseModel(a) \/ RecordModel(a)

Next ==
    \/ \E s \in Sessions : ManualSwitch(s) \/ OpenOwner(s)
    \/ \E c \in Commands : StartTurn(c) \/ RecordTurn(c)
    \/ \E c \in Commands, s \in Sessions : ReleaseTurn(c, s)
    \/ \E r \in Requests, s \in Sessions : Ask(r, s)
    \/ \E r \in Requests : Withdraw(r) \/ ManualAnswer(r)
    \/ \E a \in Actions :
          \/ \E s \in Sessions : PrepareSwitch(a, s)
          \/ \E x \in Models : PrepareModel(a, x)
          \/ \E r \in Requests : PrepareRequest(a, r)
          \/ Continue(a)
    \/ \E p \in issued : Commit(p)
    \/ Restart

Spec == Init /\ [][Next]_vars

--------------------------------------------------------------------------------
(* Properties. *)

\* An action takes effect at most once in a process, however often, late or
\* concurrently its proposal is committed, and a request that may be decided by
\* hand as well is answered once.
EffectOnce ==
    /\ \A a \in Actions : effects[a] <= 1
    /\ \A r \in Requests : decisions[r] <= 1

\* What took effect is exactly what was prepared in this process and what the
\* receipt of the action describes: an old proposal never acts under an
\* identity that was prepared anew after a restart.
ActedAsPrepared ==
    \A a \in Actions :
        effects[a] > 0 => receipts[a] # NoReceipt /\ receipts[a].proposal = took[a]

\* A receipt does not lie: a rejected or prepared action did nothing, a completed
\* one did what it says.  What may have happened is running or uncertain.
ReceiptIsHonest ==
    \A a \in Actions :
        /\ receipts[a].status \in {"absent", "prepared", "rejected"} => effects[a] = 0
        /\ receipts[a].status = "completed" => effects[a] = 1

Switched(a) == receipts[a].status = "completed" /\ receipts[a].proposal.kind = "switch"

\* Of the switches prepared against one revision at most one completes.
OneSwitchPerRevision ==
    \A a, b \in {x \in Actions : Switched(x)} :
        receipts[a].proposal.revision = receipts[b].proposal.revision => a = b

\* An action is taken once, as it was prepared, and against what it was prepared for.
ActsAsPrepared == TypeOK /\ EffectOnce /\ ActedAsPrepared /\ OneSwitchPerRevision

\* An accepted model control is in its handler's hands until its receipt is final,
\* so no receipt stays running for ever, and it holds its session as long as it
\* may still change the model.
AcceptedIsInHand ==
    \A a \in Actions :
        /\ receipts[a].status = "running" <=> job[a] # "none"
        /\ job[a] \in {"reserved", "checked"} => holder[receipts[a].proposal.session] = a
================================================================================
