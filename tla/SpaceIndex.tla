------------------------------ MODULE SpaceIndex ------------------------------
(***************************************************************************)
(* How the object index of a SilverBullet client follows the files of its   *)
(* space.  The evented space (spaces/evented_space_primitives.ts) compares   *)
(* the time of every file it lists, reads or writes with a snapshot and      *)
(* announces changes; a change clears the file's objects and queues it       *)
(* (client.ts); a worker of the message queue (data/mq.datastore.ts) reads   *)
(* the file again and stores its objects (data/object_index.ts), and a full  *)
(* reindex clears everything and queues every file.                         *)
(*                                                                          *)
(* The queue, the index, the snapshot and the version of the index are in    *)
(* the browser's database and outlive the window; everything else is lost    *)
(* with it.  A file is the number of its version, 0 when there is none; the   *)
(* index holds, of each file, the versions its objects come from.  There is   *)
(* one window, and one worker at a time.                                    *)
(***************************************************************************)
EXTENDS Naturals, FiniteSets

CONSTANTS
    Files,
    BatchSize,    \* messages a worker takes at once
    MaxRetries,   \* mqTimeoutRetry
    MaxEdits,     \* bound: changes of files
    MaxTroubles   \* bound: closed windows, failed and slow batches, and reindexes asked for

ASSUME IndexAssumption ==
    /\ IsFiniteSet(Files)
    /\ BatchSize \in Nat \ {0}
    /\ {MaxRetries, MaxEdits, MaxTroubles} \subseteq Nat

VARIABLES
    disk,       \* the files
    known,      \* spaceSnapshot
    stored,     \* the snapshot in the database
    ops,        \* operations of the evented space in flight (operationCount is their number)
    listed,     \* indexStarted: a listing was announced
    queued, processing,   \* the messages of indexQueue, [id, file, tries]
    seq,        \* the last message id
    held,       \* messages requeueTimeouts took out of processing
    worker,     \* the queue worker: where it is, its batch, what is left of it, what it read
    index,      \* the versions whose objects are in the index, by file
    version,    \* $indexVersion: none, old or current
    marker,     \* $reindexInProgress
    fresh,      \* the one-shot listener for the first empty queue is there
    re,         \* the full reindex: where it is, the files it listed, its last message
    used,       \* how much of each bound is used
    raced,      \* the files nobody clears: see Holds and Unknown (ghost)
    late,       \* files with a message that timed out during a reindex (ghost)
    dropped,    \* files with a message that failed too often (ghost)
    cut         \* a window was closed where nothing resumes (ghost)

space == <<disk, known, stored, ops, listed>>
queue == <<queued, processing, seq, held, late>>
idx == <<index, version, marker>>
job == <<worker, fresh, re>>
ghosts == <<raced, dropped, cut>>
vars == <<space, queue, idx, job, used, ghosts>>

Spend(what, max) == used[what] < max /\ used' = [used EXCEPT ![what] = @ + 1]
Trouble == Spend("troubles", MaxTroubles)

(***************************************************************************)
(* The queue                                                               *)
(***************************************************************************)
\* Files are listed and queued in one order.
Order == CHOOSE o \in [Files -> 1..Cardinality(Files)] :
            \A f, g \in Files : o[f] = o[g] => f = g
Place(f, S) == Cardinality({g \in S : Order[g] <= Order[f]})

Ids(messages) == {m.id : m \in messages}

\* poll's scan: the first messages in the order of their ids.
Batch == {m \in queued : Cardinality({n \in queued : n.id < m.id}) < BatchSize}

Send(f) ==
    /\ seq' = seq + 1
    /\ queued' = queued \cup {[id |-> seq + 1, file |-> f, tries |-> 0]}
    /\ UNCHANGED <<processing, held, late>>

Idle == [at |-> "idle", batch |-> {}, left |-> {}, read |-> 0]
Current == CHOOSE m \in worker.left : \A n \in worker.left : m.id <= n.id
Holds(f) == worker.at \in {"reading", "read"} /\ Current.file = f

\* Mutant of Poll: the batch is not kept in processing.
PollForgets ==
    /\ worker.at = "idle" /\ queued # {}
    /\ worker' = [at |-> "polled", batch |-> Batch, left |-> Batch, read |-> 0]
    /\ UNCHANGED <<space, queue, idx, fresh, re, used, ghosts>>

\* Put in processing first, taken out of queued afterwards.
Poll ==
    /\ worker.at = "idle" /\ queued # {}
    /\ worker' = [at |-> "polled", batch |-> Batch, left |-> Batch, read |-> 0]
    /\ processing' = {m \in processing : m.id \notin Ids(Batch)} \cup Batch
    /\ UNCHANGED <<space, queued, seq, held, late, idx, fresh, re, used, ghosts>>

Unqueue ==
    /\ worker.at = "polled"
    /\ queued' = {m \in queued : m.id \notin Ids(worker.batch)}
    /\ worker' = [worker EXCEPT !.at = "ready"]
    /\ UNCHANGED <<space, processing, seq, held, late, idx, fresh, re, used, ghosts>>

\* An empty queue is announced; the listener is there until the index is complete.
PollEmpty ==
    /\ worker.at = "idle" /\ queued = {} /\ fresh
    /\ worker' = [worker EXCEPT !.at = "empty"]
    /\ UNCHANGED <<space, queue, idx, fresh, re, used, ghosts>>

EmptyQueueHandler ==
    /\ worker.at = "empty"
    /\ worker' = Idle
    /\ fresh' = (fresh /\ ~listed)
    /\ version' = IF listed THEN "current" ELSE version
    /\ marker' = (marker /\ ~listed)
    /\ UNCHANGED <<space, queue, index, re, used, ghosts>>

\* requeueTimeouts, its two writes.  A batch in hand for that long is trouble (the ten
\* seconds of mqTimeout do not pass between the two writes of poll); a message that
\* failed too often is dropped.
InHand == {m \in processing : m.id \in Ids(worker.batch)}

RequeueTimeouts(S) ==
    /\ held = {} /\ S # {}
    /\ processing' = processing \ S
    /\ held' = S
    /\ late' = IF re.upto = 0 THEN late ELSE late \cup {m.file : m \in S}
    /\ UNCHANGED <<space, queued, seq, idx, job, ghosts>>

RequeueFailed == RequeueTimeouts(processing \ InHand) /\ UNCHANGED used
RequeueSlow ==
    InHand # {} /\ worker.at # "polled" /\ RequeueTimeouts(processing) /\ Trouble

\* Mutant of Requeued: one retry fewer than was asked for.
RequeuedLess ==
    LET again == {[m EXCEPT !.tries = @ + 1] : m \in {n \in held : n.tries + 1 < MaxRetries}}
    IN  /\ held # {}
        /\ held' = {}
        /\ queued' = {m \in queued : m.id \notin Ids(again)} \cup again
        /\ dropped' = dropped \cup {m.file : m \in {n \in held : n.tries >= MaxRetries}}
        /\ UNCHANGED <<space, processing, seq, late, idx, job, used, raced, cut>>

Requeued ==
    LET again == {[m EXCEPT !.tries = @ + 1] : m \in {n \in held : n.tries < MaxRetries}}
    IN  /\ held # {}
        /\ held' = {}
        /\ queued' = {m \in queued : m.id \notin Ids(again)} \cup again
        /\ dropped' = dropped \cup {m.file : m \in {n \in held : n.tries >= MaxRetries}}
        /\ UNCHANGED <<space, processing, seq, late, idx, job, used, raced, cut>>

(***************************************************************************)
(* The evented space.  An operation announces what it saw only if it is the *)
(* only one in flight when it has its answer.                              *)
(***************************************************************************)
Alone == Cardinality(ops) = 1

Reads(op) == op.kind = "read"
Return(op) ==
    worker' = IF Reads(op) THEN [worker EXCEPT !.at = "read", !.read = op.time] ELSE worker

\* Mutant of Trigger: the objects of the old version are not cleared.
TriggerKeeps(op) ==
    /\ op.kind \in {"read", "write"} /\ op.at = "got"
    /\ IF Alone /\ known[op.file] # op.time
       THEN /\ ops' = {[op EXCEPT !.at = "send"]}
            /\ UNCHANGED <<stored, worker>>
       ELSE /\ ops' = ops \ {op}
            /\ stored' = IF Alone THEN known ELSE stored
            /\ Return(op)
    /\ UNCHANGED <<disk, known, listed, queue, idx, fresh, re>>

\* triggerEventsAndCache, up to the send of client.ts's file:changed listener.
Trigger(op) ==
    /\ op.kind \in {"read", "write"} /\ op.at = "got"
    /\ IF Alone /\ known[op.file] # op.time
       THEN /\ index' = [index EXCEPT ![op.file] = {}]
            /\ ops' = {[op EXCEPT !.at = "send"]}
            /\ UNCHANGED <<known, stored, worker>>
       ELSE /\ ops' = ops \ {op}
            /\ stored' = IF Alone THEN known ELSE stored
            /\ Return(op)
            /\ UNCHANGED <<known, index>>
    /\ UNCHANGED <<disk, listed, queue, version, marker, fresh, re>>

SendChanged(op) ==
    /\ op.kind \in {"read", "write"} /\ op.at = "send"
    /\ Send(op.file)
    /\ known' = [known EXCEPT ![op.file] = op.time]
    /\ stored' = known'
    /\ ops' = ops \ {op}
    /\ Return(op)
    /\ UNCHANGED <<disk, listed, idx, fresh, re>>

\* deleteFile, after the file is gone: the file:deleted listener and the snapshot.
EndDelete(op) ==
    /\ op.kind = "delete"
    /\ index' = [index EXCEPT ![op.file] = {}]
    /\ stored' = known
    /\ ops' = ops \ {op}
    /\ UNCHANGED <<disk, known, listed, queue, version, marker, job>>

ListFile(op, f) ==
    /\ op.kind = "list" /\ op.at = "got"
    /\ op.saw[f] # 0 /\ Place(f, {g \in op.todo : op.saw[g] # 0}) = 1
    /\ known' = [known EXCEPT ![f] = op.saw[f]]
    /\ IF known[f] = op.saw[f]
       THEN /\ ops' = (ops \ {op}) \cup {[op EXCEPT !.todo = @ \ {f}]}
            /\ UNCHANGED index
       ELSE /\ ops' = (ops \ {op}) \cup {[op EXCEPT !.at = "send", !.file = f]}
            /\ index' = [index EXCEPT ![f] = {}]
    /\ UNCHANGED <<disk, stored, listed, queue, version, marker, job>>

SendListed(op) ==
    /\ op.kind = "list" /\ op.at = "send"
    /\ Send(op.file)
    /\ ops' = (ops \ {op}) \cup {[op EXCEPT !.at = "got", !.todo = @ \ {op.file}]}
    /\ UNCHANGED <<disk, known, stored, listed, idx, job>>

\* The files of the snapshot that the listing does not name, after all others.
ListDeleted(op, f) ==
    /\ op.kind = "list" /\ op.at = "got" /\ f \in op.todo
    /\ \A g \in op.todo : op.saw[g] = 0
    /\ known' = [known EXCEPT ![f] = 0]
    /\ index' = [index EXCEPT ![f] = {}]
    /\ ops' = (ops \ {op}) \cup {[op EXCEPT !.todo = @ \ {f}]}
    /\ UNCHANGED <<disk, stored, listed, queue, version, marker, job>>

EndList(op) ==
    /\ op.kind = "list" /\ op.todo = {}
    /\ listed' = TRUE
    /\ stored' = known
    /\ ops' = ops \ {op}
    /\ UNCHANGED <<disk, known, queue, idx, job>>

Operate(op) ==
    /\ \/ Trigger(op) \/ SendChanged(op) \/ EndDelete(op) \/ SendListed(op) \/ EndList(op)
       \/ \E f \in op.todo : ListFile(op, f) \/ ListDeleted(op, f)
    /\ UNCHANGED <<used, ghosts>>

\* A listing that finds operations in flight is deferred until there are none.
FetchFileList ==
    /\ ops = {}
    /\ disk # known \/ ~listed
    /\ ops' = {[kind |-> "list", file |-> "none", time |-> 0, at |-> "got", saw |-> disk,
                todo |-> {f \in Files : disk[f] # 0 \/ known[f] # 0}]}
    /\ UNCHANGED <<disk, known, stored, listed, queue, idx, job, used, ghosts>>

(***************************************************************************)
(* The worker's callback: processIndexQueue                                *)
(***************************************************************************)
Op(kind, f, t) ==
    [kind |-> kind, file |-> f, time |-> t, at |-> "got", saw |-> disk, todo |-> {}]

\* A file that is gone fails the whole batch, which stays in processing.
ReadFile ==
    /\ worker.at = "ready"
    /\ LET f == Current.file
       IN  IF disk[f] = 0
           THEN worker' = Idle /\ UNCHANGED ops
           ELSE /\ worker' = [worker EXCEPT !.at = "reading"]
                /\ ops' = ops \cup {Op("read", f, disk[f])}
    /\ UNCHANGED <<disk, known, stored, listed, queue, idx, fresh, re, used, ghosts>>

IndexObjects ==
    /\ worker.at = "read"
    /\ index' = [index EXCEPT ![Current.file] = @ \cup {worker.read}]
    /\ worker' = [worker EXCEPT !.at = IF worker.left = {Current} THEN "done" ELSE "ready",
                                !.left = @ \ {Current}]
    /\ UNCHANGED <<space, queue, version, marker, fresh, re, used, ghosts>>

BatchAck ==
    /\ worker.at = "done"
    /\ processing' = {m \in processing : m.id \notin Ids(worker.batch)}
    /\ worker' = Idle
    /\ UNCHANGED <<space, queued, seq, held, late, idx, fresh, re, used, ghosts>>

\* An indexer throws.
CallbackFails ==
    /\ worker.at = "read"
    /\ Trouble
    /\ worker' = Idle
    /\ UNCHANGED <<space, queue, idx, fresh, re, ghosts>>

(***************************************************************************)
(* The full reindex                                                        *)
(***************************************************************************)
At(step) == re' = [re EXCEPT !.at = step]
NoReindex == [at |-> "no", saw |-> [f \in Files |-> 0], upto |-> 0]

\* On every completed sync: an index of an older version, or a reindex that was
\* interrupted after it deleted the version.
EnsureFullIndex ==
    /\ re.at = "no"
    /\ version = "old" \/ (version = "none" /\ marker)
    /\ At("drain")
    /\ UNCHANGED <<space, queue, idx, worker, fresh, used, ghosts>>

\* The command Space: Reindex.
ReindexSpace ==
    /\ re.at = "no"
    /\ Trouble
    /\ At("mark")
    /\ UNCHANGED <<space, queue, idx, worker, fresh, ghosts>>

\* isQueueEmpty counts the queued messages, then those in processing.
CountQueued ==
    /\ re.at \in {"drain", "await"} /\ queued = {}
    /\ At(IF re.at = "drain" THEN "drained" ELSE "awaited")
    /\ UNCHANGED idx

\* Mutant of CountProcessing: a message a worker took counts as done.
CountQueuedOnly ==
    /\ re.at \in {"drained", "awaited"}
    /\ At(IF re.at = "awaited" THEN "complete" ELSE IF version = "current" THEN "no" ELSE "mark")
    /\ UNCHANGED idx

CountProcessing ==
    /\ re.at \in {"drained", "awaited"}
    /\ \/ processing # {} /\ At(IF re.at = "drained" THEN "drain" ELSE "await")
       \/ processing = {} /\ re.at = "awaited" /\ At("complete")
       \/ processing = {} /\ re.at = "drained" /\ At(IF version = "current" THEN "no" ELSE "mark")
    /\ UNCHANGED idx

MarkReindexInProgress ==
    /\ re.at = "mark" /\ marker' = TRUE /\ At("clear")
    /\ UNCHANGED <<index, version>>

ClearIndex ==
    /\ re.at = "clear" /\ index' = [f \in Files |-> {}] /\ At("unversion")
    /\ UNCHANGED <<version, marker>>

MarkFullIndexInComplete ==
    /\ re.at = "unversion" /\ version' = "none" /\ At("queue")
    /\ UNCHANGED <<index, marker>>

MarkFullIndexComplete ==
    /\ re.at = "complete" /\ version' = "current" /\ At("unmark")
    /\ UNCHANGED <<index, marker>>

Unmark ==
    /\ re.at = "unmark" /\ marker' = FALSE /\ re' = NoReindex
    /\ UNCHANGED <<index, version>>

\* batchSend of every file there is; that its own listing may announce changes is
\* FetchFileList's doing.
QueueFiles ==
    LET all == {f \in Files : disk[f] # 0}
    IN  /\ re.at = "queue"
        /\ queued' = queued \cup {[id |-> seq + Place(f, all), file |-> f, tries |-> 0] : f \in all}
        /\ seq' = seq + Cardinality(all)
        /\ re' = [at |-> "await", saw |-> disk, upto |-> seq']
        /\ late' = {m.file : m \in held}
        /\ UNCHANGED <<processing, held, idx>>

Reindex ==
    /\ \/ /\ \/ CountQueued \/ CountProcessing \/ MarkReindexInProgress \/ ClearIndex
             \/ MarkFullIndexInComplete \/ MarkFullIndexComplete \/ Unmark
          /\ UNCHANGED queue
       \/ QueueFiles
    /\ UNCHANGED <<space, worker, fresh, used, ghosts>>

(***************************************************************************)
(* Users, other clients through the sync engine, and closed windows         *)
(***************************************************************************)
Changed(f, t) ==
    /\ Spend("edits", MaxEdits)
    /\ disk' = [disk EXCEPT ![f] = t]
    /\ raced' = IF Holds(f) THEN raced \cup {f} ELSE raced
    /\ UNCHANGED <<stored, listed, queue, idx, job, dropped, cut>>

NewVersion == 2 + used.edits

WriteFile(f) ==
    /\ Changed(f, NewVersion)
    /\ ops' = ops \cup {Op("write", f, NewVersion)}
    /\ UNCHANGED known

DeleteFile(f) ==
    /\ disk[f] # 0
    /\ Changed(f, 0)
    /\ ops' = ops \cup {Op("delete", f, 0)}
    /\ known' = [known EXCEPT ![f] = 0]

ChangedElsewhere(f) ==
    /\ \E t \in {0, NewVersion} : disk[f] # t /\ Changed(f, t)
    /\ UNCHANGED <<ops, known>>

\* Where a closed window is not made up for: a reindex that cleared the index and has
\* not queued the files, when the version still says current or once the listener for
\* the first empty queue has set it; a requeue between its two writes; and a change
\* whose listener has not sent it, when another operation saved the snapshot.
Unresumed ==
    \/ held # {}
    \/ re.at = "queue"
    \/ re.at = "unversion" /\ version # "old"
    \/ \E op \in ops : op.at = "send" /\ stored[op.file] = known[op.file] /\ op.kind = "list"

\* Files with objects that the saved snapshot does not know: indexed before the listing
\* that found them ended, or deleted and saved before their objects were cleared.
Unknown == {f \in Files : stored[f] = 0 /\ index[f] # {}}

Restart ==
    /\ Trouble
    /\ cut' = (cut \/ Unresumed)
    /\ raced' = raced \cup Unknown
    /\ known' = stored
    /\ ops' = {} /\ listed' = FALSE /\ held' = {}
    /\ worker' = Idle
    /\ fresh' = (version = "none")
    /\ re' = NoReindex /\ late' = {}
    /\ UNCHANGED <<disk, stored, queued, processing, seq, idx, dropped>>

(***************************************************************************)
(* A fresh install, and an index of this version or of an older one.        *)
(***************************************************************************)
None == [f \in Files |-> 0]

Init ==
    /\ disk = [f \in Files |-> 1]
    /\ \/ known = None /\ index = [f \in Files |-> {}] /\ version = "none"
       \/ known = disk /\ index = [f \in Files |-> {1}] /\ version \in {"old", "current"}
    /\ stored = known
    /\ fresh = (version = "none")
    /\ ops = {} /\ listed = FALSE
    /\ queued = {} /\ processing = {} /\ held = {} /\ seq = 0
    /\ worker = Idle
    /\ marker = FALSE
    /\ re = NoReindex
    /\ used = [edits |-> 0, troubles |-> 0]
    /\ raced = {} /\ late = {} /\ dropped = {} /\ cut = FALSE

Work ==
    \/ Poll \/ Unqueue \/ PollEmpty \/ EmptyQueueHandler
    \/ ReadFile \/ IndexObjects \/ BatchAck

Next ==
    \/ Work \/ CallbackFails
    \/ Requeued
    \/ RequeueFailed \/ RequeueSlow
    \/ \E op \in ops : Operate(op)
    \/ FetchFileList
    \/ EnsureFullIndex \/ ReindexSpace \/ Reindex
    \/ \E f \in Files : WriteFile(f) \/ DeleteFile(f) \/ ChangedElsewhere(f)
    \/ Restart

\* Loops and promises run; listings are repeated, and deferred until they can be
\* made; requeueTimeouts and the sync that checks the index are on timers.
Spec ==
    /\ Init /\ [][Next]_vars
    /\ WF_vars(Work) /\ WF_vars(Requeued) /\ WF_vars(Reindex) /\ WF_vars(EnsureFullIndex)
    /\ WF_vars(RequeueFailed)
    /\ WF_vars(\E op \in ops : Operate(op))
    /\ SF_vars(FetchFileList)

(***************************************************************************)
(* Properties                                                              *)
(***************************************************************************)
Indexed(f) == disk[f] # 0 => disk[f] \in index[f]

\* Once files stop changing, the objects of every file are those of its content;
\* unless a window was closed where nothing resumes (see Restart).
IndexedInTheEnd == <>[](~cut => \A f \in Files \ dropped : Indexed(f))

\* The same, wherever the window was closed.
InterruptedReindexResumes == <>[](\A f \in Files : Indexed(f))

\* No objects of an older version or of a deleted file stay in the index, unless the
\* file changed while the worker was reading or parsing it.
NoGhosts ==
    <>[](\A f \in Files \ raced : index[f] \subseteq {disk[f]})

\* A message of f that is yet to be read, or that an operation is about to send.
Pending(f) ==
    \/ \E m \in queued \cup processing \cup held \cup worker.left : m.file = f
    \/ \E op \in ops : op.at = "send" /\ op.file = f

\* What the snapshot in the database says was seen is in the index or on its way:
\* a closed window loses no change.
SeenIsQueued ==
    \A f \in Files :
        stored[f] = disk[f] /\ disk[f] # 0 /\ disk[f] \notin index[f] =>
            \/ Pending(f)
            \/ re.at \in {"unversion", "queue"}
            \/ version = "old"
            \/ f \in dropped \/ cut

\* When a reindex says the index is complete, every file it queued was indexed
\* since, unless the file changed or one of its messages timed out.
CompleteMeansIndexed ==
    [][re.at = "complete" /\ re'.at = "unmark" =>
        \A f \in Files :
            \/ re.saw[f] = 0 \/ re.saw[f] # disk[f] \/ known[f] # disk[f]
            \/ re.saw[f] \in index[f]
            \/ f \in late
            \/ \E m \in queued \cup processing : m.file = f /\ m.id > re.upto
            \/ \E op \in ops : op.at = "send" /\ op.file = f]_vars
=============================================================================
