----------------------------- MODULE Client_proofs -----------------------------
(***************************************************************************)
(* Theorems about the SilverBullet client.  The object index (SpaceIndex),  *)
(* for any files, sizes of a batch and numbers of retries, changes and       *)
(* closed windows: a change the saved snapshot knows of is in the index or   *)
(* on its way there, and a reindex that says it is complete has indexed what *)
(* it queued.  The page editor (PageEditor), for any pages and any number of *)
(* events: what the title, the address and the editor show, and whose text   *)
(* is written where.                                                         *)
(***************************************************************************)
EXTENDS SpaceIndex, PageEditor, FiniteSetTheorems, FunctionTheorems, WellFoundedInduction, TLAPS

----------------------------------------
(* The inductive invariant *)

\* A message of the queue.
Messages == [id : Nat \ {0}, file : Files, tries : Nat]

\* An operation of the evented space.
Operations ==
    [kind : {"read", "write", "delete", "list"}, file : Files \cup {"none"}, time : Nat,
     at : {"got", "send"}, saw : [Files -> Nat], todo : SUBSET Files]

\* Where the worker is while it has a batch.
Busy == {"polled", "ready", "reading", "read", "done"}

\* Every message there is.
All == queued \cup processing \cup held \cup worker.batch

\* Types.
TypeOK ==
    /\ used \in [edits : Nat, troubles : Nat] /\ seq \in Nat
    /\ {disk, known, stored} \subseteq [Files -> Nat]
    /\ index \in [Files -> SUBSET Nat]
    /\ All \subseteq Messages
    /\ worker \in [at : Busy \cup {"idle", "empty"}, batch : SUBSET Messages,
                   left : SUBSET Messages, read : Nat]
    /\ ops \subseteq Operations /\ IsFiniteSet(ops)
    /\ version \in {"none", "old", "current"} /\ {fresh, listed, marker, cut} \subseteq BOOLEAN
    /\ re \in [at : {"no", "drain", "drained", "mark", "clear", "unversion", "queue", "await",
                     "awaited", "complete", "unmark"},
               saw : [Files -> Nat], upto : Nat]

\* What operation o tells the evented space about file f: its version is t.
Tells(o, f, t) ==
    IF o.kind = "list" THEN f \in o.todo /\ t = o.saw[f] ELSE f = o.file /\ t = o.time

\* The next version is a new one.
NewerOK ==
    /\ \A f \in Files : disk[f] < NewVersion /\ known[f] < NewVersion /\ stored[f] < NewVersion
    /\ \A o \in ops : o.time < NewVersion /\ \A f \in Files : o.saw[f] < NewVersion

\* A number is one file's; the worker has its batch in processing until it took it out of
\* the queue, and what is left of it until it is done.
QueueOK ==
    /\ \A m \in All : m.id <= seq
    /\ \A m, n \in All : m.id = n.id => m.file = n.file
    /\ worker.left \subseteq worker.batch
    /\ worker.at \in {"idle", "empty"} => worker.batch = {}
    /\ worker.at = "polled" => worker.batch \subseteq processing /\ worker.left = worker.batch
    /\ worker.at \in Busy => (worker.left = {} <=> worker.at = "done")

\* The one read is the worker's, of the file it is at.
ReadOK ==
    \A o \in ops : Reads(o) =>
        /\ worker.at = "reading" /\ o.file = Current.file
        /\ \A p \in ops : Reads(p) => o = p

\* A listing is the only one, and so is an operation that sends, which no listing
\* accompanies; known versions are saved unless an operation will save them.
OpsOK ==
    /\ \A o, p \in ops : o.kind = "list" /\ p.kind = "list" => o = p
    /\ \A o, p \in ops : o.at = "send" /\ (p.at = "send" \/ p.kind = "list") => o = p
    /\ (\A o \in ops : o.kind \notin {"list", "delete"}) => stored = known

\* Nobody has seen what file f is now.
Unseen(f) == disk[f] \notin {known[f], stored[f]}

\* While an operation is in flight that saw a file before its last change, nobody announces
\* that change.
BehindOK(o) ==
    \A f \in Files : disk[f] # 0 => \A t \in Nat \ {disk[f]} : Tells(o, f, t) =>
        /\ Unseen(f)
        /\ \A p \in ops : p.at = "send" \/ p.kind = "list" => ~Tells(p, f, disk[f])

\* The file an operation sends; a delete does not.
SendOK(o) ==
    /\ o.kind # "list" => o.file \in Files
    /\ o.kind = "delete" => o.at = "got" /\ o.time = 0
    /\ o.kind \in {"read", "write"} /\ o.at = "send" /\ disk[o.file] # 0 => Unseen(o.file)
    /\ o.kind = "list" /\ o.at = "send" =>
          /\ o.file \in o.todo
          /\ disk[o.file] # 0 /\ disk[o.file] = stored[o.file] => known[o.file] = stored[o.file]

\* What the worker read is not what the file is now.
Stale ==
    \/ worker.at = "read" /\ worker.read # disk[Current.file]
    \/ \E o \in ops : Reads(o) /\ o.time # disk[o.file]

\* The messages of the batch that will not bring the file into the index any more.
Spent == (worker.batch \ worker.left) \cup (IF Stale THEN {Current} ELSE {})

\* What is in processing and the worker is not past.
Ahead == {m \in processing : m.id \notin Ids(Spent)}

\* Among the messages S, one of f is later than n.
Has(S, f, n) == \E m \in S : m.file = f /\ m.id > n

\* One is about to be sent.
Sending(f) == \E o \in ops : o.at = "send" /\ o.file = f

\* The index does not have what somebody saw of f.
Lacks(f) == disk[f] # 0 /\ disk[f] \in {known[f], stored[f]} /\ disk[f] \notin index[f]

\* What makes up for it other than a message.
Excused(f) == re.at \in {"unversion", "queue"} \/ version = "old" \/ f \in dropped \/ cut

\* What the index lacks is on its way.
SeenOK(f) == Lacks(f) =>
    \/ Has(queued, f, 0) \/ Has(Ahead, f, 0) \/ Has(held, f, 0)
    \/ Sending(f) \/ Excused(f)

\* A reindex waits for the queue to be empty, and then says it is complete.
Awaits == re.at \in {"await", "awaited", "complete"}

\* What a reindex queued is not in the index.
Unindexed(f) ==
    /\ re.saw[f] = disk[f] /\ disk[f] # 0 /\ known[f] = disk[f]
    /\ disk[f] \notin index[f] /\ f \notin late

\* It waits for what is on its way; having seen the queue empty, for what was taken, and
\* after that only for what came later.
ReindexOK(f) ==
    Awaits /\ Unindexed(f) =>
        \/ Has(queued, f, IF re.at = "await" THEN 0 ELSE re.upto)
        \/ Has(Ahead, f, IF re.at = "complete" THEN re.upto ELSE 0)
        \/ Sending(f)

\* The index is old until a listing or a reindex begins; what timed out during a reindex
\* is late.
VersionOK ==
    /\ fresh \/ worker.at = "empty" => version # "old"
    /\ Awaits \/ re.at \in {"queue", "unmark"} => version # "old"
    /\ re.upto <= seq
    /\ Awaits => \A m \in held : m.file \in late \/ re.saw[m.file] = 0
    /\ Awaits /\ re.upto = 0 => \A f \in Files : re.saw[f] = 0

\* The inductive invariant.
IInv ==
    /\ TypeOK /\ NewerOK /\ QueueOK /\ ReadOK /\ OpsOK /\ VersionOK
    /\ \A o \in ops : BehindOK(o) /\ SendOK(o)
    /\ \A f \in Files : SeenOK(f) /\ ReindexOK(f)

----------------------------------------
(* Lemmas about messages *)

\* A set of numbers that is not empty has a least one.
LEMMA Least ==
    ASSUME NEW S, S \subseteq Nat, S # {}
    PROVE  \E x \in S : \A y \in S : x <= y
<1>1. PICK x \in S : \A y \in S : <<y, x>> \notin OpToRel(<, Nat)
  BY NatLessThanWellFounded, WFMin, Zenon
<1>2. \A y \in S : ~(y < x)
  BY <1>1 DEF OpToRel
<1> QED
  BY <1>2

\* Some message comes first.
LEMMA First ==
    ASSUME NEW S, S \subseteq Messages, S # {}
    PROVE  \E m \in S : \A n \in S : m.id <= n.id
<1>1. Ids(S) \subseteq Nat /\ Ids(S) # {}
  BY DEF Ids, Messages
<1>2. PICK x \in Ids(S) : \A y \in Ids(S) : x <= y
  BY <1>1, Least
<1> QED
  BY <1>2 DEF Ids

\* The message the worker is at is of what is left of its batch.
LEMMA CurrentIsLeft ==
    ASSUME TypeOK, worker.left # {}
    PROVE  Current \in worker.left /\ Current \in Messages
<1>1. worker.left \subseteq Messages
  BY DEF TypeOK
<1> QED
  BY <1>1, First DEF Current

\* A batch of a queue that is not empty has a message.
LEMMA BatchHasOne == ASSUME TypeOK, queued # {} PROVE Batch # {} /\ Batch \subseteq queued
<1>1. queued \subseteq Messages
  BY DEF TypeOK, All
<1>2. PICK m \in queued : \A n \in queued : m.id <= n.id
  BY <1>1, First
<1>3. {n \in queued : n.id < m.id} = {}
  BY <1>1, <1>2 DEF Messages
<1>4. Cardinality({n \in queued : n.id < m.id}) < BatchSize
  BY <1>3, FS_EmptySet, IndexAssumption
<1> QED
  BY <1>4 DEF Batch

\* Of the messages of a set, one is later than what another set's is.
LEMMA HasMore ==
    ASSUME NEW S, NEW T, S \subseteq T, S \subseteq Messages, NEW f, NEW n \in Nat, NEW k \in Nat, k <= n,
           Has(S, f, n)
    PROVE  Has(T, f, k)
BY DEF Has, Messages

----------------------------------------
(* Lemmas about steps *)

\* No message of f is lost: it may be taken, time out, be queued again or be dropped, and
\* one that an operation was about to send is sent.
Kept(f) ==
    /\ \A n \in Nat : Has(queued, f, n) => Has(queued', f, n) \/ Has(Ahead', f, n)
    /\ \A n \in Nat : Has(Ahead, f, n) =>
          \/ Has(Ahead', f, n)
          \/ Has(held', f, 0) /\ (re.upto # 0 => f \in late')
    /\ Has(held, f, 0) => Has(held', f, 0) \/ Has(queued', f, 0) \/ f \in dropped'
    /\ Sending(f) => Sending(f)' \/ Has(queued', f, seq)

\* A step that loses no message of a file keeps what is promised of it.
LEMMA Carried ==
    ASSUME IInv, TypeOK', NEW f \in Files, Kept(f), re' = re,
           Lacks(f)' => Lacks(f) \/ Sending(f)' \/ Has(queued', f, seq),
           Unindexed(f)' => Unindexed(f) \/ Sending(f)' \/ Has(queued', f, seq),
           Excused(f) => Excused(f)' \/ Has(queued', f, seq)
    PROVE  SeenOK(f)' /\ ReindexOK(f)'
<1>1. /\ seq \in Nat /\ queued' \subseteq Messages /\ re.upto \in Nat /\ re.upto <= seq
      /\ queued \subseteq Messages /\ Ahead \subseteq Messages /\ Ahead' \subseteq Messages
  BY DEF IInv, TypeOK, VersionOK, All, Ahead
<1>2. Has(queued', f, seq) => Has(queued', f, 0) /\ Has(queued', f, re.upto)
  BY <1>1, HasMore
<1>3. SeenOK(f)'
  <2>1. SUFFICES ASSUME Lacks(f)'
                 PROVE  \/ Has(queued', f, 0) \/ Has(Ahead', f, 0) \/ Has(held', f, 0)
                        \/ Sending(f)' \/ Excused(f)'
    BY DEF SeenOK
  <2>2. f \in dropped' => Excused(f)'
    BY DEF Excused
  <2>3. Lacks(f) => \/ Has(queued, f, 0) \/ Has(Ahead, f, 0) \/ Has(held, f, 0)
                   \/ Sending(f) \/ Excused(f)
    BY DEF IInv, SeenOK
  <2> QED
    BY <1>2, <2>1, <2>2, <2>3 DEF Kept
<1>4. ASSUME Awaits', Unindexed(f)'
      PROVE  \/ Has(queued', f, IF re.at = "await" THEN 0 ELSE re.upto)
             \/ Has(Ahead', f, IF re.at = "complete" THEN re.upto ELSE 0)
             \/ Sending(f)'
  <2>1. Awaits /\ re.saw[f] # 0 /\ f \notin late'
    BY <1>4 DEF Awaits, Unindexed
  <2>2. re.upto # 0
    BY <2>1 DEF IInv, VersionOK
  <2> DEFINE q == IF re.at = "await" THEN 0 ELSE re.upto
             t == IF re.at = "complete" THEN re.upto ELSE 0
  <2>3. q \in Nat /\ t \in Nat /\ t <= q /\ (q = 0 \/ q = re.upto)
    BY <1>1
  <2>4. Unindexed(f) => Has(queued, f, q) \/ Has(Ahead, f, t) \/ Sending(f)
    BY <2>1 DEF IInv, ReindexOK
  <2> HIDE DEF q, t
  <2>5. Has(queued', f, seq) => Has(queued', f, q)
    BY <1>2, <2>3
  <2>6. Has(Ahead', f, q) => Has(Ahead', f, t)
    BY <1>1, <2>3, HasMore
  <2>7. Has(queued', f, q) \/ Has(Ahead', f, t) \/ Sending(f)'
    BY <1>4, <2>4, <2>5, <2>6, <2>1, <2>2, <2>3 DEF Kept
  <2> QED
    BY <2>7 DEF q, t
<1> QED
  BY <1>3, <1>4 DEF ReindexOK

\* What the evented space knows stays right while nobody operates on it.
LEMMA SpaceSame ==
    ASSUME IInv, UNCHANGED <<disk, known, stored, ops>>, used'.edits = used.edits
    PROVE  NewerOK' /\ OpsOK' /\ \A o \in ops' : BehindOK(o)' /\ SendOK(o)'
<1>1. NewerOK'
  BY DEF IInv, NewerOK, NewVersion
<1>2. OpsOK'
  BY DEF IInv, OpsOK
<1>3. \A o \in ops' : BehindOK(o)'
  BY DEF IInv, BehindOK, Tells, Unseen
<1>4. \A o \in ops' : SendOK(o)'
  BY DEF IInv, SendOK, Unseen
<1> QED
  BY <1>1, <1>2, <1>3, <1>4

\* The messages stay right while nobody touches them.
LEMMA QueueSame ==
    ASSUME IInv, UNCHANGED <<queued, processing, held, seq, worker>>
    PROVE  QueueOK'
BY DEF IInv, QueueOK, All

\* So does the version while only messages move.
LEMMA VersionSame ==
    ASSUME IInv, UNCHANGED <<re, held, late, version>>, seq' \in Nat, seq <= seq',
           fresh' => fresh, worker'.at = "empty" => fresh \/ worker.at = "empty"
    PROVE  VersionOK'
<1>1. seq \in Nat /\ re.upto \in Nat
  BY DEF IInv, TypeOK
<1> QED
  BY <1>1 DEF IInv, VersionOK, Awaits

\* Nothing of the batch is spent when there is none, or none of it was indexed.
LEMMA NothingSpent ==
    ASSUME worker.at # "read", \A o \in ops : ~Reads(o), worker.left = worker.batch
    PROVE  Spent = {} /\ Ahead = processing
BY DEF Spent, Stale, Ahead, Ids

\* The same after a step.
LEMMA NothingSpentNext ==
    ASSUME worker'.at # "read", \A o \in ops' : ~Reads(o), worker'.left = worker'.batch
    PROVE  Spent' = {} /\ Ahead' = processing'
<1>1. ~Stale'
  BY DEF Stale, Reads
<1>2. Spent' = {}
  BY <1>1 DEF Spent
<1> QED
  BY <1>2 DEF Ahead, Ids

\* What is ahead of the worker stays so while it is where it was.
LEMMA AheadSame ==
    ASSUME worker'.batch = worker.batch, worker'.left = worker.left, processing' = processing,
           Stale' => Stale
    PROVE  Ahead \subseteq Ahead'
<1>1. Current' = Current
  BY DEF Current
<1>2. Spent' \subseteq Spent
  BY <1>1 DEF Spent
<1> QED
  BY <1>2 DEF Ahead, Ids

\* A step that keeps the messages loses none.
LEMMA KeptSame ==
    ASSUME IInv, NEW f, queued \subseteq queued', Ahead \subseteq Ahead',
           held' = held, Sending(f) => Sending(f)' \/ Has(queued', f, seq)
    PROVE  Kept(f)
BY DEF Kept, Has

\* Nothing of the space, the index or the job makes up less than before.
LEMMA CarriedSame ==
    ASSUME IInv, TypeOK', NEW f \in Files, Kept(f),
           UNCHANGED <<disk, known, stored, index, re>>, late \subseteq late',
           Excused(f) => Excused(f)'
    PROVE  SeenOK(f)' /\ ReindexOK(f)'
<1>1. Lacks(f)' => Lacks(f)
  BY DEF Lacks
<1>2. Unindexed(f)' => Unindexed(f)
  BY DEF Unindexed
<1> QED
  BY <1>1, <1>2, Carried

----------------------------------------
(* Steps of the queue worker *)

\* Poll.
LEMMA PollKeeps == ASSUME IInv, Poll PROVE IInv'
<1>1. /\ worker.at = "idle" /\ worker.batch = {} /\ queued # {}
      /\ worker' = [at |-> "polled", batch |-> Batch, left |-> Batch, read |-> 0]
      /\ processing' = {m \in processing : m.id \notin Ids(Batch)} \cup Batch
      /\ UNCHANGED <<disk, known, stored, ops, listed, queued, seq, held, late>>
      /\ UNCHANGED <<index, version, marker, fresh, re, used, raced, dropped, cut>>
  BY DEF Poll, space, idx, ghosts, IInv, QueueOK
<1>2. Batch # {} /\ Batch \subseteq queued
  BY <1>1, BatchHasOne DEF IInv
<1>3. All' \subseteq All
  BY <1>1, <1>2 DEF All
<1>4. TypeOK'
  <2>1. TypeOK
    BY DEF IInv
  <2>2. Batch \in SUBSET Messages
    BY <1>2, <2>1 DEF TypeOK, All
  <2>3. worker' \in [at : Busy \cup {"idle", "empty"}, batch : SUBSET Messages,
                     left : SUBSET Messages, read : Nat]
    BY <1>1, <2>2 DEF Busy
  <2> QED
    BY <1>1, <1>3, <2>1, <2>3 DEF TypeOK
<1>5. QueueOK'
  <2>1. \A m, n \in All' : m.id <= seq' /\ (m.id = n.id => m.file = n.file)
    BY <1>1, <1>3 DEF IInv, QueueOK
  <2> QED
    BY <1>1, <1>2, <2>1 DEF QueueOK, Busy
<1>6. ReadOK' /\ \A o \in ops : ~Reads(o)
  BY <1>1 DEF IInv, ReadOK
<1>7. VersionOK'
  BY <1>1, <1>4, VersionSame DEF TypeOK, IInv
<1>8. ASSUME NEW f \in Files
      PROVE  SeenOK(f)' /\ ReindexOK(f)'
  <2>1. Ahead = processing /\ Ahead' = processing'
    <3>1. worker.left = worker.batch
      BY <1>1 DEF IInv, QueueOK
    <3> QED
      BY <1>1, <1>6, <3>1, NothingSpent, NothingSpentNext
  <2>2. ASSUME NEW n \in Nat, Has(processing, f, n)
        PROVE  Has(processing', f, n)
    <3>1. PICK m \in processing : m.file = f /\ m.id > n
      BY <2>2 DEF Has
    <3>2. CASE m.id \in Ids(Batch)
      <4>1. PICK b \in Batch : b.id = m.id
        BY <3>2 DEF Ids
      <4>2. b.file = f
        BY <1>2, <3>1, <4>1 DEF IInv, QueueOK, All
      <4> QED
        BY <1>1, <3>1, <4>1, <4>2 DEF Has
    <3> QED
      BY <1>1, <3>1, <3>2 DEF Has
  <2>3. Kept(f)
    BY <1>1, <2>1, <2>2 DEF Kept, Sending
  <2>4. Excused(f)'  <=> Excused(f)
    BY <1>1 DEF Excused
  <2> QED
    BY <1>1, <1>4, <2>3, <2>4, CarriedSame
<1> QED
  BY <1>1, <1>4, <1>5, <1>6, <1>7, <1>8, SpaceSame DEF IInv

\* Unqueue: what leaves the queue is in processing.
LEMMA UnqueueKeeps == ASSUME IInv, Unqueue PROVE IInv'
<1>1. /\ worker.at = "polled" /\ worker.batch \subseteq processing /\ worker.left = worker.batch
      /\ queued' = {m \in queued : m.id \notin Ids(worker.batch)}
      /\ worker' = [worker EXCEPT !.at = "ready"]
      /\ UNCHANGED <<disk, known, stored, ops, listed, processing, seq, held, late>>
      /\ UNCHANGED <<index, version, marker, fresh, re, used, raced, dropped, cut>>
  BY DEF Unqueue, space, idx, ghosts, IInv, QueueOK
<1>2. /\ worker'.at = "ready" /\ worker'.batch = worker.batch /\ worker'.left = worker.left
      /\ worker' \in [at : Busy \cup {"idle", "empty"}, batch : SUBSET Messages,
                     left : SUBSET Messages, read : Nat]
  BY <1>1 DEF IInv, TypeOK, Busy
<1>3. All' \subseteq All
  BY <1>1, <1>2 DEF All
<1>4. TypeOK'
  BY <1>1, <1>2, <1>3 DEF IInv, TypeOK
<1>5. QueueOK'
  <2>1. \A m, n \in All' : m.id <= seq' /\ (m.id = n.id => m.file = n.file)
    BY <1>1, <1>3 DEF IInv, QueueOK
  <2> QED
    BY <1>1, <1>2, <2>1 DEF IInv, QueueOK, Busy
<1>6. ReadOK' /\ \A o \in ops : ~Reads(o)
  BY <1>1 DEF IInv, ReadOK
<1>7. VersionOK'
  BY <1>1, <1>2, <1>4, VersionSame DEF TypeOK, IInv
<1>8. ASSUME NEW f \in Files
      PROVE  SeenOK(f)' /\ ReindexOK(f)'
  <2>1. Ahead = processing /\ Ahead' = processing'
    BY <1>1, <1>2, <1>6, NothingSpent, NothingSpentNext
  <2>2. ASSUME NEW n \in Nat, Has(queued, f, n)
        PROVE  Has(queued', f, n) \/ Has(processing, f, n)
    <3>1. PICK m \in queued : m.file = f /\ m.id > n
      BY <2>2 DEF Has
    <3>2. CASE m.id \in Ids(worker.batch)
      <4>1. PICK b \in worker.batch : b.id = m.id
        BY <3>2 DEF Ids
      <4>2. b.file = f /\ b \in processing
        BY <1>1, <3>1, <4>1 DEF IInv, QueueOK, All
      <4> QED
        BY <3>1, <4>1, <4>2 DEF Has
    <3> QED
      BY <1>1, <3>1, <3>2 DEF Has
  <2>3. Kept(f)
    BY <1>1, <2>1, <2>2 DEF Kept, Sending
  <2>4. Excused(f)'  <=> Excused(f)
    BY <1>1 DEF Excused
  <2> QED
    BY <1>1, <1>4, <2>3, <2>4, CarriedSame
<1> QED
  BY <1>1, <1>4, <1>5, <1>6, <1>7, <1>8, SpaceSame DEF IInv

\* PollEmpty.
LEMMA PollEmptyKeeps == ASSUME IInv, PollEmpty PROVE IInv'
<1>1. /\ worker.at = "idle" /\ worker.batch = {} /\ fresh
      /\ worker' = [worker EXCEPT !.at = "empty"]
      /\ UNCHANGED <<disk, known, stored, ops, listed, queued, processing, seq, held, late>>
      /\ UNCHANGED <<index, version, marker, fresh, re, used, raced, dropped, cut>>
  BY DEF PollEmpty, space, queue, idx, ghosts, IInv, QueueOK
<1>2. /\ worker'.at = "empty" /\ worker'.batch = worker.batch /\ worker'.left = worker.left
      /\ worker' \in [at : Busy \cup {"idle", "empty"}, batch : SUBSET Messages,
                     left : SUBSET Messages, read : Nat]
  BY <1>1 DEF IInv, TypeOK, Busy
<1>3. All' = All
  BY <1>1, <1>2 DEF All
<1>4. TypeOK'
  BY <1>1, <1>2, <1>3 DEF IInv, TypeOK
<1>5. QueueOK'
  BY <1>1, <1>2, <1>3 DEF IInv, QueueOK, Busy
<1>6. ReadOK' /\ \A o \in ops : ~Reads(o)
  BY <1>1 DEF IInv, ReadOK
<1>7. VersionOK'
  BY <1>1, <1>2, <1>4, VersionSame DEF TypeOK, IInv
<1>8. ASSUME NEW f \in Files
      PROVE  SeenOK(f)' /\ ReindexOK(f)'
  <2>1. Ahead \subseteq Ahead'
    <3>1. Stale' => Stale
      BY <1>1, <1>2, <1>6 DEF Stale, Reads
    <3> QED
      BY <1>1, <1>2, <3>1, AheadSame
  <2>2. Kept(f)
    BY <1>1, <2>1, KeptSame DEF Sending
  <2>3. Excused(f)'  <=> Excused(f)
    BY <1>1 DEF Excused
  <2> QED
    BY <1>1, <1>4, <2>2, <2>3, CarriedSame
<1> QED
  BY <1>1, <1>4, <1>5, <1>6, <1>7, <1>8, SpaceSame DEF IInv

\* EmptyQueueHandler: the version it replaces is not an old one.
LEMMA EmptyQueueHandlerKeeps == ASSUME IInv, EmptyQueueHandler PROVE IInv'
<1>1. /\ worker.at = "empty" /\ worker.batch = {} /\ worker' = Idle
      /\ fresh' = (fresh /\ ~listed)
      /\ version' = IF listed THEN "current" ELSE version
      /\ marker' = (marker /\ ~listed)
      /\ UNCHANGED <<disk, known, stored, ops, listed, queued, processing, seq, held, late>>
      /\ UNCHANGED <<index, re, used, raced, dropped, cut>>
  BY DEF EmptyQueueHandler, space, queue, ghosts, IInv, QueueOK
<1>2. /\ worker'.at = "idle" /\ worker'.batch = {} /\ worker'.left = {}
      /\ worker' \in [at : Busy \cup {"idle", "empty"}, batch : SUBSET Messages,
                     left : SUBSET Messages, read : Nat]
  BY <1>1 DEF Idle
<1>3. All' = All
  BY <1>1, <1>2 DEF All
<1>4. version # "old" /\ version' # "old" /\ version' \in {"none", "old", "current"}
  BY <1>1 DEF IInv, VersionOK, TypeOK
<1>5. TypeOK'
  <2>1. {fresh, listed, marker, cut} \subseteq BOOLEAN
    BY DEF IInv, TypeOK
  <2>2. fresh' \in BOOLEAN /\ marker' \in BOOLEAN
    BY <1>1, <2>1
  <2> QED
    BY <1>1, <1>2, <1>3, <1>4, <2>1, <2>2 DEF IInv, TypeOK
<1>6. QueueOK'
  BY <1>1, <1>2, <1>3 DEF IInv, QueueOK, Busy
<1>7. ReadOK' /\ \A o \in ops : ~Reads(o)
  BY <1>1 DEF IInv, ReadOK
<1>8. VersionOK'
  BY <1>1, <1>2, <1>4 DEF VersionOK, IInv, Awaits
<1>9. ASSUME NEW f \in Files
      PROVE  SeenOK(f)' /\ ReindexOK(f)'
  <2>1. Ahead \subseteq Ahead'
    <3>1. worker'.left = worker'.batch /\ worker'.at # "read"
      BY <1>2
    <3>2. Ahead' = processing'
      BY <1>1, <1>7, <3>1, NothingSpentNext
    <3> QED
      BY <1>1, <3>2 DEF Ahead
  <2>2. Kept(f)
    BY <1>1, <2>1, KeptSame DEF Sending
  <2>3. Excused(f) => Excused(f)'
    BY <1>1, <1>4 DEF Excused
  <2> QED
    BY <1>1, <1>5, <2>2, <2>3, CarriedSame
<1> QED
  BY <1>1, <1>5, <1>6, <1>7, <1>8, <1>9, SpaceSame DEF IInv

\* RequeueFailed and RequeueSlow: what timed out is held, and late for a reindex.
LEMMA RequeueTimeoutsKeeps ==
    ASSUME IInv, NEW S, S \subseteq processing, RequeueTimeouts(S),
           used'.edits = used.edits, used' \in [edits : Nat, troubles : Nat],
           worker.at = "polled" => worker.batch \cap S = {}
    PROVE  IInv'
<1>1. /\ held = {} /\ processing' = processing \ S /\ held' = S
      /\ late' = IF re.upto = 0 THEN late ELSE late \cup {m.file : m \in S}
      /\ UNCHANGED <<disk, known, stored, ops, listed, queued, seq>>
      /\ UNCHANGED <<index, version, marker, worker, fresh, re, raced, dropped, cut>>
  BY DEF RequeueTimeouts, space, idx, job, ghosts
<1>2. All' = All
  BY <1>1 DEF All
<1>3. TypeOK'
  BY <1>1, <1>2 DEF IInv, TypeOK
<1>4. QueueOK'
  BY <1>1, <1>2 DEF IInv, QueueOK
<1>5. ReadOK'
  BY <1>1 DEF IInv, ReadOK, Current
<1>6. \A m \in S : m \in Messages
  BY DEF IInv, TypeOK, All
<1>7. VersionOK'
  <2>1. re.upto # 0 => \A m \in held' : m.file \in late'
    BY <1>1
  <2>2. Awaits' => \A m \in held' : m.file \in late' \/ re'.saw[m.file] = 0
    BY <1>1, <1>6, <2>1 DEF IInv, VersionOK, Awaits, Messages
  <2> QED
    BY <1>1, <2>2 DEF VersionOK, IInv, Awaits
<1>8. ASSUME NEW f \in Files
      PROVE  SeenOK(f)' /\ ReindexOK(f)'
  <2>1. Spent' = Spent
    BY <1>1 DEF Spent, Stale, Current
  <2>2. Ahead' = Ahead \ S
    BY <1>1, <2>1 DEF Ahead
  <2>3. ASSUME NEW n \in Nat, Has(Ahead, f, n)
        PROVE  \/ Has(Ahead', f, n)
               \/ Has(held', f, 0) /\ (re.upto # 0 => f \in late')
    <3>1. PICK m \in Ahead : m.file = f /\ m.id > n
      BY <2>3 DEF Has
    <3>2. CASE m \in S
      <4>1. Has(held', f, 0)
        BY <1>1, <1>6, <3>1, <3>2 DEF Has, Messages
      <4> QED
        BY <1>1, <3>1, <3>2, <4>1
    <3> QED
      BY <2>2, <3>1, <3>2 DEF Has
  <2>4. Kept(f)
    <3>1. ~Has(held, f, 0)
      BY <1>1 DEF Has
    <3> QED
      BY <1>1, <2>3, <3>1 DEF Kept, Sending
  <2>5. Excused(f)'  <=> Excused(f)
    BY <1>1 DEF Excused
  <2>6. late \subseteq late'
    BY <1>1
  <2> QED
    BY <1>1, <1>3, <2>4, <2>5, <2>6, CarriedSame
<1> QED
  BY <1>1, <1>3, <1>4, <1>5, <1>7, <1>8, SpaceSame DEF IInv

\* RequeueFailed, of what no batch in hand has.
LEMMA RequeueFailedKeeps == ASSUME IInv, RequeueFailed PROVE IInv'
<1> DEFINE S == processing \ InHand
<1>1. worker.batch \cap S = {}
  BY DEF InHand, Ids
<1>2. S \subseteq processing /\ RequeueTimeouts(S) /\ used' = used
  BY DEF RequeueFailed
<1>3. used \in [edits : Nat, troubles : Nat]
  BY DEF IInv, TypeOK
<1> HIDE DEF S
<1> QED
  BY <1>1, <1>2, <1>3, RequeueTimeoutsKeeps

\* Trouble is counted.
LEMMA Troubled ==
    ASSUME IInv, Trouble
    PROVE  used'.edits = used.edits /\ used' \in [edits : Nat, troubles : Nat]
<1>1. used \in [edits : Nat, troubles : Nat]
  BY DEF IInv, TypeOK
<1>2. used' = [used EXCEPT !["troubles"] = used["troubles"] + 1]
  BY DEF Trouble, Spend
<1> QED
  BY <1>1, <1>2

\* RequeueSlow.
LEMMA RequeueSlowKeeps == ASSUME IInv, RequeueSlow PROVE IInv'
<1>1. processing \subseteq processing
  OBVIOUS
<1>2. worker.at # "polled" /\ RequeueTimeouts(processing) /\ Trouble
  BY DEF RequeueSlow
<1> QED
  BY <1>1, <1>2, Troubled, RequeueTimeoutsKeeps

\* Requeued: what was held is queued again or dropped.
LEMMA RequeuedKeeps == ASSUME IInv, Requeued PROVE IInv'
<1> DEFINE again == {[m EXCEPT !.tries = @ + 1] : m \in {n \in held : n.tries < MaxRetries}}
<1>1. /\ held' = {}
      /\ queued' = {m \in queued : m.id \notin Ids(again)} \cup again
      /\ dropped' = dropped \cup {m.file : m \in {n \in held : n.tries >= MaxRetries}}
      /\ UNCHANGED <<disk, known, stored, ops, listed, processing, seq, late>>
      /\ UNCHANGED <<index, version, marker, worker, fresh, re, used, raced, cut>>
  BY DEF Requeued, space, idx, job
<1>2. held \subseteq Messages
  BY DEF IInv, TypeOK, All
<1>3. \A m \in held : LET n == [m EXCEPT !.tries = @ + 1]
                      IN  n \in Messages /\ n.id = m.id /\ n.file = m.file
  BY <1>2 DEF Messages
<1>4. \A m \in again : m \in Messages /\ \E n \in held : n.id = m.id /\ n.file = m.file
  BY <1>3
<1>5. \A m \in held : m.tries < MaxRetries => \E n \in again : n.id = m.id /\ n.file = m.file
  BY <1>3
<1> HIDE DEF again
<1>6. All' \subseteq Messages
  BY <1>1, <1>4 DEF IInv, TypeOK, All
<1>7. \A m \in All' : \E n \in All : n.id = m.id /\ n.file = m.file
  BY <1>1, <1>4 DEF All
<1>8. TypeOK'
  BY <1>1, <1>6 DEF IInv, TypeOK
<1>9. QueueOK'
  <2>1. \A m, n \in All' : m.id <= seq' /\ (m.id = n.id => m.file = n.file)
    BY <1>1, <1>7 DEF IInv, QueueOK
  <2> QED
    BY <1>1, <2>1 DEF IInv, QueueOK
<1>10. ReadOK'
  BY <1>1 DEF IInv, ReadOK, Current
<1>11. VersionOK'
  BY <1>1 DEF IInv, VersionOK, Awaits
<1>12. ASSUME NEW f \in Files
       PROVE  SeenOK(f)' /\ ReindexOK(f)'
  <2>1. Ahead' = Ahead
    BY <1>1 DEF Ahead, Spent, Stale, Current
  <2>2. ASSUME NEW n \in Nat, Has(queued, f, n)
        PROVE  Has(queued', f, n)
    <3>1. PICK m \in queued : m.file = f /\ m.id > n
      BY <2>2 DEF Has
    <3>2. CASE m.id \in Ids(again)
      <4>1. PICK b \in again : b.id = m.id
        BY <3>2 DEF Ids
      <4>2. PICK h \in held : h.id = b.id /\ h.file = b.file
        BY <1>4
      <4>3. b.file = f
        BY <3>1, <4>1, <4>2 DEF IInv, QueueOK, All
      <4> QED
        BY <1>1, <3>1, <4>1, <4>3 DEF Has
    <3> QED
      BY <1>1, <3>1, <3>2 DEF Has
  <2>3. ASSUME Has(held, f, 0)
        PROVE  Has(queued', f, 0) \/ f \in dropped'
    <3>1. PICK m \in held : m.file = f /\ m.id > 0
      BY <2>3 DEF Has
    <3>2. m.tries \in Nat /\ MaxRetries \in Nat
      BY <1>2, IndexAssumption DEF Messages
    <3>3. CASE m.tries < MaxRetries
      <4>1. PICK n \in again : n.id = m.id /\ n.file = m.file
        BY <1>5, <3>3
      <4> QED
        BY <1>1, <3>1, <4>1 DEF Has
    <3>4. CASE m.tries >= MaxRetries
      BY <1>1, <3>1, <3>4
    <3> QED
      BY <3>2, <3>3, <3>4
  <2>4. Kept(f)
    BY <1>1, <2>1, <2>2, <2>3 DEF Kept, Sending
  <2>5. Excused(f) => Excused(f)'
    BY <1>1 DEF Excused
  <2> QED
    BY <1>1, <1>8, <2>4, <2>5, CarriedSame
<1> QED
  BY <1>1, <1>8, <1>9, <1>10, <1>11, <1>12, SpaceSame DEF IInv

\* BatchAck: the whole batch was indexed.
LEMMA BatchAckKeeps == ASSUME IInv, BatchAck PROVE IInv'
<1>1. /\ worker.at = "done" /\ worker.left = {}
      /\ processing' = {m \in processing : m.id \notin Ids(worker.batch)}
      /\ worker' = Idle
      /\ UNCHANGED <<disk, known, stored, ops, listed, queued, seq, held, late>>
      /\ UNCHANGED <<index, version, marker, fresh, re, used, raced, dropped, cut>>
  BY DEF BatchAck, space, idx, ghosts, IInv, QueueOK, Busy
<1>2. /\ worker'.at = "idle" /\ worker'.batch = {} /\ worker'.left = {}
      /\ worker' \in [at : Busy \cup {"idle", "empty"}, batch : SUBSET Messages,
                     left : SUBSET Messages, read : Nat]
  BY <1>1 DEF Idle
<1>3. All' \subseteq All
  BY <1>1, <1>2 DEF All
<1>4. TypeOK'
  BY <1>1, <1>2, <1>3 DEF IInv, TypeOK
<1>5. QueueOK'
  BY <1>1, <1>2, <1>3 DEF IInv, QueueOK, Busy
<1>6. ReadOK' /\ \A o \in ops : ~Reads(o)
  BY <1>1 DEF IInv, ReadOK
<1>7. VersionOK'
  BY <1>1, <1>2, <1>4, VersionSame DEF TypeOK, IInv
<1>8. ASSUME NEW f \in Files
      PROVE  SeenOK(f)' /\ ReindexOK(f)'
  <2>1. Spent = worker.batch
    BY <1>1, <1>6 DEF Spent, Stale
  <2>2. Ahead' = processing'
    <3>1. worker'.left = worker'.batch /\ worker'.at # "read"
      BY <1>2
    <3> QED
      BY <1>1, <1>6, <3>1, NothingSpentNext
  <2>3. Ahead \subseteq Ahead'
    BY <1>1, <2>1, <2>2 DEF Ahead
  <2>4. Kept(f)
    BY <1>1, <2>3, KeptSame DEF Sending
  <2>5. Excused(f)'  <=> Excused(f)
    BY <1>1 DEF Excused
  <2> QED
    BY <1>1, <1>4, <2>4, <2>5, CarriedSame
<1> QED
  BY <1>1, <1>4, <1>5, <1>6, <1>7, <1>8, SpaceSame DEF IInv

\* The worker gives its batch up: all of it stays in processing.
LEMMA GivenUpKeeps ==
    ASSUME IInv, worker.at \in {"ready", "read"}, worker' = Idle,
           UNCHANGED <<disk, known, stored, ops, listed, queue, idx, fresh, re, ghosts>>,
           used'.edits = used.edits, used' \in [edits : Nat, troubles : Nat]
    PROVE  IInv'
<1>1. UNCHANGED <<queued, processing, seq, held, late, index, version, marker, raced, dropped, cut>>
  BY DEF queue, idx, ghosts
<1>2. /\ worker'.at = "idle" /\ worker'.batch = {} /\ worker'.left = {}
      /\ worker' \in [at : Busy \cup {"idle", "empty"}, batch : SUBSET Messages,
                     left : SUBSET Messages, read : Nat]
  BY DEF Idle
<1>3. All' \subseteq All
  BY <1>1, <1>2 DEF All
<1>4. TypeOK'
  BY <1>1, <1>2, <1>3 DEF IInv, TypeOK
<1>5. QueueOK'
  BY <1>1, <1>2, <1>3 DEF IInv, QueueOK, Busy
<1>6. ReadOK' /\ \A o \in ops : ~Reads(o)
  BY DEF IInv, ReadOK
<1>7. VersionOK'
  BY <1>1, <1>2, <1>4, VersionSame DEF TypeOK, IInv
<1>8. ASSUME NEW f \in Files
      PROVE  SeenOK(f)' /\ ReindexOK(f)'
  <2>1. Ahead' = processing'
    <3>1. worker'.left = worker'.batch /\ worker'.at # "read"
      BY <1>2
    <3> QED
      BY <1>6, <3>1, NothingSpentNext
  <2>2. Ahead \subseteq Ahead'
    BY <1>1, <2>1 DEF Ahead
  <2>3. Kept(f)
    BY <1>1, <2>2, KeptSame DEF Sending
  <2>4. Excused(f)'  <=> Excused(f)
    BY <1>1 DEF Excused
  <2> QED
    BY <1>1, <1>4, <2>3, <2>4, CarriedSame
<1> QED
  BY <1>1, <1>4, <1>5, <1>6, <1>7, <1>8, SpaceSame DEF IInv

\* CallbackFails.
LEMMA CallbackFailsKeeps == ASSUME IInv, CallbackFails PROVE IInv'
<1>1. /\ worker.at = "read" /\ Trouble /\ worker' = Idle
      /\ UNCHANGED <<disk, known, stored, ops, listed, queue, idx, fresh, re, ghosts>>
  BY DEF CallbackFails, space
<1> QED
  BY <1>1, Troubled, GivenUpKeeps

\* ReadFile: the read sees what the file is.
LEMMA ReadFileKeeps == ASSUME IInv, ReadFile PROVE IInv'
<1> DEFINE f == Current.file
           op == Op("read", f, disk[f])
<1>1. /\ worker.at = "ready"
      /\ UNCHANGED <<disk, known, stored, listed, queue, idx, fresh, re, used, ghosts>>
      /\ UNCHANGED <<queued, processing, seq, held, late>>
      /\ UNCHANGED <<index, version, marker, raced, dropped, cut>>
  BY DEF ReadFile, queue, idx, ghosts
<1>2. used' \in [edits : Nat, troubles : Nat] /\ used'.edits = used.edits
  BY <1>1 DEF IInv, TypeOK
<1>3. CASE disk[f] = 0
  <2>1. worker' = Idle /\ UNCHANGED ops
    BY <1>3 DEF ReadFile
  <2> QED
    BY <1>1, <1>2, <2>1, GivenUpKeeps
<1>4. CASE disk[f] # 0
  <2>1. worker' = [worker EXCEPT !.at = "reading"] /\ ops' = ops \cup {op}
    BY <1>4 DEF ReadFile
  <2>2. /\ worker'.at = "reading" /\ worker'.batch = worker.batch /\ worker'.left = worker.left
        /\ worker' \in [at : Busy \cup {"idle", "empty"}, batch : SUBSET Messages,
                       left : SUBSET Messages, read : Nat]
    BY <2>1 DEF IInv, TypeOK, Busy
  <2>3. worker.left # {}
    BY <1>1 DEF IInv, QueueOK, Busy
  <2>4. f \in Files /\ Current' = Current
    BY <2>2, <2>3, CurrentIsLeft DEF Messages, Current, IInv
  <2>5. disk \in [Files -> Nat]
    BY DEF IInv, TypeOK
  <2>6. /\ op \in Operations /\ op.kind = "read" /\ op.file = f /\ op.time = disk[f]
        /\ op.at = "got" /\ op.saw = disk /\ op.todo = {}
    BY <2>4, <2>5 DEF Op, Operations
  <2> HIDE DEF op
  <2>7. All' = All
    BY <1>1, <2>2 DEF All
  <2>8. TypeOK'
    <3>1. IsFiniteSet(ops')
      BY <2>1, FS_AddElement DEF IInv, TypeOK
    <3> QED
      BY <1>1, <2>1, <2>2, <2>6, <2>7, <3>1 DEF IInv, TypeOK
  <2>9. QueueOK'
    BY <1>1, <2>2, <2>7 DEF IInv, QueueOK, Busy
  <2>10. ReadOK' /\ \A o \in ops : ~Reads(o)
    BY <1>1, <2>1, <2>2, <2>4, <2>6 DEF IInv, ReadOK, Reads
  <2>11. NewerOK'
    BY <1>1, <2>1, <2>4, <2>6 DEF IInv, NewerOK, NewVersion
  <2>12. OpsOK'
    BY <1>1, <2>1, <2>6 DEF IInv, OpsOK
  <2>13. ASSUME NEW o \in ops' PROVE BehindOK(o)' /\ SendOK(o)'
    <3>1. BehindOK(o)'
      BY <1>1, <2>1, <2>6 DEF IInv, BehindOK, Tells, Unseen
    <3>2. SendOK(o)'
      BY <1>1, <2>1, <2>4, <2>6 DEF IInv, SendOK, Unseen
    <3> QED
      BY <3>1, <3>2
  <2>14. VersionOK'
    BY <1>1, <2>2, <2>8, VersionSame DEF TypeOK, IInv
  <2>15. ASSUME NEW g \in Files
         PROVE  SeenOK(g)' /\ ReindexOK(g)'
    <3>1. Ahead \subseteq Ahead'
      <4>1. ~Stale'
        BY <1>1, <2>1, <2>2, <2>6, <2>10 DEF Stale, Reads
      <4> QED
        BY <1>1, <2>2, <4>1, AheadSame
    <3>2. Kept(g)
      BY <1>1, <2>1, <3>1, KeptSame DEF Sending
    <3>3. Excused(g)'  <=> Excused(g)
      BY <1>1 DEF Excused
    <3> QED
      BY <1>1, <2>8, <3>2, <3>3, CarriedSame
  <2> QED
    BY <2>8, <2>9, <2>10, <2>11, <2>12, <2>13, <2>14, <2>15 DEF IInv
<1> QED
  BY <1>3, <1>4

\* IndexObjects: the index has what was read, and unless the file was changed that is what
\* the file is.
LEMMA IndexObjectsKeeps == ASSUME IInv, IndexObjects PROVE IInv'
<1> DEFINE f == Current.file
<1>1. /\ worker.at = "read"
      /\ index' = [index EXCEPT ![f] = @ \cup {worker.read}]
      /\ worker' = [worker EXCEPT !.at = IF worker.left = {Current} THEN "done" ELSE "ready",
                                  !.left = @ \ {Current}]
      /\ UNCHANGED <<disk, known, stored, ops, listed, queued, processing, seq, held, late>>
      /\ UNCHANGED <<version, marker, fresh, re, used, raced, dropped, cut>>
  BY DEF IndexObjects, space, queue, ghosts
<1>2. worker.left # {} /\ worker.left \subseteq worker.batch
  BY <1>1 DEF IInv, QueueOK, Busy
<1>3. Current \in worker.left /\ f \in Files
  BY <1>2, CurrentIsLeft DEF Messages, IInv
<1>4. /\ worker'.at = (IF worker.left = {Current} THEN "done" ELSE "ready")
      /\ worker'.batch = worker.batch /\ worker'.left = worker.left \ {Current}
      /\ worker' \in [at : Busy \cup {"idle", "empty"}, batch : SUBSET Messages,
                     left : SUBSET Messages, read : Nat]
  BY <1>1 DEF IInv, TypeOK, Busy
<1>5. All' = All
  BY <1>1, <1>4 DEF All
<1>6. worker.read \in Nat /\ index' \in [Files -> SUBSET Nat]
      /\ index'[f] = index[f] \cup {worker.read} /\ \A g \in Files : index[g] \subseteq index'[g]
  <2>1. worker.read \in Nat /\ index \in [Files -> SUBSET Nat]
    BY DEF IInv, TypeOK
  <2> QED
    BY <1>1, <1>3, <2>1
<1>7. TypeOK'
  BY <1>1, <1>4, <1>5, <1>6 DEF IInv, TypeOK
<1>8. QueueOK'
  <2>1. worker'.at # "idle" /\ worker'.at # "empty" /\ worker'.at # "polled"
    BY <1>4
  <2>2. worker'.left = {} <=> worker'.at = "done"
    BY <1>3, <1>4
  <2> QED
    BY <1>1, <1>2, <1>4, <1>5, <2>1, <2>2 DEF IInv, QueueOK
<1>9. ReadOK' /\ \A o \in ops : ~Reads(o)
  BY <1>1 DEF IInv, ReadOK
<1>10. VersionOK'
  <2>1. worker'.at # "empty" /\ seq' \in Nat /\ seq <= seq'
    <3>1. worker'.at \in {"done", "ready"}
      BY <1>4
    <3> QED
      BY <1>1, <3>1 DEF IInv, TypeOK
  <2> QED
    BY <1>1, <2>1, VersionSame
<1>11. ASSUME NEW g \in Files
       PROVE  SeenOK(g)' /\ ReindexOK(g)'
  <2>1. Spent' \subseteq (worker.batch \ worker.left) \cup {Current}
    <3>1. ~Stale'
      BY <1>1, <1>4, <1>9 DEF Stale, Reads
    <3> QED
      BY <1>4, <3>1 DEF Spent
  <2>2. CASE g = f /\ ~Stale
    <3>1. worker.read = disk[f]
      BY <1>1, <2>2 DEF Stale
    <3>2. disk'[f] \in index'[f]
      BY <1>1, <1>6, <3>1
    <3> QED
      BY <2>2, <3>2 DEF SeenOK, Lacks, ReindexOK, Unindexed
  <2>3. CASE Stale \/ g # f
    <3>1. ASSUME NEW n \in Nat, Has(Ahead, g, n)
          PROVE  Has(Ahead', g, n)
      <4>1. PICK m \in Ahead : m.file = g /\ m.id > n
        BY <3>1 DEF Has
      <4>2. m.id # Current.id
        <5>1. CASE Stale
          <6>1. Current \in Spent
            BY <5>1 DEF Spent
          <6> QED
            BY <4>1, <6>1 DEF Ahead, Ids
        <5>2. CASE g # f
          <6>1. m \in All /\ Current \in All
            BY <1>2, <1>3, <4>1 DEF All, Ahead
          <6> QED
            BY <4>1, <5>2, <6>1 DEF IInv, QueueOK
        <5> QED
          BY <2>3, <5>1, <5>2
      <4>3. m.id \notin Ids(Spent')
        BY <2>1, <4>1, <4>2 DEF Ahead, Ids, Spent
      <4>4. m \in Ahead'
        BY <1>1, <4>1, <4>3 DEF Ahead
      <4> QED
        BY <4>1, <4>4 DEF Has
    <3>2. Kept(g)
      BY <1>1, <3>1 DEF Kept, Sending
    <3>3. Lacks(g)' => Lacks(g)
      BY <1>1, <1>6 DEF Lacks
    <3>4. Unindexed(g)' => Unindexed(g)
      BY <1>1, <1>6 DEF Unindexed
    <3>5. Excused(g)'  <=> Excused(g)
      BY <1>1 DEF Excused
    <3> QED
      BY <1>1, <1>7, <3>2, <3>3, <3>4, <3>5, Carried
  <2> QED
    BY <2>2, <2>3
<1> QED
  BY <1>1, <1>7, <1>8, <1>9, <1>10, <1>11, SpaceSame DEF IInv

----------------------------------------
(* Steps of the evented space *)

\* An operation that is the only one.
LEMMA AloneIs == ASSUME IInv, NEW op \in ops, Alone PROVE ops = {op}
<1>1. IsFiniteSet(ops)
  BY DEF IInv, TypeOK
<1>2. PICK o : ops = {o}
  BY <1>1, FS_Singleton DEF Alone
<1> QED
  BY <1>2

\* Messages stay right when one is sent; the worker may go on to index what it read.
LEMMA QueueSent ==
    ASSUME IInv, UNCHANGED <<processing, held>>, worker'.batch = worker.batch,
           worker'.left = worker.left,
           (worker'.at = worker.at \/ (worker.at = "reading" /\ worker'.at = "read")),
           \/ queued' = queued /\ seq' = seq
           \/ \E f \in Files : Send(f)
    PROVE  /\ QueueOK' /\ All' \subseteq Messages /\ queued \subseteq queued'
           /\ seq' \in Nat /\ seq <= seq'
           /\ \A f \in Files : Send(f) => Has(queued', f, seq)
<1>1. All \subseteq Messages /\ seq \in Nat
  BY DEF IInv, TypeOK
<1>2. CASE queued' = queued /\ seq' = seq
  <2>1. All' = All /\ ~(\E f \in Files : Send(f))
    BY <1>1, <1>2 DEF All, Send
  <2> QED
    BY <1>1, <1>2, <2>1 DEF IInv, QueueOK, Busy
<1>3. ASSUME NEW f \in Files, Send(f)
      PROVE  /\ QueueOK' /\ All' \subseteq Messages /\ queued \subseteq queued'
             /\ seq' \in Nat /\ seq <= seq' /\ Has(queued', f, seq)
  <2> DEFINE m == [id |-> seq + 1, file |-> f, tries |-> 0]
  <2>1. seq' = seq + 1 /\ queued' = queued \cup {m}
    BY <1>3 DEF Send
  <2>2. m \in Messages /\ m.id = seq + 1 /\ m.file = f
    BY <1>1 DEF Messages
  <2> HIDE DEF m
  <2>3. All' = All \cup {m}
    BY <2>1 DEF All
  <2>4. \A n \in All : n.id \in Nat /\ n.id <= seq
    BY <1>1 DEF IInv, QueueOK, Messages
  <2>5. \A n, k \in All' : n.id <= seq' /\ (n.id = k.id => n.file = k.file)
    BY <1>1, <2>1, <2>2, <2>3, <2>4 DEF IInv, QueueOK
  <2>6. QueueOK'
    BY <2>5 DEF IInv, QueueOK, Busy
  <2>7. Has(queued', f, seq)
    BY <1>1, <2>1, <2>2 DEF Has
  <2> QED
    BY <1>1, <2>1, <2>2, <2>3, <2>6, <2>7
<1>4. \A f, g \in Files : Send(f) /\ Send(g) => Has(queued', g, seq)
  BY <1>3
<1> QED
  BY <1>2, <1>3

\* An operation is over: if it was a read, the worker has what it saw.
LEMMA Returned ==
    ASSUME IInv, NEW op \in ops, op.kind \in {"read", "write"}, Return(op),
           UNCHANGED <<disk, processing>>, ops' = ops \ {op}
    PROVE  /\ worker' \in [at : Busy \cup {"idle", "empty"}, batch : SUBSET Messages,
                           left : SUBSET Messages, read : Nat]
           /\ worker'.batch = worker.batch /\ worker'.left = worker.left
           /\ (worker'.at = worker.at \/ (worker.at = "reading" /\ worker'.at = "read"))
           /\ ReadOK' /\ Ahead \subseteq Ahead'
<1>1. /\ worker \in [at : Busy \cup {"idle", "empty"}, batch : SUBSET Messages,
                     left : SUBSET Messages, read : Nat]
      /\ op.time \in Nat
  BY DEF IInv, TypeOK, Operations
<1>2. CASE Reads(op)
  <2>1. /\ worker.at = "reading" /\ op.file = Current.file
        /\ \A o \in ops' : ~Reads(o)
    BY <1>2 DEF IInv, ReadOK
  <2>2. worker' = [worker EXCEPT !.at = "read", !.read = op.time]
    BY <1>2 DEF Return
  <2>3. /\ worker' \in [at : Busy \cup {"idle", "empty"}, batch : SUBSET Messages,
                        left : SUBSET Messages, read : Nat]
        /\ worker'.at = "read" /\ worker'.read = op.time
        /\ worker'.batch = worker.batch /\ worker'.left = worker.left
    BY <1>1, <2>2 DEF Busy
  <2>4. ReadOK'
    BY <2>1 DEF ReadOK, Reads
  <2>5. Stale' => Stale
    <3>1. Current' = Current
      BY <2>3 DEF Current
    <3> QED
      BY <1>2, <2>1, <2>3, <3>1 DEF Stale, Reads
  <2> QED
    BY <2>1, <2>3, <2>4, <2>5, AheadSame
<1>3. CASE ~Reads(op)
  <2>1. worker' = worker
    BY <1>3 DEF Return
  <2>2. Current' = Current
    BY <2>1 DEF Current
  <2>3. ReadOK'
    BY <2>1, <2>2 DEF IInv, ReadOK, Reads
  <2>4. Stale' => Stale
    BY <2>1, <2>2 DEF Stale, Reads
  <2> QED
    BY <1>1, <2>1, <2>3, <2>4, AheadSame
<1> QED
  BY <1>2, <1>3

\* Trigger, when it announces: the objects are gone and a message will be sent.
LEMMA AnnounceKeeps ==
    ASSUME IInv, NEW op \in ops, Trigger(op), Alone, known[op.file] # op.time,
           UNCHANGED <<used, ghosts>>
    PROVE  IInv'
<1> DEFINE f == op.file
           new == [op EXCEPT !.at = "send"]
<1>1. /\ op.kind \in {"read", "write"} /\ op.at = "got"
      /\ index' = [index EXCEPT ![f] = {}] /\ ops' = {new}
      /\ UNCHANGED <<disk, known, stored, listed, queued, processing, seq, held, late>>
      /\ UNCHANGED <<version, marker, worker, fresh, re, used, raced, dropped, cut>>
  BY DEF Trigger, queue, ghosts
<1>2. ops = {op}
  BY AloneIs
<1>3. f \in Files /\ op \in Operations
  BY <1>1 DEF IInv, SendOK, TypeOK
<1>4. /\ new \in Operations /\ new.at = "send" /\ new.kind = op.kind /\ new.file = f
      /\ new.time = op.time /\ new.saw = op.saw /\ new.todo = op.todo
  BY <1>3 DEF Operations
<1> HIDE DEF new
<1>5. /\ index' \in [Files -> SUBSET Nat]
      /\ \A g \in Files : g # f => index'[g] = index[g]
  BY <1>1, <1>3 DEF IInv, TypeOK
<1>6. All' = All
  BY <1>1 DEF All
<1>7. TypeOK'
  <2>1. IsFiniteSet(ops')
    BY <1>1, FS_Singleton
  <2> QED
    BY <1>1, <1>4, <1>5, <1>6, <2>1 DEF IInv, TypeOK
<1>8. QueueOK'
  BY <1>1, QueueSame
<1>9. ReadOK'
  BY <1>1, <1>2, <1>4 DEF IInv, ReadOK, Reads, Current
<1>10. NewerOK'
  BY <1>1, <1>2, <1>4 DEF IInv, NewerOK, NewVersion
<1>11. stored = known /\ OpsOK'
  BY <1>1, <1>2, <1>4 DEF IInv, OpsOK
<1>12. disk[f] # 0 => Unseen(f)
  <2>1. SUFFICES ASSUME disk[f] # 0, op.time # disk[f] PROVE Unseen(f)
    BY <1>1, <1>11 DEF Unseen
  <2>2. Tells(op, f, op.time) /\ op.time \in Nat
    BY <1>1, <1>3 DEF Tells, Operations
  <2> QED
    BY <1>3, <2>1, <2>2 DEF IInv, BehindOK
<1>13. BehindOK(new)' /\ SendOK(new)'
  <2>1. SendOK(new)'
    BY <1>1, <1>3, <1>4, <1>12 DEF SendOK, Unseen
  <2>2. ASSUME NEW g \in Files, disk[g] # 0, NEW t \in Nat \ {disk[g]}, Tells(new, g, t)
        PROVE  Unseen(g)' /\ ~Tells(new, g, disk[g])
    BY <1>1, <1>4, <1>12, <2>2 DEF Tells, Unseen
  <2> QED
    BY <1>1, <2>1, <2>2 DEF BehindOK, Tells
<1>14. VersionOK'
  BY <1>1, <1>7, VersionSame DEF TypeOK, IInv
<1>15. ASSUME NEW g \in Files
       PROVE  SeenOK(g)' /\ ReindexOK(g)'
  <2>1. Ahead \subseteq Ahead'
    <3>1. Stale' => Stale
      BY <1>1, <1>2, <1>4 DEF Stale, Reads, Current
    <3> QED
      BY <1>1, <3>1, AheadSame
  <2>2. Kept(g)
    <3>1. ~Sending(g)
      BY <1>1, <1>2 DEF Sending
    <3> QED
      BY <1>1, <2>1, <3>1, KeptSame
  <2>3. g = f => Sending(g)'
    BY <1>1, <1>4 DEF Sending
  <2>4. g # f => (Lacks(g)' => Lacks(g)) /\ (Unindexed(g)' => Unindexed(g))
    BY <1>1, <1>5 DEF Lacks, Unindexed
  <2>5. Excused(g)' <=> Excused(g)
    BY <1>1 DEF Excused
  <2> QED
    BY <1>1, <1>7, <2>2, <2>3, <2>4, <2>5, Carried
<1> QED
  BY <1>1, <1>7, <1>8, <1>9, <1>10, <1>11, <1>13, <1>14, <1>15 DEF IInv

\* Trigger, when it does not.
LEMMA QuietKeeps ==
    ASSUME IInv, NEW op \in ops, Trigger(op), ~(Alone /\ known[op.file] # op.time),
           UNCHANGED <<used, ghosts>>
    PROVE  IInv'
<1>1. /\ op.kind \in {"read", "write"} /\ op.at = "got"
      /\ ops' = ops \ {op} /\ stored' = IF Alone THEN known ELSE stored
      /\ Return(op)
      /\ UNCHANGED <<disk, known, index, listed, queued, processing, seq, held, late>>
      /\ UNCHANGED <<version, marker, fresh, re, used, raced, dropped, cut>>
  BY DEF Trigger, queue, ghosts
<1>2. /\ worker' \in [at : Busy \cup {"idle", "empty"}, batch : SUBSET Messages,
                           left : SUBSET Messages, read : Nat]
      /\ worker'.batch = worker.batch /\ worker'.left = worker.left
      /\ (worker'.at = worker.at \/ (worker.at = "reading" /\ worker'.at = "read"))
      /\ ReadOK' /\ Ahead \subseteq Ahead'
  BY <1>1, Returned
<1>3. QueueOK' /\ All' \subseteq Messages
  BY <1>1, <1>2, QueueSent
<1>4. Alone => ops' = {}
  BY <1>1, AloneIs
<1>5. stored' \in [Files -> Nat] /\ (stored' = stored \/ stored' = known)
  BY <1>1 DEF IInv, TypeOK
<1>6. TypeOK'
  <2>1. IsFiniteSet(ops')
    BY <1>1, FS_RemoveElement DEF IInv, TypeOK
  <2> QED
    BY <1>1, <1>2, <1>3, <1>5, <2>1 DEF IInv, TypeOK
<1>7. NewerOK'
  BY <1>1, <1>5 DEF IInv, NewerOK, NewVersion
<1>8. OpsOK'
  <2>1. ~Alone => stored' = stored
    BY <1>1
  <2>2. Alone => stored' = known'
    BY <1>1
  <2> QED
    BY <1>1, <2>1, <2>2 DEF IInv, OpsOK
<1>9. ASSUME NEW o \in ops' PROVE BehindOK(o)' /\ SendOK(o)'
  <2>1. stored' = stored /\ o \in ops
    BY <1>1, <1>4
  <2>2. BehindOK(o)'
    BY <1>1, <2>1 DEF IInv, BehindOK, Tells, Unseen
  <2>3. SendOK(o)'
    BY <1>1, <2>1 DEF IInv, SendOK, Unseen
  <2> QED
    BY <2>2, <2>3
<1>10. VersionOK'
  BY <1>1, <1>2, <1>6, VersionSame DEF TypeOK, IInv
<1>11. ASSUME NEW g \in Files
       PROVE  SeenOK(g)' /\ ReindexOK(g)'
  <2>1. Kept(g)
    <3>1. Sending(g) => Sending(g)'
      BY <1>1 DEF Sending
    <3> QED
      BY <1>1, <1>2, <3>1, KeptSame
  <2>2. (Lacks(g)' => Lacks(g)) /\ (Unindexed(g)' => Unindexed(g))
    BY <1>1, <1>5 DEF Lacks, Unindexed
  <2>3. Excused(g)' <=> Excused(g)
    BY <1>1 DEF Excused
  <2> QED
    BY <1>1, <1>6, <2>1, <2>2, <2>3, Carried
<1> QED
  BY <1>1, <1>2, <1>3, <1>6, <1>7, <1>8, <1>9, <1>10, <1>11 DEF IInv

\* SendChanged: the message is there, and the snapshot knows of the change.
LEMMA SendChangedKeeps ==
    ASSUME IInv, NEW op \in ops, SendChanged(op), UNCHANGED <<used, ghosts>>
    PROVE  IInv'
<1> DEFINE f == op.file
<1>1. /\ op.kind \in {"read", "write"} /\ op.at = "send"
      /\ Send(f) /\ known' = [known EXCEPT ![f] = op.time] /\ stored' = known'
      /\ ops' = ops \ {op} /\ Return(op)
      /\ UNCHANGED <<disk, index, listed, processing, held, late>>
      /\ UNCHANGED <<version, marker, fresh, re, used, raced, dropped, cut>>
  BY DEF SendChanged, idx, ghosts, Send
<1>2. f \in Files /\ op \in Operations /\ op.time \in Nat
  BY <1>1 DEF IInv, SendOK, TypeOK, Operations
<1>3. /\ worker' \in [at : Busy \cup {"idle", "empty"}, batch : SUBSET Messages,
                           left : SUBSET Messages, read : Nat]
      /\ worker'.batch = worker.batch /\ worker'.left = worker.left
      /\ (worker'.at = worker.at \/ (worker.at = "reading" /\ worker'.at = "read"))
      /\ ReadOK' /\ Ahead \subseteq Ahead'
  BY <1>1, Returned
<1>4. /\ QueueOK' /\ All' \subseteq Messages /\ queued \subseteq queued'
      /\ seq' \in Nat /\ seq <= seq' /\ Has(queued', f, seq)
  BY <1>1, <1>2, <1>3, QueueSent
<1>5. /\ known' \in [Files -> Nat] /\ known'[f] = op.time
      /\ \A g \in Files : g # f => known'[g] = known[g]
  BY <1>1, <1>2 DEF IInv, TypeOK
<1>6. TypeOK'
  <2>1. IsFiniteSet(ops')
    BY <1>1, FS_RemoveElement DEF IInv, TypeOK
  <2> QED
    BY <1>1, <1>3, <1>4, <1>5, <2>1 DEF IInv, TypeOK
<1>7. NewerOK'
  <2>1. \A g \in Files : known'[g] < NewVersion
    BY <1>2, <1>5 DEF IInv, NewerOK
  <2> QED
    BY <1>1, <2>1 DEF IInv, NewerOK, NewVersion
<1>8. OpsOK' /\ \A o \in ops' : o.at # "send" /\ o.kind # "list"
  BY <1>1 DEF IInv, OpsOK
<1>9. ASSUME NEW o \in ops' PROVE BehindOK(o)' /\ SendOK(o)'
  <2>1. BehindOK(o)'
    <3>1. ASSUME NEW g \in Files, disk[g] # 0, NEW t \in Nat \ {disk[g]}, Tells(o, g, t)
          PROVE  Unseen(g)' /\ \A p \in ops' : p.at # "send" /\ p.kind # "list"
      <4>1. Unseen(g) /\ ~Tells(op, g, disk[g])
        BY <1>1, <3>1 DEF IInv, BehindOK
      <4>2. g = f => op.time # disk[g]
        BY <1>1, <4>1 DEF Tells
      <4> QED
        BY <1>1, <1>5, <1>8, <4>1, <4>2 DEF Unseen
    <3> QED
      BY <1>1, <3>1 DEF BehindOK, Tells
  <2>2. SendOK(o)'
    BY <1>1, <1>8 DEF IInv, SendOK
  <2> QED
    BY <2>1, <2>2
<1>10. VersionOK'
  BY <1>1, <1>3, <1>4, VersionSame
<1>11. ASSUME NEW g \in Files
       PROVE  SeenOK(g)' /\ ReindexOK(g)'
  <2>1. Kept(g)
    <3>1. Sending(g) => Sending(g)' \/ Has(queued', g, seq)
      BY <1>1, <1>4 DEF Sending
    <3> QED
      BY <1>1, <1>3, <1>4, <3>1, KeptSame
  <2>2. g # f => (Lacks(g)' => Lacks(g)) /\ (Unindexed(g)' => Unindexed(g))
    BY <1>1, <1>5 DEF Lacks, Unindexed
  <2>3. Excused(g)' <=> Excused(g)
    BY <1>1 DEF Excused
  <2> QED
    BY <1>1, <1>4, <1>6, <2>1, <2>2, <2>3, Carried
<1> QED
  BY <1>1, <1>3, <1>4, <1>6, <1>7, <1>8, <1>9, <1>10, <1>11 DEF IInv

\* An operation that is not a read ends and the snapshot is saved.
LEMMA SavedKeeps ==
    ASSUME IInv, NEW op \in ops, op.kind \in {"delete", "list"}, op.at = "got",
           ops' = ops \ {op}, stored' = known, listed' \in BOOLEAN, index' \in [Files -> SUBSET Nat],
           UNCHANGED <<disk, known, queue, version, marker, job, used, ghosts>>,
           \A f \in Files :
               index'[f] # index[f] => op.kind = "delete" /\ f = op.file
    PROVE  IInv'
<1>1. /\ UNCHANGED <<queued, processing, seq, held, late>>
      /\ UNCHANGED <<version, marker, worker, fresh, re, used, raced, dropped, cut>>
  BY DEF queue, job, ghosts
<1>2. known \in [Files -> Nat] /\ ops' \subseteq ops
  BY DEF IInv, TypeOK
<1>3. All' = All
  BY <1>1 DEF All
<1>4. TypeOK'
  <2>1. IsFiniteSet(ops')
    BY FS_RemoveElement DEF IInv, TypeOK
  <2> QED
    BY <1>1, <1>2, <1>3, <2>1 DEF IInv, TypeOK
<1>5. QueueOK'
  BY <1>1, QueueSame
<1>6. ReadOK'
  BY <1>1 DEF IInv, ReadOK, Reads, Current
<1>7. NewerOK'
  BY <1>1 DEF IInv, NewerOK, NewVersion
<1>8. OpsOK'
  BY DEF IInv, OpsOK
<1>9. ASSUME NEW o \in ops' PROVE BehindOK(o)' /\ SendOK(o)'
  <2>1. BehindOK(o)'
    BY DEF IInv, BehindOK, Tells, Unseen
  <2>2. SendOK(o)'
    BY DEF IInv, SendOK, Unseen
  <2> QED
    BY <2>1, <2>2
<1>10. VersionOK'
  BY <1>1, <1>4, VersionSame DEF TypeOK, IInv
<1>11. ASSUME NEW g \in Files
       PROVE  SeenOK(g)' /\ ReindexOK(g)'
  <2>1. Ahead \subseteq Ahead'
    <3>1. Stale' => Stale
      BY <1>1 DEF Stale, Reads, Current
    <3> QED
      BY <1>1, <3>1, AheadSame
  <2>2. Kept(g)
    <3>1. Sending(g) => Sending(g)'
      BY DEF Sending
    <3> QED
      BY <1>1, <2>1, <3>1, KeptSame
  <2>3. op.kind = "delete" /\ g = op.file => ~Lacks(g)' /\ ~Unindexed(g)'
    <3>1. SUFFICES ASSUME op.kind = "delete", g = op.file, disk[g] # 0
                   PROVE  disk[g] # known[g]
      BY DEF Lacks, Unindexed
    <3>2. Tells(op, g, 0) /\ 0 \in Nat \ {disk[g]}
      BY <3>1 DEF IInv, SendOK, Tells
    <3> QED
      BY <3>1, <3>2 DEF IInv, BehindOK, Unseen
  <2>4. index'[g] = index[g] => (Lacks(g)' => Lacks(g)) /\ (Unindexed(g)' => Unindexed(g))
    BY <1>1 DEF Lacks, Unindexed
  <2>5. Excused(g)' <=> Excused(g)
    BY <1>1 DEF Excused
  <2>6. (Lacks(g)' => Lacks(g)) /\ (Unindexed(g)' => Unindexed(g))
    BY <2>3, <2>4
  <2> QED
    BY <1>1, <1>4, <2>2, <2>5, <2>6, Carried
<1> QED
  BY <1>4, <1>5, <1>6, <1>7, <1>8, <1>9, <1>10, <1>11 DEF IInv

\* EndDelete: the file is gone, or another version is not known yet.
LEMMA EndDeleteKeeps ==
    ASSUME IInv, NEW op \in ops, EndDelete(op), UNCHANGED <<used, ghosts>>
    PROVE  IInv'
<1>1. /\ op.kind = "delete" /\ op.at = "got" /\ op.file \in Files
      /\ index' = [index EXCEPT ![op.file] = {}]
      /\ stored' = known /\ ops' = ops \ {op}
      /\ UNCHANGED <<disk, known, listed, queue, version, marker, job>>
  BY DEF EndDelete, IInv, SendOK
<1>2. /\ index' \in [Files -> SUBSET Nat] /\ listed' \in BOOLEAN
      /\ \A f \in Files : index'[f] # index[f] => f = op.file
  BY <1>1 DEF IInv, TypeOK
<1> QED
  BY <1>1, <1>2, SavedKeeps

\* EndList.
LEMMA EndListKeeps ==
    ASSUME IInv, NEW op \in ops, EndList(op), UNCHANGED <<used, ghosts>>
    PROVE  IInv'
<1>1. /\ op.kind = "list" /\ op.todo = {} /\ listed' = TRUE
      /\ stored' = known /\ ops' = ops \ {op}
      /\ UNCHANGED <<disk, known, queue, idx, job>>
  BY DEF EndList
<1>2. op.at = "got"
  BY <1>1 DEF IInv, SendOK, TypeOK, Operations
<1>3. index' = index /\ index \in [Files -> SUBSET Nat] /\ UNCHANGED <<version, marker>>
  BY <1>1 DEF idx, IInv, TypeOK
<1> QED
  BY <1>1, <1>2, <1>3, SavedKeeps

\* One step of a listing: it has one file fewer to go, or is about to send it.
LEMMA ListMoves ==
    ASSUME IInv, NEW op \in ops, op.kind = "list", NEW new \in Operations, new.kind = "list",
           new.saw = op.saw, new.time = op.time, new.todo \subseteq op.todo, ops' = (ops \ {op}) \cup {new},
           UNCHANGED <<disk, stored, listed, processing, held, late, version, marker, job, used, ghosts>>,
           known' \in [Files -> Nat], index' \in [Files -> SUBSET Nat],
           \A f \in Files : known'[f] = known[f] \/ (f \in op.todo /\ known'[f] = op.saw[f]),
           \/ queued' = queued /\ seq' = seq
           \/ \E f \in Files : Send(f),
           SendOK(new)',
           \A f \in Files : Sending(f) => Sending(f)' \/ Send(f),
           \A f \in Files : Sending(f)' \/ ((Lacks(f)' => Lacks(f)) /\ (Unindexed(f)' => Unindexed(f)))
    PROVE  IInv'
<1>1. /\ UNCHANGED <<processing, held, late>>
      /\ UNCHANGED <<version, marker, worker, fresh, re, used, raced, dropped, cut>>
  BY DEF job, ghosts
<1>2. /\ QueueOK' /\ All' \subseteq Messages /\ queued \subseteq queued'
      /\ seq' \in Nat /\ seq <= seq' /\ \A f \in Files : Send(f) => Has(queued', f, seq)
  BY <1>1, QueueSent
<1>3. TypeOK'
  <2>1. IsFiniteSet(ops')
    BY FS_RemoveElement, FS_AddElement DEF IInv, TypeOK
  <2> QED
    BY <1>1, <1>2, <2>1 DEF IInv, TypeOK
<1>4. ReadOK'
  BY <1>1 DEF IInv, ReadOK, Reads, Current
<1>5. NewerOK'
  <2>1. \A f \in Files : known'[f] < NewVersion
    BY DEF IInv, NewerOK
  <2> QED
    BY <1>1, <2>1 DEF IInv, NewerOK, NewVersion
<1>6. OpsOK' /\ \A o \in ops' : o # new => o.at # "send" /\ o.kind # "list"
  BY DEF IInv, OpsOK
<1>7. ASSUME NEW o \in ops' PROVE BehindOK(o)'
  <2>1. PICK q \in ops : \A f, t : Tells(o, f, t) => Tells(q, f, t)
    BY DEF Tells
  <2>2. ASSUME NEW f \in Files, disk[f] # 0, NEW t \in Nat \ {disk[f]}, Tells(o, f, t)
        PROVE  /\ Unseen(f)'
               /\ \A p \in ops' : p.at = "send" \/ p.kind = "list" => ~Tells(p, f, disk[f])
    <3>1. Unseen(f) /\ ~Tells(op, f, disk[f])
      BY <2>1, <2>2 DEF IInv, BehindOK
    <3>2. f \in op.todo => op.saw[f] # disk[f]
      BY <3>1 DEF Tells
    <3>3. Unseen(f)'
      BY <1>1, <3>1, <3>2 DEF Unseen
    <3>4. ~Tells(new, f, disk[f])
      BY <3>1 DEF Tells
    <3> QED
      BY <1>6, <3>3, <3>4
  <2> QED
    BY <2>2 DEF BehindOK, Tells
<1>8. ASSUME NEW o \in ops' PROVE SendOK(o)'
  <2>1. CASE o # new
    BY <1>6, <2>1 DEF IInv, SendOK
  <2> QED
    BY <2>1
<1>9. VersionOK'
  BY <1>1, <1>2, VersionSame
<1>10. ASSUME NEW g \in Files
       PROVE  SeenOK(g)' /\ ReindexOK(g)'
  <2>1. Ahead \subseteq Ahead'
    <3>1. Stale' => Stale
      BY <1>1 DEF Stale, Reads, Current
    <3> QED
      BY <1>1, <3>1, AheadSame
  <2>2. Kept(g)
    <3>1. Sending(g) => Sending(g)' \/ Has(queued', g, seq)
      BY <1>2
    <3> QED
      BY <1>1, <1>2, <2>1, <3>1, KeptSame
  <2>3. Excused(g)' <=> Excused(g)
    BY <1>1 DEF Excused
  <2> QED
    BY <1>1, <1>3, <2>2, <2>3, Carried
<1> QED
  BY <1>2, <1>3, <1>4, <1>5, <1>6, <1>7, <1>8, <1>9, <1>10 DEF IInv

\* ListFile: an operation that saw an older version keeps the listing from announcing this one.
LEMMA ListFileKeeps ==
    ASSUME IInv, NEW op \in ops, NEW f \in op.todo, ListFile(op, f), UNCHANGED <<used, ghosts>>
    PROVE  IInv'
<1> DEFINE moved == IF known[f] = op.saw[f] THEN [op EXCEPT !.todo = @ \ {f}]
                    ELSE [op EXCEPT !.at = "send", !.file = f]
<1>1. /\ op.kind = "list" /\ op.at = "got"
      /\ known' = [known EXCEPT ![f] = op.saw[f]]
      /\ ops' = (ops \ {op}) \cup {moved}
      /\ index' = (IF known[f] = op.saw[f] THEN index ELSE [index EXCEPT ![f] = {}])
      /\ UNCHANGED <<disk, stored, listed, queued, processing, seq, held, late, version, marker, job>>
  BY DEF ListFile, queue
<1>2. op \in Operations /\ f \in Files /\ op.saw[f] \in Nat
  BY DEF IInv, TypeOK, Operations
<1>3. /\ known' \in [Files -> Nat] /\ known'[f] = op.saw[f]
      /\ index' \in [Files -> SUBSET Nat]
      /\ \A g \in Files : g # f => known'[g] = known[g] /\ index'[g] = index[g]
  BY <1>1, <1>2 DEF IInv, TypeOK
<1>4. PICK new \in Operations :
          /\ ops' = (ops \ {op}) \cup {new}
          /\ new.kind = "list" /\ new.saw = op.saw /\ new.time = op.time
          /\ new.todo \subseteq op.todo
          /\ known[f] # op.saw[f] => new.at = "send" /\ new.file = f /\ new.todo = op.todo
          /\ known[f] = op.saw[f] => new.at = "got"
  <2>1. CASE known[f] = op.saw[f]
    <3>1. [op EXCEPT !.todo = @ \ {f}] \in Operations
      BY <1>2 DEF Operations
    <3> QED
      BY <1>1, <1>2, <2>1, <3>1 DEF Operations
  <2>2. CASE known[f] # op.saw[f]
    <3>1. [op EXCEPT !.at = "send", !.file = f] \in Operations
      BY <1>2 DEF Operations
    <3> QED
      BY <1>1, <1>2, <2>2, <3>1 DEF Operations
  <2> QED
    BY <2>1, <2>2
<1>5. SendOK(new)'
  <2>1. SUFFICES ASSUME new.at = "send", disk[f] # 0, disk[f] = stored[f], op.saw[f] # disk[f]
                 PROVE  FALSE
    BY <1>1, <1>2, <1>3, <1>4 DEF SendOK
  <2>2. Tells(op, f, op.saw[f])
    BY <1>1 DEF Tells
  <2> QED
    BY <1>2, <2>1, <2>2 DEF IInv, BehindOK, Unseen
<1>6. \A g \in Files : ~Sending(g)
  BY <1>1 DEF IInv, OpsOK, Sending
<1>7. ASSUME NEW g \in Files
      PROVE  Sending(g)' \/ ((Lacks(g)' => Lacks(g)) /\ (Unindexed(g)' => Unindexed(g)))
  <2>1. CASE g = f /\ known[f] # op.saw[f]
    <3>1. Sending(g)'
      BY <1>4, <2>1 DEF Sending
    <3> QED
      BY <3>1
  <2>2. CASE g # f \/ known[f] = op.saw[f]
    <3>1. known'[g] = known[g] /\ index'[g] = index[g]
      BY <1>1, <1>3, <2>2
    <3>2. re' = re /\ late' = late
      BY <1>1 DEF job
    <3> QED
      BY <1>1, <3>1, <3>2 DEF Lacks, Unindexed
  <2> QED
    BY <2>1, <2>2
<1>8. \A g \in Files : known'[g] = known[g] \/ (g \in op.todo /\ known'[g] = op.saw[g])
  BY <1>3
<1> QED
  BY <1>1, <1>3, <1>4, <1>5, <1>6, <1>7, <1>8, ListMoves

\* SendListed.
LEMMA SendListedKeeps ==
    ASSUME IInv, NEW op \in ops, SendListed(op), UNCHANGED <<used, ghosts>>
    PROVE  IInv'
<1> DEFINE new == [op EXCEPT !.at = "got", !.todo = @ \ {op.file}]
<1>1. /\ op.kind = "list" /\ op.at = "send" /\ Send(op.file)
      /\ ops' = (ops \ {op}) \cup {new}
      /\ UNCHANGED <<disk, known, stored, listed, processing, held, late, index, version, marker, job>>
  BY DEF SendListed, Send, idx
<1>2. op \in Operations /\ op.file \in Files
  BY <1>1 DEF IInv, TypeOK, Operations, SendOK
<1>3. /\ new \in Operations /\ new.kind = "list" /\ new.saw = op.saw /\ new.time = op.time
      /\ new.todo \subseteq op.todo /\ new.at = "got"
  BY <1>1, <1>2 DEF Operations
<1> HIDE DEF new
<1>4. SendOK(new)'
  BY <1>3 DEF SendOK
<1>5. \A g \in Files : Sending(g) => Send(g)
  BY <1>1 DEF IInv, OpsOK, Sending
<1>6. \A g \in Files : (Lacks(g)' => Lacks(g)) /\ (Unindexed(g)' => Unindexed(g))
  BY <1>1 DEF Lacks, Unindexed, job
<1>7. known' \in [Files -> Nat] /\ index' \in [Files -> SUBSET Nat]
  BY <1>1 DEF IInv, TypeOK
<1>8. \A g \in Files : known'[g] = known[g]
  BY <1>1
<1> QED
  BY <1>1, <1>2, <1>3, <1>4, <1>5, <1>6, <1>7, <1>8, ListMoves

\* ListDeleted: the file is gone, or its next version is seen by nobody.
LEMMA ListDeletedKeeps ==
    ASSUME IInv, NEW op \in ops, NEW f \in op.todo, ListDeleted(op, f), UNCHANGED <<used, ghosts>>
    PROVE  IInv'
<1> DEFINE new == [op EXCEPT !.todo = @ \ {f}]
<1>1. /\ op.kind = "list" /\ op.at = "got" /\ op.saw[f] = 0
      /\ known' = [known EXCEPT ![f] = 0] /\ index' = [index EXCEPT ![f] = {}]
      /\ ops' = (ops \ {op}) \cup {new}
      /\ UNCHANGED <<disk, stored, listed, queued, processing, seq, held, late, version, marker, job>>
  BY DEF ListDeleted, queue
<1>2. op \in Operations /\ f \in Files
  BY DEF IInv, TypeOK, Operations
<1>3. /\ known' \in [Files -> Nat] /\ known'[f] = 0
      /\ index' \in [Files -> SUBSET Nat]
      /\ \A g \in Files : g # f => known'[g] = known[g] /\ index'[g] = index[g]
  BY <1>1, <1>2 DEF IInv, TypeOK
<1>4. /\ new \in Operations /\ new.kind = "list" /\ new.saw = op.saw /\ new.time = op.time
      /\ new.todo \subseteq op.todo /\ new.at = "got"
  BY <1>1, <1>2 DEF Operations
<1> HIDE DEF new
<1>5. SendOK(new)'
  BY <1>4 DEF SendOK
<1>6. \A g \in Files : ~Sending(g)
  BY <1>1 DEF IInv, OpsOK, Sending
<1>7. disk[f] # 0 => Unseen(f)
  <2>1. SUFFICES ASSUME disk[f] # 0 PROVE Unseen(f)
    OBVIOUS
  <2>2. Tells(op, f, 0) /\ 0 \in Nat \ {disk[f]}
    BY <1>1, <2>1 DEF Tells
  <2> QED
    BY <1>2, <2>1, <2>2 DEF IInv, BehindOK
<1>8. ASSUME NEW g \in Files
      PROVE  (Lacks(g)' => Lacks(g)) /\ (Unindexed(g)' => Unindexed(g))
  <2>1. CASE g = f
    BY <1>1, <1>3, <1>7, <2>1 DEF Lacks, Unindexed, Unseen
  <2>2. CASE g # f
    BY <1>1, <1>3, <2>2 DEF Lacks, Unindexed, job
  <2> QED
    BY <2>1, <2>2
<1>9. \A g \in Files : known'[g] = known[g] \/ (g \in op.todo /\ known'[g] = op.saw[g])
  BY <1>1, <1>3
<1> QED
  BY <1>1, <1>3, <1>4, <1>5, <1>6, <1>8, <1>9, ListMoves

\* Any step of an operation in flight.
LEMMA OperateKeeps == ASSUME IInv, NEW op \in ops, Operate(op) PROVE IInv'
<1>1. UNCHANGED <<used, ghosts>>
  BY DEF Operate
<1>2. CASE Trigger(op)
  BY <1>1, <1>2, AnnounceKeeps, QuietKeeps
<1>3. CASE SendChanged(op)
  BY <1>1, <1>3, SendChangedKeeps
<1>4. CASE EndDelete(op)
  BY <1>1, <1>4, EndDeleteKeeps
<1>5. CASE SendListed(op)
  BY <1>1, <1>5, SendListedKeeps
<1>6. CASE EndList(op)
  BY <1>1, <1>6, EndListKeeps
<1>7. ASSUME NEW f \in op.todo, ListFile(op, f) \/ ListDeleted(op, f)
      PROVE  IInv'
  BY <1>1, <1>7, ListFileKeeps, ListDeletedKeeps
<1> QED
  BY <1>2, <1>3, <1>4, <1>5, <1>6, <1>7 DEF Operate

\* FetchFileList: a listing begins with what every file is.
LEMMA FetchFileListKeeps == ASSUME IInv, FetchFileList PROVE IInv'
<1>1. /\ ops = {}
      /\ ops' = {[kind |-> "list", file |-> "none", time |-> 0, at |-> "got", saw |-> disk,
                  todo |-> {f \in Files : disk[f] # 0 \/ known[f] # 0}]}
      /\ UNCHANGED <<disk, known, stored, listed, queued, processing, seq, held, late>>
      /\ UNCHANGED <<index, version, marker, worker, fresh, re, used, raced, dropped, cut>>
  BY DEF FetchFileList, queue, idx, job, ghosts
<1>2. disk \in [Files -> Nat]
  BY DEF IInv, TypeOK
<1>3. PICK new \in Operations :
          /\ ops' = {new} /\ new.kind = "list" /\ new.saw = disk /\ new.time = 0
          /\ new.at = "got"
  <2> DEFINE todo == {f \in Files : disk[f] # 0 \/ known[f] # 0}
             listing == [kind |-> "list", file |-> "none", time |-> 0, at |-> "got",
                         saw |-> disk, todo |-> todo]
  <2>1. todo \in SUBSET Files
    OBVIOUS
  <2>2. ops' = {listing}
    BY <1>1
  <2> HIDE DEF todo
  <2>3. listing \in Operations
    BY <1>2, <2>1 DEF Operations
  <2> QED
    BY <2>2, <2>3
<1>4. TypeOK'
  <2>1. IsFiniteSet(ops') /\ All' = All
    BY <1>1, <1>3, FS_Singleton DEF All
  <2> QED
    BY <1>1, <1>3, <2>1 DEF IInv, TypeOK
<1>5. QueueOK'
  BY <1>1, QueueSame
<1>6. ReadOK' /\ \A o \in ops' : ~Reads(o)
  BY <1>1, <1>3 DEF ReadOK, Reads
<1>7. NewerOK'
  BY <1>1, <1>2, <1>3 DEF IInv, NewerOK, NewVersion, TypeOK
<1>8. OpsOK'
  BY <1>1, <1>3 DEF OpsOK
<1>9. BehindOK(new)' /\ SendOK(new)'
  BY <1>1, <1>3 DEF BehindOK, SendOK, Tells
<1>10. VersionOK'
  BY <1>1, <1>4, VersionSame DEF TypeOK, IInv
<1>11. ASSUME NEW g \in Files
       PROVE  SeenOK(g)' /\ ReindexOK(g)'
  <2>1. Ahead \subseteq Ahead'
    <3>1. Stale' => Stale
      BY <1>1, <1>6 DEF Stale, Current
    <3> QED
      BY <1>1, <3>1, AheadSame
  <2>2. Kept(g)
    <3>1. ~Sending(g)
      BY <1>1 DEF Sending
    <3> QED
      BY <1>1, <2>1, <3>1, KeptSame
  <2>3. Excused(g)' <=> Excused(g)
    BY <1>1 DEF Excused
  <2> QED
    BY <1>1, <1>4, <2>2, <2>3, CarriedSame
<1> QED
  BY <1>1, <1>3, <1>4, <1>5, <1>6, <1>7, <1>8, <1>9, <1>10, <1>11 DEF IInv

----------------------------------------
(* Steps of a reindex *)

\* A step of a reindex changes nothing of the space and nothing of the worker.
LEMMA ReindexSame ==
    ASSUME IInv, UNCHANGED <<space, worker, fresh, used, ghosts>>, held' = held,
           processing' = processing
    PROVE  /\ UNCHANGED <<disk, known, stored, ops, listed, worker, fresh, used, raced, dropped, cut>>
           /\ ReadOK' /\ NewerOK' /\ OpsOK' /\ \A o \in ops' : BehindOK(o)' /\ SendOK(o)'
           /\ Ahead' = Ahead /\ \A f \in Files : Sending(f)' = Sending(f)
<1>1. UNCHANGED <<disk, known, stored, ops, listed, worker, fresh, used, raced, dropped, cut>>
  BY DEF space, ghosts
<1>2. ReadOK'
  BY <1>1 DEF IInv, ReadOK, Current
<1>3. Ahead' = Ahead
  BY <1>1 DEF Ahead, Spent, Stale, Current
<1>4. \A f \in Files : Sending(f)' = Sending(f)
  BY <1>1 DEF Sending
<1> QED
  BY <1>1, <1>2, <1>3, <1>4, SpaceSame

\* Where a reindex is.
Steps == {"no", "drain", "drained", "mark", "clear", "unversion", "queue", "await", "awaited",
          "complete", "unmark"}

\* Nothing moves but where the reindex is and what is said of the index.
Apart ==
    /\ UNCHANGED <<space, queue, worker, fresh, index, ghosts>>
    /\ used'.edits = used.edits /\ used' \in [edits : Nat, troubles : Nat]
    /\ version' \in {"none", "old", "current"} /\ marker' \in BOOLEAN
    /\ re'.at \in Steps
    /\ \/ re' = [re EXCEPT !.at = re'.at]
       \/ re' = NoReindex

\* Steps before the version is taken away, of its coming and going, and of waiting: that
\* goes on once there are no messages in the queue, or in processing.
Before ==
    /\ re.at \notin {"unversion", "queue"} /\ version' = version
    /\ re'.at \in {"no", "drain", "drained", "mark", "clear", "unversion"}
Around ==
    /\ version' # "old"
    /\ \/ re.at = "unversion" /\ re'.at = "queue"
       \/ re.at = "complete" /\ re'.at = "unmark"
Waiting ==
    /\ version' = version
    /\ \/ re.at = "await" /\ re'.at = "awaited" /\ queued = {}
       \/ re.at = "awaited" /\ re'.at = "complete" /\ processing = {}
       \/ re.at = "awaited" /\ re'.at = "await"

\* A step that leaves the messages and the index where they are; it waits for fewer of them
\* only once it saw that there are none.
LEMMA PhaseKeeps ==
    ASSUME IInv, Apart, Before \/ Around \/ Waiting
    PROVE  IInv'
<1>1. /\ UNCHANGED <<disk, known, stored, ops, listed, queued, processing, seq, held, late>>
      /\ UNCHANGED <<worker, fresh, index, raced, dropped, cut>>
      /\ used'.edits = used.edits /\ used' \in [edits : Nat, troubles : Nat]
      /\ version' \in {"none", "old", "current"} /\ marker' \in BOOLEAN
      /\ re'.at \in Steps
      /\ \/ re' = [re EXCEPT !.at = re'.at]
         \/ re' = NoReindex
  BY DEF Apart, space, queue, ghosts
<1>2. re \in [at : Steps, saw : [Files -> Nat], upto : Nat]
  BY DEF IInv, TypeOK, Steps
<1>3. re' \in [at : Steps, saw : [Files -> Nat], upto : Nat] /\ re'.upto \in {0, re.upto}
  BY <1>1, <1>2 DEF NoReindex, Steps
<1>4. re'.at # "no" => re'.saw = re.saw /\ re'.upto = re.upto
  BY <1>1, <1>2 DEF NoReindex
<1>5. TypeOK'
  <2>1. All' = All
    BY <1>1 DEF All
  <2> QED
    BY <1>1, <1>3, <2>1 DEF IInv, TypeOK, Steps
<1>6. QueueOK' /\ ReadOK'
  BY <1>1, QueueSame DEF IInv, ReadOK, Current
<1>7. NewerOK' /\ OpsOK' /\ \A o \in ops' : BehindOK(o)' /\ SendOK(o)'
  BY <1>1, SpaceSame
<1>8. VersionOK'
  <2>1. seq \in Nat /\ re.upto \in Nat /\ re.upto <= seq
    BY DEF IInv, TypeOK, VersionOK
  <2>2. Awaits' => Awaits /\ re'.saw = re.saw /\ re'.upto = re.upto /\ version' = version
    BY <1>2, <1>4 DEF Awaits, Before, Around, Waiting
  <2>3. re'.at \in {"queue", "unmark"} => version' # "old"
    BY DEF Before, Around, Waiting
  <2>4. fresh' \/ worker'.at = "empty" => version' # "old"
    BY <1>1 DEF IInv, VersionOK, Before, Around, Waiting
  <2> QED
    BY <1>1, <1>3, <2>1, <2>2, <2>3, <2>4 DEF IInv, VersionOK
<1>9. ASSUME NEW f \in Files
      PROVE  SeenOK(f)' /\ ReindexOK(f)'
  <2>1. /\ Ahead' = Ahead /\ Sending(f)' = Sending(f) /\ Lacks(f)' = Lacks(f)
    BY <1>1 DEF Ahead, Spent, Stale, Current, Sending, Lacks
  <2>2. Excused(f) => Excused(f)'
    <3>1. Awaits => version # "old"
      BY DEF IInv, VersionOK
    <3> QED
      BY <1>1, <3>1 DEF Excused, Awaits, Before, Around, Waiting
  <2>3. SeenOK(f)'
    BY <1>1, <2>1, <2>2 DEF IInv, SeenOK
  <2>4. ASSUME Awaits', Unindexed(f)'
        PROVE  \/ Has(queued, f, IF re'.at = "await" THEN 0 ELSE re.upto)
               \/ Has(Ahead, f, IF re'.at = "complete" THEN re.upto ELSE 0)
               \/ Sending(f)
    <3>1. Awaits /\ re'.saw = re.saw /\ re'.upto = re.upto
      BY <1>2, <1>4, <2>4 DEF Awaits, Before, Around, Waiting
    <3>2. Unindexed(f)
      BY <1>1, <2>4, <3>1 DEF Unindexed
    <3>3. \/ Has(queued, f, IF re.at = "await" THEN 0 ELSE re.upto)
          \/ Has(Ahead, f, IF re.at = "complete" THEN re.upto ELSE 0)
          \/ Sending(f)
      BY <3>1, <3>2 DEF IInv, ReindexOK
    <3>4. queued = {} => \A n : ~Has(queued, f, n)
      BY DEF Has
    <3>5. processing = {} => \A n : ~Has(Ahead, f, n)
      BY DEF Has, Ahead
    <3>6. Has(queued, f, re.upto) => Has(queued, f, 0)
      <4>1. queued \subseteq Messages /\ re.upto \in Nat
        BY <1>2 DEF IInv, TypeOK, All
      <4> QED
        BY <4>1, HasMore
    <3>7. \/ re.at = "await" /\ re'.at = "awaited" /\ queued = {}
          \/ re.at = "awaited" /\ re'.at = "complete" /\ processing = {}
          \/ re.at = "awaited" /\ re'.at = "await"
      BY <2>4, <3>1 DEF Awaits, Before, Around, Waiting
    <3>8. CASE re.at = "await" /\ re'.at = "awaited" /\ queued = {}
      BY <3>3, <3>4, <3>8
    <3>9. CASE re.at = "awaited" /\ re'.at = "complete" /\ processing = {}
      BY <3>3, <3>5, <3>9
    <3>10. CASE re.at = "awaited" /\ re'.at = "await"
      BY <3>3, <3>6, <3>10
    <3> QED
      BY <3>7, <3>8, <3>9, <3>10
  <2>5. re'.at # "no" => re'.upto = re.upto
    BY <1>4
  <2>6. ReindexOK(f)'
    <3>1. SUFFICES ASSUME Awaits', Unindexed(f)'
                   PROVE  \/ Has(queued', f, IF re'.at = "await" THEN 0 ELSE re'.upto)
                          \/ Has(Ahead', f, IF re'.at = "complete" THEN re'.upto ELSE 0)
                          \/ Sending(f)'
      BY DEF ReindexOK
    <3>2. re'.upto = re.upto
      BY <2>5, <3>1 DEF Awaits
    <3> QED
      BY <1>1, <2>1, <2>4, <3>1, <3>2
  <2> QED
    BY <2>3, <2>6
<1> QED
  BY <1>1, <1>5, <1>6, <1>7, <1>8, <1>9 DEF IInv

\* The reindex is at one of its steps, and At moves it.
LEMMA AtStep ==
    ASSUME IInv, NEW step, At(step)
    PROVE  re'.at = step /\ re' = [re EXCEPT !.at = re'.at]
<1>1. re = [re EXCEPT !.at = re.at] /\ "at" \in DOMAIN re
  BY DEF IInv, TypeOK
<1> QED
  BY <1>1 DEF At

\* The types of what the steps of a reindex write.
LEMMA ReindexTypes ==
    ASSUME IInv
    PROVE  /\ used \in [edits : Nat, troubles : Nat] /\ version \in {"none", "old", "current"}
           /\ marker \in BOOLEAN
BY DEF IInv, TypeOK

\* EnsureFullIndex and ReindexSpace.
LEMMA EnsureFullIndexKeeps == ASSUME IInv, EnsureFullIndex \/ ReindexSpace PROVE IInv'
<1>1. /\ re.at = "no" /\ UNCHANGED <<space, queue, worker, fresh, index, version, marker, ghosts>>
      /\ At("drain") \/ At("mark")
  BY DEF EnsureFullIndex, ReindexSpace, idx
<1>2. used'.edits = used.edits /\ used' \in [edits : Nat, troubles : Nat]
  BY Troubled, ReindexTypes DEF EnsureFullIndex, ReindexSpace
<1>3. re'.at \in {"drain", "mark"} /\ re' = [re EXCEPT !.at = re'.at]
  BY <1>1, AtStep
<1>4. Apart
  <2>1. re'.at \in Steps
    BY <1>3 DEF Steps
  <2>2. version' \in {"none", "old", "current"} /\ marker' \in BOOLEAN
    <3>1. version' = version /\ marker' = marker
      BY <1>1
    <3> QED
      BY <3>1, ReindexTypes
  <2>3. UNCHANGED <<space, queue, worker, fresh, index, ghosts>>
    BY <1>1
  <2> QED
    BY <1>2, <1>3, <2>1, <2>2, <2>3 DEF Apart
<1>5. Before
  BY <1>1, <1>3 DEF Before
<1> QED
  BY <1>4, <1>5, PhaseKeeps

\* CountQueued and CountProcessing.
LEMMA CountKeeps ==
    ASSUME IInv, CountQueued \/ CountProcessing,
           UNCHANGED <<space, queue, worker, fresh, used, ghosts>>
    PROVE  IInv'
<1>1. UNCHANGED <<index, version, marker>>
  BY DEF CountQueued, CountProcessing, idx
<1>2. re' = [re EXCEPT !.at = re'.at]
  <2>1. PICK step : At(step)
    BY DEF CountQueued, CountProcessing
  <2> QED
    BY <2>1, AtStep
<1>3. \/ re.at = "drain" /\ re'.at = "drained"
      \/ re.at = "await" /\ re'.at = "awaited" /\ queued = {}
      \/ re.at = "drained" /\ re'.at \in {"drain", "no", "mark"}
      \/ re.at = "awaited" /\ re'.at = "complete" /\ processing = {}
      \/ re.at = "awaited" /\ re'.at = "await"
  <2>1. CASE CountQueued
    BY <2>1, AtStep DEF CountQueued
  <2>2. CASE CountProcessing
    <3>1. re.at \in {"drained", "awaited"}
      BY <2>2 DEF CountProcessing
    <3>2. CASE At(IF re.at = "drained" THEN "drain" ELSE "await")
      BY <3>1, <3>2, AtStep
    <3>3. CASE processing = {} /\ re.at = "awaited" /\ At("complete")
      BY <3>3, AtStep
    <3>4. CASE re.at = "drained" /\ At(IF version = "current" THEN "no" ELSE "mark")
      BY <3>4, AtStep
    <3> QED
      BY <2>2, <3>2, <3>3, <3>4 DEF CountProcessing
  <2> QED
    BY <2>1, <2>2
<1>4. Apart
  <2>1. re'.at \in Steps
    BY <1>3 DEF Steps
  <2>2. version' \in {"none", "old", "current"} /\ marker' \in BOOLEAN
    <3>1. version' = version /\ marker' = marker
      BY <1>1
    <3> QED
      BY <3>1, ReindexTypes
  <2>3. UNCHANGED <<space, queue, worker, fresh, index, ghosts>>
    BY <1>1
  <2>4. used'.edits = used.edits /\ used' \in [edits : Nat, troubles : Nat]
    BY ReindexTypes
  <2> QED
    BY <1>2, <2>1, <2>2, <2>3, <2>4 DEF Apart
<1>5. Before \/ Waiting
  BY <1>1, <1>3 DEF Before, Waiting
<1> QED
  BY <1>4, <1>5, PhaseKeeps

\* The steps that mark a reindex as begun and as ended.
LEMMA MarkKeeps ==
    ASSUME IInv, \/ MarkReindexInProgress \/ MarkFullIndexInComplete
                 \/ MarkFullIndexComplete \/ Unmark,
           UNCHANGED <<space, queue, worker, fresh, used, ghosts>>
    PROVE  IInv'
<1>1. index' = index
  BY DEF MarkReindexInProgress, MarkFullIndexInComplete, MarkFullIndexComplete, Unmark
<1>2. marker' \in BOOLEAN
  <2>1. marker' = TRUE \/ marker' = FALSE \/ marker' = marker
    BY DEF MarkReindexInProgress, MarkFullIndexInComplete, MarkFullIndexComplete, Unmark
  <2> QED
    BY <2>1, ReindexTypes
<1>3. \/ re.at = "mark" /\ re'.at = "clear" /\ version' = version
      \/ re.at = "unversion" /\ re'.at = "queue" /\ version' = "none"
      \/ re.at = "complete" /\ re'.at = "unmark" /\ version' = "current"
      \/ re.at = "unmark" /\ re'.at = "no" /\ version' = version
  BY AtStep DEF MarkReindexInProgress, MarkFullIndexInComplete, MarkFullIndexComplete, Unmark,
                NoReindex
<1>4. re' = [re EXCEPT !.at = re'.at] \/ re' = NoReindex
  <2>1. Unmark \/ \E step : At(step)
    BY DEF MarkReindexInProgress, MarkFullIndexInComplete, MarkFullIndexComplete
  <2> QED
    BY <2>1, AtStep DEF Unmark
<1>5. Apart
  <2>1. re'.at \in Steps /\ version' \in {"none", "old", "current"}
    BY <1>3, ReindexTypes DEF Steps
  <2>2. UNCHANGED <<space, queue, worker, fresh, index, ghosts>>
    BY <1>1
  <2>3. used'.edits = used.edits /\ used' \in [edits : Nat, troubles : Nat]
    BY ReindexTypes
  <2> QED
    BY <1>1, <1>2, <1>4, <2>1, <2>2, <2>3 DEF Apart
<1>6. Before \/ Around
  BY <1>3 DEF Before, Around
<1> QED
  BY <1>5, <1>6, PhaseKeeps

\* ClearIndex: until the files are queued the index has nothing.
LEMMA ClearIndexKeeps ==
    ASSUME IInv, ClearIndex, UNCHANGED <<space, queue, worker, fresh, used, ghosts>>
    PROVE  IInv'
<1>1. /\ re.at = "clear" /\ index' = [f \in Files |-> {}] /\ UNCHANGED <<version, marker>>
      /\ re'.at = "unversion" /\ re' = [re EXCEPT !.at = re'.at]
      /\ UNCHANGED <<queued, processing, seq, held, late>>
  BY AtStep DEF ClearIndex, queue
<1>2. /\ UNCHANGED <<disk, known, stored, ops, listed, worker, fresh, used, raced, dropped, cut>>
      /\ ReadOK' /\ NewerOK' /\ OpsOK' /\ \A o \in ops' : BehindOK(o)' /\ SendOK(o)'
  BY <1>1, ReindexSame
<1>3. re.upto' = re.upto
  BY <1>1 DEF IInv, TypeOK
<1>4. TypeOK'
  <2>1. All' = All
    BY <1>1, <1>2 DEF All
  <2>2. re' \in [at : {"no", "drain", "drained", "mark", "clear", "unversion", "queue", "await",
                       "awaited", "complete", "unmark"},
                 saw : [Files -> Nat], upto : Nat]
    BY <1>1 DEF IInv, TypeOK
  <2>3. index' \in [Files -> SUBSET Nat]
    BY <1>1
  <2> QED
    BY <1>1, <1>2, <2>1, <2>2, <2>3 DEF IInv, TypeOK
<1>5. QueueOK'
  BY <1>1, <1>2, QueueSame
<1>6. VersionOK'
  BY <1>1, <1>2, <1>3 DEF IInv, VersionOK, Awaits
<1>7. \A f \in Files : SeenOK(f)' /\ ReindexOK(f)'
  BY <1>1 DEF SeenOK, ReindexOK, Excused, Awaits
<1> QED
  BY <1>2, <1>4, <1>5, <1>6, <1>7 DEF IInv

\* The files can be put in an order.
LEMMA Ordered ==
    /\ Order \in [Files -> 1..Cardinality(Files)]
    /\ \A f, g \in Files : Order[f] = Order[g] => f = g
<1>1. IsFiniteSet(Files)
  BY IndexAssumption
<1>2. ExistsBijection(1..Cardinality(Files), Files)
  BY <1>1, FS_CardinalityType
<1>3. PICK o \in Bijection(Files, 1..Cardinality(Files)) : TRUE
  BY <1>2, Fun_ExistsBijSymmetric DEF ExistsBijection
<1>4. /\ o \in [Files -> 1..Cardinality(Files)]
      /\ \A f, g \in Files : o[f] = o[g] => f = g
  BY <1>3 DEF Bijection, Injection, IsInjective
<1> QED
  BY <1>4 DEF Order

\* Each of some files has a place of its own among them.
LEMMA Places ==
    ASSUME NEW S, S \subseteq Files
    PROVE  /\ Cardinality(S) \in Nat /\ (Cardinality(S) = 0 => S = {})
           /\ \A f \in S : Place(f, S) \in Nat \ {0} /\ Place(f, S) <= Cardinality(S)
           /\ \A f, g \in S : Place(f, S) = Place(g, S) => f = g
<1>1. IsFiniteSet(S) /\ Cardinality(S) \in Nat /\ (Cardinality(S) = 0 => S = {})
  BY IndexAssumption, FS_Subset, FS_CardinalityType, FS_EmptySet
<1> DEFINE Upto(f) == {g \in S : Order[g] <= Order[f]}
<1>2. \A f \in S : Order[f] \in Nat
  <2>1. IsFiniteSet(Files) /\ Cardinality(Files) \in Nat
    BY IndexAssumption, FS_CardinalityType
  <2> QED
    BY <2>1, Ordered
<1>3. ASSUME NEW f \in S
      PROVE  /\ IsFiniteSet(Upto(f)) /\ f \in Upto(f)
             /\ Cardinality(Upto(f)) \in Nat \ {0} /\ Cardinality(Upto(f)) <= Cardinality(S)
  <2>1. Upto(f) \in SUBSET S /\ f \in Upto(f)
    BY <1>2
  <2>2. IsFiniteSet(Upto(f)) /\ Cardinality(Upto(f)) <= Cardinality(S)
    BY <1>1, <2>1, FS_Subset
  <2>3. Cardinality(Upto(f)) \in Nat /\ Cardinality(Upto(f)) # 0
    BY <2>1, <2>2, FS_CardinalityType, FS_EmptySet
  <2> QED
    BY <2>1, <2>2, <2>3
<1>4. ASSUME NEW f \in S, NEW g \in S, Cardinality(Upto(f)) = Cardinality(Upto(g)),
             Order[f] <= Order[g]
      PROVE  f = g
  <2>1. Upto(f) \in SUBSET Upto(g)
    BY <1>2, <1>4
  <2>2. Upto(f) = Upto(g)
    BY <1>3, <1>4, <2>1, FS_Subset
  <2>3. g \in Upto(f)
    BY <1>3, <2>2
  <2>4. Order[f] = Order[g]
    BY <1>2, <1>4, <2>3
  <2> QED
    BY <2>4, Ordered
<1>5. ASSUME NEW f \in S, NEW g \in S, Cardinality(Upto(f)) = Cardinality(Upto(g))
      PROVE  f = g
  <2>1. Order[f] <= Order[g] \/ Order[g] <= Order[f]
    BY <1>2
  <2> QED
    BY <1>4, <1>5, <2>1
<1>6. \A f \in S : Place(f, S) = Cardinality(Upto(f))
  BY DEF Place
<1> HIDE DEF Upto
<1> QED
  BY <1>1, <1>3, <1>5, <1>6

\* QueueFiles: every file there is has a message of its own.
LEMMA QueueFilesKeeps ==
    ASSUME IInv, QueueFiles, UNCHANGED <<space, worker, fresh, used, ghosts>>
    PROVE  IInv'
<1> DEFINE S == {f \in Files : disk[f] # 0}
           msg(f) == [id |-> seq + Place(f, S), file |-> f, tries |-> 0]
           new == {msg(f) : f \in S}
<1>1. /\ re.at = "queue" /\ queued' = queued \cup new
      /\ seq' = seq + Cardinality(S)
      /\ re' = [at |-> "await", saw |-> disk, upto |-> seq']
      /\ late' = {m.file : m \in held}
      /\ UNCHANGED <<processing, held, index, version, marker>>
  BY DEF QueueFiles, idx
<1>2. /\ UNCHANGED <<disk, known, stored, ops, listed, worker, fresh, used, raced, dropped, cut>>
      /\ ReadOK' /\ NewerOK' /\ OpsOK' /\ \A o \in ops' : BehindOK(o)' /\ SendOK(o)'
  BY <1>1, ReindexSame
<1>3. /\ Cardinality(S) \in Nat /\ (Cardinality(S) = 0 => S = {})
      /\ \A f \in S : Place(f, S) \in Nat \ {0} /\ Place(f, S) <= Cardinality(S)
      /\ \A f, g \in S : Place(f, S) = Place(g, S) => f = g
  <2>1. S \subseteq Files
    OBVIOUS
  <2> HIDE DEF S
  <2> QED
    BY <2>1, Places
<1>4. /\ seq \in Nat /\ seq' \in Nat /\ seq <= seq' /\ disk \in [Files -> Nat]
  <2>1. seq \in Nat /\ disk \in [Files -> Nat]
    BY DEF IInv, TypeOK
  <2> HIDE DEF S
  <2> QED
    BY <1>1, <1>3, <2>1
<1>5. \A f \in S : /\ msg(f) \in Messages /\ msg(f).file = f
                   /\ msg(f).id = seq + Place(f, S) /\ msg(f).id > seq /\ msg(f).id <= seq'
  <2>1. S \subseteq Files
    OBVIOUS
  <2> HIDE DEF S
  <2> QED
    BY <1>1, <1>3, <1>4, <2>1 DEF Messages
<1>6. /\ \A m \in new : /\ m \in Messages /\ m.id > seq /\ m.id <= seq'
                        /\ m.file \in S /\ m.id = seq + Place(m.file, S)
      /\ \A f \in S : Has(new, f, seq)
  <2> HIDE DEF S
  <2>1. \A m \in new : \E f \in S : m = msg(f)
    OBVIOUS
  <2>2. \A f \in S : msg(f) \in new
    OBVIOUS
  <2> HIDE DEF msg, new
  <2> QED
    BY <1>5, <2>1, <2>2 DEF Has
<1> HIDE DEF msg, new
<1>7. All' = All \cup new
  BY <1>1, <1>2 DEF All
<1>8. TypeOK'
  <2>1. re' \in [at : {"no", "drain", "drained", "mark", "clear", "unversion", "queue", "await",
                       "awaited", "complete", "unmark"},
                 saw : [Files -> Nat], upto : Nat]
    BY <1>1, <1>4
  <2> QED
    BY <1>1, <1>2, <1>4, <1>6, <1>7, <2>1 DEF IInv, TypeOK
<1>9. QueueOK'
  <2> HIDE DEF S
  <2>1. \A m \in All : m.id \in Nat /\ m.id <= seq
    BY DEF IInv, TypeOK, QueueOK, Messages
  <2>2. \A m \in All' : m.id <= seq'
    BY <1>4, <1>6, <1>7, <2>1
  <2>3. ASSUME NEW m \in All', NEW n \in All', m.id = n.id
        PROVE  m.file = n.file
    <3>1. CASE m \in All /\ n \in All
      BY <2>3, <3>1 DEF IInv, QueueOK
    <3>2. CASE m \in new /\ n \in new
      <4>1. Place(m.file, S) = Place(n.file, S) /\ m.file \in S /\ n.file \in S
        <5>1. m.file \in S /\ n.file \in S /\ seq + Place(m.file, S) = seq + Place(n.file, S)
          BY <1>6, <2>3, <3>2
        <5> QED
          BY <1>3, <1>4, <5>1
      <4> QED
        BY <1>3, <4>1
    <3>3. m \in All /\ n \in new => FALSE
      BY <1>4, <1>6, <2>1, <2>3
    <3>4. m \in new /\ n \in All => FALSE
      BY <1>4, <1>6, <2>1, <2>3
    <3> QED
      BY <1>7, <3>1, <3>2, <3>3, <3>4
  <2> QED
    BY <1>1, <1>2, <2>2, <2>3 DEF IInv, QueueOK
<1>10. VersionOK'
  <2>1. re'.upto = seq' /\ re'.saw = disk /\ re'.at = "await"
    BY <1>1
  <2>2. version' # "old"
    BY <1>1 DEF IInv, VersionOK
  <2>3. seq' = 0 => \A f \in Files : disk[f] = 0
    <3>1. seq' = 0 => Cardinality(S) = 0
      <4> HIDE DEF S
      <4> QED
        BY <1>1, <1>3, <1>4
    <3>2. Cardinality(S) = 0 => S = {}
      BY <1>3
    <3> QED
      BY <3>1, <3>2
  <2>4. \A m \in held' : m.file \in late'
    BY <1>1
  <2> QED
    BY <1>2, <1>4, <2>1, <2>2, <2>3, <2>4 DEF VersionOK
<1>11. ASSUME NEW f \in Files
       PROVE  SeenOK(f)' /\ ReindexOK(f)'
  <2>1. CASE disk[f] = 0
    BY <1>2, <2>1 DEF SeenOK, ReindexOK, Lacks, Unindexed
  <2>2. CASE disk[f] # 0
    <3>1. Has(new, f, seq)
      BY <1>6, <2>2
    <3>2. new \subseteq Messages /\ new \subseteq queued'
      BY <1>1, <1>6
    <3>3. Has(queued', f, 0)
      BY <1>4, <3>1, <3>2, HasMore
    <3>4. re'.at = "await"
      BY <1>1
    <3> QED
      BY <3>3, <3>4 DEF SeenOK, ReindexOK
  <2> QED
    BY <2>1, <2>2
<1> QED
  BY <1>2, <1>8, <1>9, <1>10, <1>11 DEF IInv

\* Any step of a reindex.
LEMMA ReindexKeeps == ASSUME IInv, Reindex PROVE IInv'
BY CountKeeps, MarkKeeps, ClearIndexKeeps, QueueFilesKeeps DEF Reindex

----------------------------------------
(* Steps of users and other clients, and closed windows *)

\* A file becomes a version nobody has seen, or is gone; the operation that did it, if it was
\* one of this client's, is in flight.
LEMMA ChangedKeeps ==
    ASSUME IInv, NEW f \in Files, NEW t \in {0, NewVersion}, Changed(f, t),
           \/ ops' = ops /\ known' = known
           \/ ops' = ops \cup {Op("write", f, t)} /\ known' = known
           \/ t = 0 /\ ops' = ops \cup {Op("delete", f, 0)} /\ known' = [known EXCEPT ![f] = 0]
    PROVE  IInv'
<1>1. /\ disk' = [disk EXCEPT ![f] = t]
      /\ used' = [used EXCEPT !["edits"] = @ + 1]
      /\ UNCHANGED <<stored, listed, queued, processing, seq, held, late>>
      /\ UNCHANGED <<index, version, marker, worker, fresh, re, dropped, cut>>
  BY DEF Changed, Spend, queue, idx, job
<1>2. /\ used \in [edits : Nat, troubles : Nat] /\ disk \in [Files -> Nat]
      /\ known \in [Files -> Nat] /\ stored \in [Files -> Nat]
  BY DEF IInv, TypeOK
<1>3. /\ used' \in [edits : Nat, troubles : Nat] /\ used'.edits = used.edits + 1
      /\ NewVersion \in Nat /\ NewVersion' = NewVersion + 1 /\ t \in Nat /\ t < NewVersion'
      /\ NewVersion # 0
  BY <1>1, <1>2 DEF NewVersion
<1>4. /\ disk' \in [Files -> Nat] /\ disk'[f] = t
      /\ \A g \in Files : g # f => disk'[g] = disk[g]
  BY <1>1, <1>2, <1>3
<1>5. /\ known' \in [Files -> Nat] /\ (known'[f] = known[f] \/ (t = 0 /\ known'[f] = 0))
      /\ \A g \in Files : g # f => known'[g] = known[g]
  BY <1>2
<1>6. PICK new : \/ ops' = ops /\ known' = known
                 \/ /\ new \in Operations /\ ops' = ops \cup {new} /\ new.file = f /\ new.time = t
                    /\ new.at = "got" /\ new.saw = disk
                    /\ \/ new.kind = "write" /\ known' = known
                       \/ new.kind = "delete" /\ t = 0
  <2>1. /\ Op("write", f, t) \in Operations /\ Op("delete", f, 0) \in Operations
    BY <1>2, <1>3 DEF Op, Operations
  <2>2. CASE ops' = ops \cup {Op("write", f, t)} /\ known' = known
    <3>1. /\ Op("write", f, t).file = f /\ Op("write", f, t).time = t
          /\ Op("write", f, t).at = "got" /\ Op("write", f, t).saw = disk
          /\ Op("write", f, t).kind = "write"
      BY DEF Op
    <3> QED
      BY <2>1, <2>2, <3>1
  <2>3. CASE t = 0 /\ ops' = ops \cup {Op("delete", f, 0)}
    <3>1. /\ Op("delete", f, 0).file = f /\ Op("delete", f, 0).time = 0
          /\ Op("delete", f, 0).at = "got" /\ Op("delete", f, 0).saw = disk
          /\ Op("delete", f, 0).kind = "delete"
      BY DEF Op
    <3> QED
      BY <2>1, <2>3, <3>1
  <2> QED
    BY <2>2, <2>3
<1>7. ops \subseteq ops' /\ \A o \in ops' \ ops : /\ o = new /\ o.file = f /\ o.time = t
                                              /\ o.at = "got" /\ o.saw = disk
                                              /\ o.kind \in {"write", "delete"}
                                              /\ (o.kind = "delete" => t = 0)
  BY <1>6
<1>8. TypeOK'
  <2>1. IsFiniteSet(ops')
    BY <1>6, FS_AddElement DEF IInv, TypeOK
  <2>2. ops' \subseteq Operations /\ All' = All
    BY <1>1, <1>6 DEF All, IInv, TypeOK
  <2> QED
    BY <1>1, <1>3, <1>4, <1>5, <2>1, <2>2 DEF IInv, TypeOK
<1>9. QueueOK'
  BY <1>1, QueueSame
<1>10. ReadOK'
  BY <1>1, <1>7 DEF IInv, ReadOK, Reads, Current
<1>11. /\ disk[f] < NewVersion /\ known[f] < NewVersion /\ stored[f] < NewVersion
       /\ \A o \in ops : o.time < NewVersion /\ o.saw[f] < NewVersion
  BY DEF IInv, NewerOK
<1>12. NewerOK'
  <2>1. \A g \in Files : disk'[g] < NewVersion' /\ known'[g] < NewVersion' /\ stored'[g] < NewVersion'
    <3> TAKE g \in Files
    <3>1. disk[g] < NewVersion /\ known[g] < NewVersion /\ stored[g] < NewVersion
      BY DEF IInv, NewerOK
    <3> QED
      BY <1>1, <1>2, <1>3, <1>4, <1>5, <3>1
  <2>2. ASSUME NEW o \in ops'
        PROVE  o.time < NewVersion' /\ \A g \in Files : o.saw[g] < NewVersion'
    <3>1. CASE o \in ops
      <4>1. o \in Operations
        BY <3>1 DEF IInv, TypeOK
      <4> QED
        BY <1>3, <3>1, <4>1 DEF IInv, NewerOK, Operations
    <3>2. CASE o \notin ops
      BY <1>2, <1>3, <1>7, <3>2 DEF IInv, NewerOK
    <3> QED
      BY <3>1, <3>2
  <2> QED
    BY <2>1, <2>2 DEF NewerOK
<1>13. OpsOK'
  <2>1. /\ \A o, p \in ops' : o.kind = "list" /\ p.kind = "list" => o = p
        /\ \A o, p \in ops' : o.at = "send" /\ (p.at = "send" \/ p.kind = "list") => o = p
    BY <1>7 DEF IInv, OpsOK
  <2>2. (\A o \in ops' : o.kind \notin {"list", "delete"}) => stored' = known'
    <3>1. SUFFICES ASSUME \A o \in ops' : o.kind \notin {"list", "delete"}
                   PROVE  stored' = known'
      OBVIOUS
    <3>2. stored = known
      BY <1>7, <3>1 DEF IInv, OpsOK
    <3>3. known' = known
      BY <1>6, <3>1
    <3> QED
      BY <1>1, <3>2, <3>3
  <2> QED
    BY <2>1, <2>2 DEF OpsOK
<1>14. t # 0 => Unseen(f)' /\ t = NewVersion
  BY <1>1, <1>2, <1>3, <1>4, <1>5, <1>11 DEF Unseen
<1>15. ASSUME NEW o \in ops' PROVE BehindOK(o)'
  <2>1. ASSUME NEW g \in Files, disk'[g] # 0, NEW u \in Nat \ {disk'[g]}, Tells(o, g, u)
        PROVE  /\ Unseen(g)'
               /\ \A p \in ops' : p.at = "send" \/ p.kind = "list" => ~Tells(p, g, disk'[g])
    <3>1. CASE g = f
      <4>1. disk'[g] = NewVersion /\ Unseen(g)'
        BY <1>4, <1>14, <2>1, <3>1
      <4>2. ASSUME NEW p \in ops', p.at = "send" \/ p.kind = "list"
            PROVE  ~Tells(p, g, disk'[g])
        <5>1. p \in ops
          BY <1>7, <4>2
        <5>2. p.time < NewVersion /\ p.saw[g] < NewVersion
          BY <1>11, <3>1, <5>1
        <5> QED
          BY <1>3, <4>1, <5>2 DEF Tells
      <4> QED
        BY <4>1, <4>2
    <3>2. CASE g # f
      <4>1. disk'[g] = disk[g] /\ known'[g] = known[g] /\ stored'[g] = stored[g]
        BY <1>1, <1>4, <1>5, <3>2
      <4>2. o \in ops
        BY <1>7, <2>1, <3>2 DEF Tells
      <4>3. /\ Unseen(g)
            /\ \A p \in ops : p.at = "send" \/ p.kind = "list" => ~Tells(p, g, disk[g])
        BY <2>1, <4>1, <4>2 DEF IInv, BehindOK
      <4> QED
        BY <1>7, <4>1, <4>3 DEF Unseen, Tells
    <3> QED
      BY <3>1, <3>2
  <2> QED
    BY <2>1 DEF BehindOK, Tells
<1>16. ASSUME NEW o \in ops' PROVE SendOK(o)'
  <2>1. CASE o \in ops
    <3>1. SendOK(o)
      BY <2>1 DEF IInv
    <3>2. CASE o.file = f
      BY <1>1, <1>2, <1>3, <1>4, <1>11, <1>14, <3>1, <3>2 DEF SendOK, Unseen
    <3>3. CASE o.file # f
      <4>1. o.file \in Files => /\ disk'[o.file] = disk[o.file] /\ known'[o.file] = known[o.file]
                               /\ stored'[o.file] = stored[o.file]
        BY <1>1, <1>4, <1>5, <3>3
      <4>2. o.kind = "list" => o.todo \subseteq Files
        BY <2>1 DEF IInv, TypeOK, Operations
      <4> QED
        BY <3>1, <4>1, <4>2 DEF SendOK, Unseen
    <3> QED
      BY <3>2, <3>3
  <2>2. CASE o \notin ops
    BY <1>7, <2>2 DEF SendOK
  <2> QED
    BY <2>1, <2>2
<1>17. VersionOK'
  BY <1>1, <1>8, VersionSame DEF TypeOK, IInv
<1>18. ASSUME NEW g \in Files
       PROVE  SeenOK(g)' /\ ReindexOK(g)'
  <2>1. CASE g = f
    <3>1. ~Lacks(g)' /\ ~Unindexed(g)'
      BY <1>4, <1>14, <2>1 DEF Lacks, Unindexed, Unseen
    <3> QED
      BY <3>1 DEF SeenOK, ReindexOK
  <2>2. CASE g # f
    <3>1. Current' = Current
      BY <1>1 DEF Current
    <3>2. Stale' => Stale \/ (Current.file = f /\ worker.left # {})
      <4>1. CASE worker.at = "read" /\ worker.read # disk'[Current.file]
        <5>1. worker.left # {}
          BY <4>1 DEF IInv, QueueOK, Busy
        <5>2. Current.file \in Files
          BY <5>1, CurrentIsLeft DEF IInv, Messages
        <5> QED
          BY <1>4, <4>1, <5>1, <5>2 DEF Stale
      <4>2. ASSUME NEW o \in ops', Reads(o), o.time # disk'[o.file]
            PROVE  Stale \/ (Current.file = f /\ worker.left # {})
        <5>1. o \in ops
          BY <1>7, <4>2 DEF Reads
        <5>2. worker.at = "reading" /\ o.file = Current.file /\ o.file \in Files
          BY <4>2, <5>1 DEF IInv, ReadOK, SendOK, Reads
        <5>3. worker.left # {}
          BY <5>2 DEF IInv, QueueOK, Busy
        <5> QED
          BY <1>4, <4>2, <5>1, <5>2, <5>3 DEF Stale
      <4> QED
        BY <1>1, <3>1, <4>1, <4>2 DEF Stale
    <3>3. ASSUME NEW n \in Nat, Has(Ahead, g, n)
          PROVE  Has(Ahead', g, n)
      <4>1. PICK m \in Ahead : m.file = g /\ m.id > n
        BY <3>3 DEF Has
      <4>2. Stale' => Stale \/ m.id # Current.id
        <5>1. SUFFICES ASSUME Current.file = f, worker.left # {}
                       PROVE  m.id # Current.id
          BY <3>2
        <5>2. m \in All /\ Current \in All
          BY <4>1, <5>1, CurrentIsLeft DEF All, Ahead, IInv, QueueOK
        <5> QED
          BY <2>2, <4>1, <5>1, <5>2 DEF IInv, QueueOK
      <4>3. m.id \notin Ids(Spent')
        BY <1>1, <3>1, <4>1, <4>2 DEF Ahead, Ids, Spent
      <4>4. m \in Ahead'
        BY <1>1, <4>1, <4>3 DEF Ahead
      <4> QED
        BY <4>1, <4>4 DEF Has
    <3>4. Kept(g)
      BY <1>1, <1>7, <3>3 DEF Kept, Sending
    <3>5. (Lacks(g)' => Lacks(g)) /\ (Unindexed(g)' => Unindexed(g))
      BY <1>1, <1>4, <1>5, <2>2 DEF Lacks, Unindexed
    <3>6. Excused(g)' <=> Excused(g)
      BY <1>1 DEF Excused
    <3> QED
      BY <1>1, <1>8, <3>4, <3>5, <3>6, Carried
  <2> QED
    BY <2>1, <2>2
<1> QED
  BY <1>8, <1>9, <1>10, <1>12, <1>13, <1>15, <1>16, <1>17, <1>18 DEF IInv

\* WriteFile, DeleteFile and ChangedElsewhere.
LEMMA EditKeeps ==
    ASSUME IInv, NEW f \in Files, WriteFile(f) \/ DeleteFile(f) \/ ChangedElsewhere(f)
    PROVE  IInv'
<1>1. CASE WriteFile(f)
  BY <1>1, ChangedKeeps DEF WriteFile
<1>2. CASE DeleteFile(f)
  BY <1>2, ChangedKeeps DEF DeleteFile
<1>3. CASE ChangedElsewhere(f)
  <2>1. PICK t \in {0, NewVersion} : Changed(f, t)
    BY <1>3 DEF ChangedElsewhere
  <2> QED
    BY <1>3, <2>1, ChangedKeeps DEF ChangedElsewhere
<1> QED
  BY <1>1, <1>2, <1>3

\* Restart: what was only in memory is made up for, or the window was cut where nothing is.
LEMMA RestartKeeps == ASSUME IInv, Restart PROVE IInv'
<1>1. /\ cut' = (cut \/ Unresumed) /\ known' = stored
      /\ ops' = {} /\ listed' = FALSE /\ held' = {} /\ worker' = Idle
      /\ fresh' = (version = "none") /\ re' = NoReindex /\ late' = {}
      /\ UNCHANGED <<disk, stored, queued, processing, seq, index, version, marker, dropped>>
      /\ used'.edits = used.edits /\ used' \in [edits : Nat, troubles : Nat]
  BY Troubled DEF Restart, idx
<1>2. /\ worker'.at = "idle" /\ worker'.batch = {} /\ worker'.left = {}
      /\ worker' \in [at : Busy \cup {"idle", "empty"}, batch : SUBSET Messages,
                     left : SUBSET Messages, read : Nat]
  BY <1>1 DEF Idle
<1>3. re' \in [at : Steps, saw : [Files -> Nat], upto : Nat] /\ re'.at = "no" /\ re'.upto = 0
  BY <1>1 DEF NoReindex, Steps
<1>4. All' \subseteq All
  BY <1>1, <1>2 DEF All
<1>5. cut' \in BOOLEAN /\ fresh' \in BOOLEAN /\ listed' \in BOOLEAN
  <2>1. cut' = TRUE \/ cut' = FALSE
    BY <1>1
  <2> QED
    BY <1>1, <2>1
<1>6. TypeOK'
  <2>1. IsFiniteSet(ops')
    BY <1>1, FS_EmptySet
  <2>2. {marker} \subseteq BOOLEAN
    BY DEF IInv, TypeOK
  <2>3. {fresh', listed', marker', cut'} \subseteq BOOLEAN
    BY <1>1, <1>5, <2>2
  <2> QED
    BY <1>1, <1>2, <1>3, <1>4, <2>1, <2>3 DEF IInv, TypeOK, Steps
<1>7. QueueOK'
  BY <1>1, <1>2, <1>4 DEF IInv, QueueOK, Busy
<1>8. ReadOK' /\ OpsOK' /\ (\A o \in ops' : BehindOK(o)' /\ SendOK(o)')
  BY <1>1 DEF ReadOK, OpsOK
<1>9. NewerOK'
  BY <1>1 DEF IInv, NewerOK, NewVersion
<1>10. VersionOK'
  BY <1>1, <1>2, <1>3, <1>6 DEF VersionOK, Awaits, TypeOK
<1>11. ASSUME NEW f \in Files
       PROVE  SeenOK(f)' /\ ReindexOK(f)'
  <2>1. ReindexOK(f)'
    BY <1>3 DEF ReindexOK, Awaits
  <2>2. SUFFICES ASSUME Lacks(f)', ~Unresumed
                 PROVE  Has(queued', f, 0) \/ Has(Ahead', f, 0) \/ Excused(f)'
    BY <1>1, <2>1 DEF SeenOK, Excused
  <2>3. Lacks(f) /\ disk[f] # 0 /\ disk[f] = stored[f]
    BY <1>1, <2>2 DEF Lacks
  <2>4. Ahead \subseteq Ahead'
    <3>1. Ahead' = processing'
      BY <1>1, <1>2, NothingSpentNext
    <3> QED
      BY <1>1, <3>1 DEF Ahead
  <2>5. ~Has(held, f, 0)
    BY <2>2 DEF Unresumed, Has
  <2>6. ~Sending(f)
    <3>1. SUFFICES ASSUME NEW o \in ops, o.at = "send", o.file = f PROVE FALSE
      BY DEF Sending
    <3>2. SendOK(o) /\ o.kind \in {"read", "write", "delete", "list"}
      BY <3>1 DEF IInv, TypeOK, Operations
    <3>3. CASE o.kind = "list"
      BY <2>2, <2>3, <3>1, <3>2, <3>3 DEF SendOK, Unresumed
    <3>4. CASE o.kind # "list"
      BY <2>3, <3>1, <3>2, <3>4 DEF SendOK, Unseen
    <3> QED
      BY <3>3, <3>4
  <2>7. Excused(f) => Excused(f)'
    BY <1>1, <2>2 DEF Excused, Unresumed
  <2>8. Has(queued, f, 0) \/ Has(Ahead, f, 0) \/ Excused(f)
    BY <2>3, <2>5, <2>6 DEF IInv, SeenOK
  <2> QED
    BY <1>1, <2>4, <2>7, <2>8 DEF Has
<1> QED
  BY <1>6, <1>7, <1>8, <1>9, <1>10, <1>11 DEF IInv

----------------------------------------
(* The theorems *)

\* A fresh install, and an index that was built before.
LEMMA InitIInv == Init => IInv
<1> SUFFICES ASSUME Init PROVE IInv
  OBVIOUS
<1>1. /\ disk = [f \in Files |-> 1] /\ stored = known
      /\ \/ known = None /\ index = [f \in Files |-> {}] /\ version = "none"
         \/ known = disk /\ index = [f \in Files |-> {1}] /\ version \in {"old", "current"}
      /\ fresh = (version = "none")
      /\ ops = {} /\ listed = FALSE
      /\ queued = {} /\ processing = {} /\ held = {} /\ seq = 0
      /\ worker = Idle /\ marker = FALSE /\ re = NoReindex
      /\ used = [edits |-> 0, troubles |-> 0] /\ cut = FALSE
  BY DEF Init
<1>2. All = {} /\ worker.at = "idle" /\ worker.batch = {} /\ worker.left = {}
  BY <1>1 DEF All, Idle
<1>3. /\ {disk, known, stored} \subseteq [Files -> Nat]
      /\ \A f \in Files : disk[f] = 1 /\ known[f] \in {0, 1} /\ stored[f] = known[f]
      /\ \A f \in Files : known[f] = 1 => 1 \in index[f]
      /\ index \in [Files -> SUBSET Nat] /\ version \in {"none", "old", "current"}
  BY <1>1 DEF None
<1>4. TypeOK
  <2>1. {fresh, listed, marker, cut} \subseteq BOOLEAN
    BY <1>1
  <2>2. worker \in [at : Busy \cup {"idle", "empty"}, batch : SUBSET Messages,
                    left : SUBSET Messages, read : Nat]
    BY <1>1 DEF Idle
  <2>3. IsFiniteSet(ops)
    BY <1>1, FS_EmptySet
  <2> QED
    BY <1>1, <1>2, <1>3, <2>1, <2>2, <2>3 DEF TypeOK, NoReindex
<1>5. NewerOK
  BY <1>1, <1>3 DEF NewerOK, NewVersion
<1>6. QueueOK /\ ReadOK /\ OpsOK /\ \A o \in ops : BehindOK(o) /\ SendOK(o)
  BY <1>1, <1>2 DEF QueueOK, ReadOK, OpsOK, Busy
<1>7. VersionOK /\ ~Awaits
  <2>1. re.at = "no" /\ re.upto = 0
    BY <1>1 DEF NoReindex
  <2>2. fresh => version # "old"
    BY <1>1
  <2> QED
    BY <1>1, <1>2, <2>1, <2>2 DEF VersionOK, Awaits
<1>8. ASSUME NEW f \in Files PROVE SeenOK(f) /\ ReindexOK(f)
  <2>1. ~Lacks(f)
    BY <1>3 DEF Lacks
  <2> QED
    BY <1>7, <2>1 DEF SeenOK, ReindexOK
<1> QED
  BY <1>4, <1>5, <1>6, <1>7, <1>8 DEF IInv

\* Nothing happens to the variables the invariant is about.
LEMMA StutterKeeps == ASSUME IInv, UNCHANGED vars PROVE IInv'
<1>1. /\ UNCHANGED <<disk, known, stored, ops, listed, queued, processing, seq, held, late>>
      /\ UNCHANGED <<index, version, marker, worker, fresh, re, used, raced, dropped, cut>>
  BY DEF vars, space, queue, idx, job, ghosts
<1>2. TypeOK'
  BY <1>1 DEF IInv, TypeOK, All
<1>3. QueueOK' /\ ReadOK'
  BY <1>1, QueueSame DEF IInv, ReadOK, Current
<1>4. NewerOK' /\ OpsOK' /\ \A o \in ops' : BehindOK(o)' /\ SendOK(o)'
  BY <1>1, SpaceSame
<1>5. VersionOK'
  BY <1>1 DEF IInv, VersionOK, Awaits
<1>6. ASSUME NEW f \in Files PROVE SeenOK(f)' /\ ReindexOK(f)'
  <2>1. Ahead' = Ahead
    BY <1>1 DEF Ahead, Spent, Stale, Current
  <2>2. Kept(f)
    BY <1>1, <2>1, KeptSame DEF Sending
  <2>3. Excused(f)' <=> Excused(f)
    BY <1>1 DEF Excused
  <2> QED
    BY <1>1, <1>2, <2>2, <2>3, CarriedSame
<1> QED
  BY <1>1, <1>2, <1>3, <1>4, <1>5, <1>6 DEF IInv

\* Every step keeps the inductive invariant.
LEMMA NextIInv == IInv /\ [Next]_vars => IInv'
<1> SUFFICES ASSUME IInv, [Next]_vars PROVE IInv'
  OBVIOUS
<1>1. CASE Work \/ CallbackFails
  BY <1>1, PollKeeps, UnqueueKeeps, PollEmptyKeeps, EmptyQueueHandlerKeeps, ReadFileKeeps,
     IndexObjectsKeeps, BatchAckKeeps, CallbackFailsKeeps DEF Work
<1>2. CASE Requeued \/ RequeueFailed \/ RequeueSlow
  BY <1>2, RequeuedKeeps, RequeueFailedKeeps, RequeueSlowKeeps
<1>3. CASE \E op \in ops : Operate(op)
  BY <1>3, OperateKeeps
<1>4. CASE FetchFileList
  BY <1>4, FetchFileListKeeps
<1>5. CASE EnsureFullIndex \/ ReindexSpace \/ Reindex
  BY <1>5, EnsureFullIndexKeeps, ReindexKeeps
<1>6. CASE \E f \in Files : WriteFile(f) \/ DeleteFile(f) \/ ChangedElsewhere(f)
  BY <1>6, EditKeeps
<1>7. CASE Restart
  BY <1>7, RestartKeeps
<1>8. CASE UNCHANGED vars
  BY <1>8, StutterKeeps
<1> QED
  BY <1>1, <1>2, <1>3, <1>4, <1>5, <1>6, <1>7, <1>8 DEF Next

\* The inductive invariant holds of every behaviour.
LEMMA AlwaysIInv == Spec => []IInv
BY InitIInv, NextIInv, PTL DEF Spec

\* What the invariant says of what was seen.
LEMMA IInvSeen == IInv => SeenIsQueued
<1> SUFFICES ASSUME IInv, NEW f \in Files, stored[f] = disk[f], disk[f] # 0, disk[f] \notin index[f]
             PROVE  \/ Pending(f) \/ re.at \in {"unversion", "queue"} \/ version = "old"
                    \/ f \in dropped \/ cut
  BY DEF SeenIsQueued
<1>1. Lacks(f) /\ SeenOK(f)
  BY DEF Lacks, IInv
<1>2. \/ Has(queued, f, 0) \/ Has(Ahead, f, 0) \/ Has(held, f, 0)
      \/ Sending(f) \/ Excused(f)
  BY <1>1 DEF SeenOK
<1>3. Has(queued, f, 0) \/ Has(Ahead, f, 0) \/ Has(held, f, 0) \/ Sending(f) => Pending(f)
  BY DEF Has, Ahead, Sending, Pending
<1> QED
  BY <1>2, <1>3 DEF Excused

\* SeenIsQueued of every index: what the snapshot in the database says was seen of a file
\* is in the index or on its way there (evented_space_primitives.ts, mq.datastore.ts,
\* object_index.ts), for any files, sizes of a batch and numbers of retries and changes.
THEOREM ClosedWindowsLoseNothing == Spec => []SeenIsQueued
BY AlwaysIInv, IInvSeen, PTL

\* What the invariant says of the step that completes a reindex.
LEMMA IInvComplete ==
    ASSUME IInv, [Next]_vars
    PROVE  [re.at = "complete" /\ re'.at = "unmark" =>
              \A f \in Files :
                  \/ re.saw[f] = 0 \/ re.saw[f] # disk[f] \/ known[f] # disk[f]
                  \/ re.saw[f] \in index[f]
                  \/ f \in late
                  \/ \E m \in queued \cup processing : m.file = f /\ m.id > re.upto
                  \/ \E op \in ops : op.at = "send" /\ op.file = f]_vars
<1> SUFFICES ASSUME re.at = "complete", NEW f \in Files, Unindexed(f)
             PROVE  \/ \E m \in queued \cup processing : m.file = f /\ m.id > re.upto
                    \/ \E op \in ops : op.at = "send" /\ op.file = f
  BY DEF Unindexed
<1>1. Has(queued, f, re.upto) \/ Has(Ahead, f, re.upto) \/ Sending(f)
  BY DEF IInv, ReindexOK, Awaits
<1> QED
  BY <1>1 DEF Has, Ahead, Sending

\* CompleteMeansIndexed of every reindex: it says that the index is complete only when what
\* it queued is in the index, was changed since, or timed out (reindexSpace and
\* awaitEmptyQueue of object_index.ts).
THEOREM CompleteIsTrue == Spec => CompleteMeansIndexed
<1>1. IInv /\ [Next]_vars =>
          [re.at = "complete" /\ re'.at = "unmark" =>
              \A f \in Files :
                  \/ re.saw[f] = 0 \/ re.saw[f] # disk[f] \/ known[f] # disk[f]
                  \/ re.saw[f] \in index[f]
                  \/ f \in late
                  \/ \E m \in queued \cup processing : m.file = f /\ m.id > re.upto
                  \/ \E op \in ops : op.at = "send" /\ op.file = f]_vars
  BY IInvComplete
<1> QED
  BY <1>1, AlwaysIInv, PTL DEF Spec, CompleteMeansIndexed

----------------------------------------
(* The page editor.  The inductive invariant: all of it holds only while no  *)
(* two loads overlapped and none was left hanging (Calm), which is what the  *)
(* code relies on.                                                           *)

Token == Pages \X {"origin", "user", "other"} \X Nat

LoadCall ==
    [id : Nat \ {Nobody}, page : Pages, kind : {"popstate", "reload"}, other : BOOLEAN,
     at : {"leave", "read", "show"}, doc : SUBSET Token]

TimerRecord == [waiter : Nat, again : BOOLEAN]

EditorTypes ==
    /\ files \in [Pages -> SUBSET Token]
    /\ shown \in Pages /\ opened \in Pages /\ text \in SUBSET Token /\ unsaved \in BOOLEAN
    /\ timer \in SUBSET TimerRecord /\ strays \in SUBSET TimerRecord
    /\ writes \in SUBSET [page : Pages, text : SUBSET Token, waiter : Nat]
    /\ loads \in SUBSET LoadCall
    /\ promise \in BOOLEAN /\ goBack \in BOOLEAN
    /\ waiting \in Seq(Pages)
    /\ history \in Seq(Pages) /\ history # <<>>
    /\ events \in Nat

\* One load at a time, of the page in the address; what is shown changes before the text.
Whereabouts ==
    /\ \A l, k \in loads : l = k
    /\ \A l \in loads :
          /\ l.kind = "popstate" => l.page = Last(history)
          /\ l.kind = "reload" => l.page = shown /\ (goBack \/ shown = Last(history))
          /\ IF l.at = "show" THEN shown = l.page ELSE opened = shown
    /\ loads = {} => opened = shown /\ (goBack \/ shown = Last(history))

\* A load that is leaving a page waits for one timer or one write, and no other is awaited.
Waits ==
    /\ \A t \in timer \cup strays \cup writes :
          t.waiter # Nobody => \E l \in loads : l.id = t.waiter /\ l.at = "leave"
    /\ \A t, u \in timer : t = u
    /\ \A t, u \in strays : t.waiter # Nobody /\ u.waiter # Nobody => t = u
    /\ \A w, v \in writes : w.waiter # Nobody /\ v.waiter # Nobody => w = v
    /\ \A t \in timer, u \in strays \cup writes : t.waiter = Nobody \/ u.waiter = Nobody
    /\ \A t \in strays, w \in writes : t.waiter = Nobody \/ w.waiter = Nobody
    /\ \A t \in timer \cup strays : t.again => t.waiter = Nobody

\* Every text consists of things written into its page, and once the page has been
\* left nothing is unsaved.
Clean ==
    /\ \A page \in Pages : \A token \in files[page] : token[1] = page
    /\ \A token \in text : token[1] = opened
    /\ \A w \in writes : \A token \in w.text : token[1] = w.page
    /\ \A l \in loads :
          /\ l.at = "show" => \A token \in l.doc : token[1] = l.page
          /\ l.at # "leave" => ~unsaved

Sound == EditorTypes /\ Whereabouts /\ Waits /\ (~risky => Clean)

EditorInv == Calm => Sound

----------------------------------------
(* What the operators that several actions share come to, in calm.            *)

Leaving(page, kind) ==
    [id |-> 1, page |-> page, kind |-> kind, other |-> page # shown, at |-> "leave", doc |-> {}]

\* Calm is never regained.
LEMMA CalmBefore == [EditorNext]_editorVars /\ Calm' => Calm
<1> SUFFICES ASSUME [EditorNext]_editorVars, Calm' PROVE Calm
  OBVIOUS
<1> USE DEF Calm
<1>1. ASSUME NEW waiter, NEW ls, NEW pending, Save(waiter, ls, pending), UNCHANGED astray
      PROVE  Calm
  BY <1>1 DEF Save
<1>2. ASSUME NEW page, NEW kind, NEW ls, NEW pending, Begin(page, kind, ls, pending)
      PROVE  Calm
  BY <1>2 DEF Begin, Save
<1>3. ASSUME NEW l, NEW pending, NEW failed, EndLoad(l, pending, failed)
      PROVE  Calm
  BY <1>2, <1>3 DEF EndLoad, EndNavigation
<1>4. CASE Type \/ EndComposition
  BY <1>1, <1>4 DEF Type, EndComposition
<1>5. CASE BeginComposition \/ UNCHANGED editorVars
  BY <1>5 DEF BeginComposition, editorVars, editorGhosts
<1>6. ASSUME NEW t, NEW this, NEW those, Fire(t, this, those) PROVE Calm
  <2>1. astray' = astray
    BY <1>6, Zenon DEF Fire
  <2>2. CASE Save(Nobody, loads, this)
    BY <1>1, <2>1, <2>2
  <2>3. CASE UNCHANGED stuck
    BY <2>1, <2>3
  <2> QED
    <3>1. CASE t.again
      BY <1>6, <2>2, <3>1, Zenon DEF Fire
    <3>2. CASE ~t.again
      <4>1. stuck' = stuck
        BY <1>6, <3>2 DEF Fire
      <4> QED
        BY <2>3, <4>1
    <3> QED
      BY <3>1, <3>2
<1>7. ASSUME NEW w \in writes, PageSaved(w) \/ WriteFails(w) PROVE Calm
  <2>1. CASE PageSaved(w)
    BY <2>1 DEF PageSaved, editorGhosts
  <2>2. CASE WriteFails(w)
    <3>1. UNCHANGED <<astray, stuck>> \/ \E l \in loads : EndLoad(l, Again, TRUE)
      BY <2>2 DEF WriteFails
    <3>2. CASE UNCHANGED <<astray, stuck>>
      BY <3>2
    <3>3. ASSUME NEW l \in loads, EndLoad(l, Again, TRUE) PROVE Calm
      BY <1>3, <3>3, Zenon
    <3> QED
      BY <3>1, <3>2, <3>3
  <2> QED
    BY <1>7, <2>1, <2>2
<1>8. ASSUME NEW l \in loads, Load(l) \/ ReadFails(l) PROVE Calm
  <2>1. CASE ReadPage(l)
    BY <2>1 DEF ReadPage, editorGhosts
  <2>2. CASE EndLoad(l, timer, FALSE) \/ EndLoad(l, timer, TRUE)
    BY <1>3, <2>2, Zenon
  <2> QED
    BY <1>8, <2>1, <2>2 DEF Load, ShowPage, ReadFails
<1>9. CASE Back \/ Revert
  BY <1>2, <1>9 DEF Back, Revert, PopState
<1>10. ASSUME NEW page \in Pages, Navigate(page) \/ PageChangedElsewhere(page) \/ FileChanged(page)
       PROVE  Calm
  BY <1>2, <1>10 DEF Navigate, PageChangedElsewhere, FileChanged, editorGhosts
<1> QED
  BY <1>4, <1>5, <1>6, <1>7, <1>8, <1>9, <1>10 DEF EditorNext, FireTimer, FireStray

LEMMA SaveCalm ==
    ASSUME EditorTypes, Waits, NEW pending \in SUBSET timer, Save(Nobody, loads, pending), Calm'
    PROVE  /\ timer' = Timer(Nobody) /\ loads' = loads
           /\ \A t \in pending : t.waiter = Nobody
  BY DEF Save, Calm, Awaiting, Waits

LEMMA BeginCalm ==
    ASSUME NEW page, NEW kind, NEW ls, NEW pending, Begin(page, kind, ls, pending), Calm'
    PROVE  /\ ls = {}
           /\ loads' = {Leaving(page, kind)}
           /\ timer' = Timer(1)
<1> DEFINE l == NewLoad(page, kind, ls)
<1>1. /\ timer' = Timer(l.id)
      /\ loads' = (ls \cup {l}) \ Awaiting(ls \cup {l}, pending)
      /\ Awaiting(ls \cup {l}, pending) = {}
      /\ ls \ Awaiting(ls, pending) = {}
  BY DEF Begin, Save, Calm
<1>2. Awaiting(ls, pending) \subseteq Awaiting(ls \cup {l}, pending)
  BY DEF Awaiting
<1>3. ls = {}
  BY <1>1, <1>2
<1>4. (CHOOSE n \in 1..(Cardinality(ls) + 1) : \A k \in ls : k.id # n) = 1
  <2>1. Cardinality(ls) + 1 = 1
    BY <1>3, FS_EmptySet
  <2> QED
    BY <1>3, <2>1
<1>5. l = Leaving(page, kind)
  BY <1>4 DEF NewLoad, Leaving
<1>6. l.id = 1
  BY <1>5 DEF Leaving
<1> QED
  BY <1>1, <1>3, <1>5, <1>6

LEMMA HistoryGrows ==
    ASSUME NEW h \in Seq(Pages), NEW page \in Pages
    PROVE  /\ Append(h, page) \in Seq(Pages) /\ Append(h, page) # <<>>
           /\ Last(Append(h, page)) = page
  BY DEF Last

\* A load that ends leaves none, or the one of the page somebody waits for.
LEMMA EndLoadCalm ==
    ASSUME EditorTypes, Whereabouts, NEW l \in loads, NEW pending, NEW failed \in BOOLEAN,
           EndLoad(l, pending, failed), Calm'
    PROVE  /\ waiting' \in Seq(Pages) /\ promise' \in BOOLEAN /\ goBack' \in BOOLEAN
           /\ history' \in Seq(Pages) /\ history' # <<>>
           /\ \/ /\ loads' = {} /\ timer' = pending
                 /\ history' = history
                 /\ l.kind = "reload" => goBack' = goBack
                 /\ l.kind = "popstate" /\ failed => goBack'
              \/ /\ loads' = {Leaving(Last(history'), "popstate")} /\ timer' = Timer(1)
<1>1. loads \ {l} = {}
  BY DEF Whereabouts
<1>2. CASE l.kind # "popstate"
  BY <1>1, <1>2 DEF EndLoad, nav, EditorTypes, LoadCall
<1>3. CASE l.kind = "popstate" /\ waiting = <<>>
  <2>1. /\ history' = history \o <<>> /\ loads' = {} /\ timer' = pending /\ waiting' = <<>>
        /\ promise' = FALSE /\ goBack' = (goBack \/ (failed /\ promise))
        /\ astray' = (astray \/ (failed /\ ~promise))
    BY <1>1, <1>3 DEF EndLoad, EndNavigation
  <2>2. history \o <<>> = history
    BY DEF EditorTypes
  <2>3. failed => goBack'
    BY <2>1 DEF Calm, EditorTypes
  <2> QED
    BY <1>3, <2>1, <2>2, <2>3 DEF EditorTypes
<1>4. CASE l.kind = "popstate" /\ waiting # <<>>
  <2> DEFINE hung == IF Len(waiting) = 1 THEN {} ELSE {NewLoad(Head(waiting), "popstate", {})}
  <2>1. /\ history' = history \o waiting /\ waiting' = <<>> /\ promise' = TRUE
        /\ goBack' = (goBack \/ (failed /\ promise))
        /\ Begin(Last(waiting), "popstate", {} \cup hung,
                 pending \cup UNION {Timer(k.id) : k \in hung})
    BY <1>1, <1>4 DEF EndLoad, EndNavigation
  <2>2. loads' = {Leaving(Last(waiting), "popstate")} /\ timer' = Timer(1)
    BY <2>1, BeginCalm
  <2>3. history \o waiting \in Seq(Pages) /\ history \o waiting # <<>>
        /\ Last(history \o waiting) = Last(waiting)
    BY <1>4 DEF EditorTypes, Last
  <2> QED
    BY <1>4, <2>1, <2>2, <2>3 DEF EditorTypes
<1> QED
  BY <1>2, <1>3, <1>4

LEMMA LeavingType ==
    ASSUME EditorTypes, NEW page \in Pages, NEW kind \in {"popstate", "reload"}
    PROVE  Leaving(page, kind) \in LoadCall
<1>1. (page # shown) \in BOOLEAN
  OBVIOUS
<1> QED
  BY <1>1 DEF Leaving, LoadCall, Nobody

\* What resolving the promise of a timer or a write does to the loads.
LEMMA ResolvedCalm ==
    ASSUME EditorTypes, Whereabouts, Waits, NEW t \in timer \cup strays \cup writes
    PROVE  \/ t.waiter = Nobody /\ Resolved(t.waiter) = loads
           \/ \E l \in loads, k \in LoadCall :
                /\ t.waiter = l.id /\ loads = {l} /\ l.at = "leave"
                /\ Resolved(t.waiter) = {k}
                /\ k.id = l.id /\ k.page = l.page /\ k.kind = l.kind /\ k.at = "read"
<1>1. CASE t.waiter = Nobody
  <2>1. \A l \in loads : l.id # t.waiter
    BY <1>1 DEF EditorTypes, LoadCall
  <2> QED
    BY <1>1, <2>1 DEF Resolved
<1>2. CASE t.waiter # Nobody
  <2>1. PICK l \in loads : l.id = t.waiter /\ l.at = "leave"
    BY <1>2 DEF Waits
  <2>2. loads = {l}
    BY DEF Whereabouts
  <2> DEFINE k == [l EXCEPT !.at = "read"]
  <2>3. /\ k \in LoadCall /\ k.id = l.id /\ k.page = l.page /\ k.kind = l.kind
        /\ k.at = "read"
    BY DEF EditorTypes, LoadCall
  <2>4. Resolved(t.waiter) = {k}
    BY <2>1, <2>2 DEF Resolved
  <2> QED
    BY <2>1, <2>2, <2>3, <2>4
<1> QED
  BY <1>1, <1>2

----------------------------------------
(* One lemma for each kind of step. *)

\* Only what is pending changes, or the load whose promise was resolved reads its page.
LEMMA Resolving ==
    ASSUME Sound, NEW t \in timer \cup strays \cup writes,
           loads' = Resolved(t.waiter),
           \/ timer' \in SUBSET timer /\ strays' \in SUBSET strays
           \/ timer' = Again /\ strays' \in SUBSET (timer \cup strays),
           writes' \in SUBSET writes,
           t.waiter # Nobody => t \notin timer' \cup strays' \cup writes',
           unsaved' \in BOOLEAN, unsaved' => unsaved,
           t.waiter # Nobody => ~unsaved' \/ risky',
           risky => risky',
           files' \in [Pages -> SUBSET Token],
           \A page \in Pages : files'[page] = files[page] \/ \E w \in writes :
                                   w.page = page /\ files'[page] = w.text,
           UNCHANGED <<shown, opened, text, nav, events>>
    PROVE  Sound'
<1> USE DEF Sound, nav
<1>0. Again \in SUBSET TimerRecord /\ \A u \in Again : u.waiter = Nobody
  BY DEF Again, TimerRecord, Nobody
<1>1. CASE loads' = loads /\ t.waiter = Nobody
  <2>1. EditorTypes'
    BY <1>0, <1>1 DEF EditorTypes
  <2>2. Whereabouts'
    BY <1>1 DEF Whereabouts
  <2>3. Waits'
    <3>1. CASE timer' \in SUBSET timer /\ strays' \in SUBSET strays
      BY <1>1, <3>1 DEF Waits
    <3>2. CASE timer' = Again /\ strays' \in SUBSET (timer \cup strays)
      <4>1. \A u, v \in timer \cup strays : u.waiter # Nobody /\ v.waiter # Nobody => u = v
        BY DEF Waits
      <4>2. \A u \in timer' : u.waiter = Nobody
        BY <1>0, <3>2
      <4>3. \A u, v \in timer' : u = v
        BY <3>2 DEF Again
      <4>4. \A u \in timer \cup strays, w \in writes : u.waiter = Nobody \/ w.waiter = Nobody
        BY DEF Waits
      <4>5. \A u \in timer' \cup strays' \cup writes' :
               u.waiter # Nobody => u \in timer \cup strays \cup writes
        BY <3>2, <4>2
      <4>6. \A u \in timer' \cup strays' : u.again => u.waiter = Nobody
        BY <3>2, <4>2 DEF Waits
      <4>7. \A u \in timer' \cup strays' \cup writes' :
               u.waiter # Nobody => \E l \in loads' : l.id = u.waiter /\ l.at = "leave"
        BY <1>1, <4>5 DEF Waits
      <4>8. \A w, v \in writes' : w.waiter # Nobody /\ v.waiter # Nobody => w = v
        BY DEF Waits
      <4> QED
        BY <3>2, <4>1, <4>2, <4>3, <4>4, <4>6, <4>7, <4>8 DEF Waits
    <3> QED
      BY <3>1, <3>2
  <2>4. ~risky' => Clean'
    BY <1>1 DEF Clean, EditorTypes
  <2> QED
    BY <2>1, <2>2, <2>3, <2>4
<1>2. CASE t.waiter # Nobody
  <2>1. PICK l \in loads, k \in LoadCall :
           /\ t.waiter = l.id /\ loads = {l} /\ l.at = "leave" /\ loads' = {k}
           /\ k.id = l.id /\ k.page = l.page /\ k.kind = l.kind /\ k.at = "read"
    BY <1>2, ResolvedCalm
  <2>2. EditorTypes'
    BY <1>0, <2>1 DEF EditorTypes
  <2>3. Whereabouts'
    BY <2>1 DEF Whereabouts
  <2>4. \A u \in timer' \cup strays' \cup writes' : u.waiter = Nobody
    BY <1>0, <1>2 DEF Waits
  <2>5. Waits'
    BY <2>4 DEF Waits, Again
  <2>6. ASSUME ~risky' PROVE Clean'
    <3>1. Clean /\ ~unsaved'
      BY <1>2, <2>6
    <3>2. \A page \in Pages : \A token \in files'[page] : token[1] = page
      BY <3>1 DEF Clean
    <3>3. \A w \in writes' : \A token \in w.text : token[1] = w.page
      BY <3>1 DEF Clean
    <3>4. \A token \in text' : token[1] = opened'
      BY <3>1 DEF Clean
    <3>5. \A j \in loads' : j.at # "show" /\ ~unsaved'
      BY <2>1, <3>1
    <3> QED
      BY <3>2, <3>3, <3>4, <3>5 DEF Clean
  <2> QED
    BY <2>2, <2>3, <2>5, <2>6
<1>3. t.waiter = Nobody => loads' = loads
  <2>1. ASSUME t.waiter = Nobody PROVE \A l \in loads : l.id # t.waiter
    BY <2>1 DEF EditorTypes, LoadCall
  <2> QED
    BY <2>1 DEF Resolved
<1> QED
  BY <1>1, <1>2, <1>3

\* A timer fires; this and those are what is left pending.
LEMMA FireSound ==
    ASSUME Sound, Calm', NEW t \in timer \cup strays, NEW this, NEW those, Fire(t, this, those),
           \/ t \in timer /\ this = {} /\ those = strays
           \/ t \in strays /\ this = timer /\ those = strays \ {t}
    PROVE  Sound'
<1> USE DEF Sound
<1>1. UNCHANGED <<files, shown, opened, text, unsaved, nav, events>>
  BY DEF Fire, editor
<1>2. t.again \in BOOLEAN /\ unsaved \in BOOLEAN
  BY DEF EditorTypes, TimerRecord
<1>3. this \in SUBSET timer /\ those \in SUBSET strays
  OBVIOUS
<1>4. t.waiter # Nobody => t \notin this \cup those \cup writes
  BY DEF Waits
<1>5. CASE t.again
  <2>1. Save(Nobody, loads, this) /\ strays' = those /\ UNCHANGED <<writes, risky>>
    BY <1>5 DEF Fire
  <2>2. timer' = Timer(Nobody) /\ loads' = loads
    BY <1>3, <2>1, SaveCalm
  <2>3. Timer(Nobody) \in SUBSET TimerRecord
    BY DEF Timer, TimerRecord, Nobody
  <2>4. EditorTypes'
    BY <1>1, <1>3, <2>1, <2>2, <2>3 DEF EditorTypes, nav
  <2>5. Whereabouts'
    BY <1>1, <2>2 DEF Whereabouts, nav
  <2>6. Waits'
    BY <1>3, <2>1, <2>2 DEF Waits, Timer, Nobody
  <2>7. ~risky' => Clean'
    BY <1>1, <2>1, <2>2 DEF Clean
  <2> QED
    BY <2>4, <2>5, <2>6, <2>7
<1>6. CASE ~t.again /\ ~unsaved
  <2>1. loads' = Resolved(t.waiter) /\ timer' = this /\ strays' = those /\ UNCHANGED <<writes, risky>>
    BY <1>6 DEF Fire
  <2> QED
    BY <1>1, <1>3, <1>4, <1>6, <2>1, Resolving DEF EditorTypes
<1>7. CASE ~t.again /\ unsaved /\ composing
  <2>1. /\ loads' = Resolved(t.waiter) /\ timer' = Again /\ strays' = those \cup this
        /\ UNCHANGED writes /\ risky' = (risky \/ t.waiter # Nobody)
    BY <1>7 DEF Fire
  <2>2. \A u \in Again : u.waiter = Nobody
    BY DEF Again
  <2> QED
    BY <1>1, <1>3, <1>4, <1>7, <2>1, <2>2, Resolving DEF EditorTypes
<1>8. CASE ~t.again /\ unsaved /\ ~composing
  <2> DEFINE w == [page |-> shown, text |-> text, waiter |-> t.waiter]
  <2>1. /\ writes' = writes \cup {w} /\ timer' = this /\ strays' = those
        /\ UNCHANGED <<loads, risky>>
    BY <1>8 DEF Fire
  <2>2. w \in [page : Pages, text : SUBSET Token, waiter : Nat]
    BY DEF EditorTypes, TimerRecord
  <2>3. EditorTypes'
    BY <1>1, <1>3, <2>1, <2>2 DEF EditorTypes, nav
  <2>4. Whereabouts'
    BY <1>1, <2>1 DEF Whereabouts, nav
  <2>5. t.waiter # Nobody => \A u \in this \cup those \cup writes : u.waiter = Nobody
    BY DEF Waits
  <2>6. Waits'
    BY <1>3, <2>1, <2>5 DEF Waits
  <2>7. ASSUME ~risky' PROVE Clean'
    <3>1. Clean
      BY <2>1, <2>7
    <3>2. shown = opened
      BY <1>8, <3>1 DEF Clean, Whereabouts
    <3> QED
      BY <1>1, <2>1, <3>1, <3>2 DEF Clean
  <2> QED
    BY <2>3, <2>4, <2>6, <2>7
<1> QED
  BY <1>2, <1>5, <1>6, <1>7, <1>8

LEMMA PageSavedSound ==
    ASSUME Sound, NEW w \in writes, PageSaved(w)
    PROVE  Sound'
<1>1. /\ files' = [files EXCEPT ![w.page] = w.text]
      /\ w.page \in Pages /\ w.text \in SUBSET Token
  BY DEF PageSaved, Sound, EditorTypes
<1>2. files' \in [Pages -> SUBSET Token]
  BY <1>1 DEF Sound, EditorTypes
<1>3. \A page \in Pages : files'[page] = files[page] \/ \E v \in writes :
         v.page = page /\ files'[page] = v.text
  BY <1>1 DEF Sound, EditorTypes
<1>4. w.waiter # Nobody => w \notin timer' \cup strays' \cup writes'
  BY DEF Sound, Waits, PageSaved
<1> QED
  BY <1>2, <1>3, <1>4, Resolving DEF PageSaved, editorGhosts, typing

\* A load begins to leave the page shown, and nothing else was awaited.
LEMMA LeavingSound ==
    ASSUME Sound, EditorTypes', NEW page, NEW kind \in {"popstate", "reload"},
           loads' = {Leaving(page, kind)}, timer' = Timer(1),
           \A u \in strays' \cup writes' : u.waiter = Nobody,
           kind = "popstate" => page = Last(history'),
           kind = "reload" => page = shown' /\ (goBack' \/ shown' = Last(history')),
           opened' = shown'
    PROVE  Whereabouts' /\ Waits'
<1> DEFINE l == Leaving(page, kind)
<1>1. l.id = 1 /\ l.page = page /\ l.kind = kind /\ l.at = "leave"
  BY DEF Leaving
<1>2. Whereabouts'
  <2> HIDE DEF l
  <2>1. loads' = {l}
    BY DEF l
  <2> QED
    BY <1>1, <2>1 DEF Whereabouts
<1>3. \A t \in timer' : t = [waiter |-> 1, again |-> FALSE]
  BY DEF Timer
<1>4. \A t, u \in timer' : t = u
  BY <1>3
<1>5. \A t \in timer' \cup strays' \cup writes' :
         t.waiter # Nobody => \E k \in loads' : k.id = t.waiter /\ k.at = "leave"
  BY <1>1, <1>3
<1>6. \A t \in timer' \cup strays' : t.again => t.waiter = Nobody
  BY <1>3
<1> HIDE DEF l
<1>7. Waits'
  BY <1>4, <1>5, <1>6 DEF Waits
<1> QED
  BY <1>2, <1>7

\* A page is navigated to or loaded again.
LEMMA BeginSound ==
    ASSUME Sound, Calm', NEW page \in Pages, NEW kind \in {"popstate", "reload"},
           Begin(page, kind, loads, timer),
           history' \in Seq(Pages), history' # <<>>,
           kind = "popstate" => page = Last(history'),
           kind = "reload" => page = shown /\ UNCHANGED <<goBack, history>>,
           promise' \in BOOLEAN, goBack' \in BOOLEAN, waiting' \in Seq(Pages), events' \in Nat,
           risky => risky',
           UNCHANGED <<files, editor, strays, writes>>
    PROVE  Sound'
<1> USE DEF Sound, editor
<1>1. loads = {} /\ loads' = {Leaving(page, kind)} /\ timer' = Timer(1)
  BY BeginCalm, Zenon
<1>2. loads' \in SUBSET LoadCall
  BY <1>1, LeavingType
<1>3. timer' \in SUBSET TimerRecord
  BY <1>1 DEF Timer, TimerRecord
<1>4. EditorTypes'
  BY <1>2, <1>3 DEF EditorTypes
<1>5. opened = shown /\ (goBack \/ shown = Last(history))
  BY <1>1 DEF Whereabouts
<1>6. \A u \in strays' \cup writes' : u.waiter = Nobody
  BY <1>1 DEF Waits
<1>7. Whereabouts' /\ Waits'
  BY <1>1, <1>4, <1>5, <1>6, LeavingSound
<1>8. \A l \in loads' : l.at = "leave"
  BY <1>1 DEF Leaving
<1>9. ~risky' => Clean'
  BY <1>8 DEF Clean
<1> QED
  BY <1>4, <1>7, <1>9

\* A load ends, and what navigate was waiting for goes on.
LEMMA EndSound ==
    ASSUME Sound, Calm', NEW l \in loads, NEW failed \in BOOLEAN,
           NEW pending \in SUBSET TimerRecord,
           EndLoad(l, pending, failed),
           \A t, u \in pending : t = u,
           \A u \in pending \cup strays' \cup writes' : u.waiter = Nobody,
           strays' \in SUBSET TimerRecord, writes' \in SUBSET writes,
           IF failed THEN l.at # "show" /\ UNCHANGED <<opened, text>>
                     ELSE l.at = "show" /\ opened' = l.page /\ text' = l.doc,
           events' \in Nat, risky => risky',
           UNCHANGED <<files, shown, unsaved>>
    PROVE  Sound'
<1> USE DEF Sound
<1>1. /\ waiting' \in Seq(Pages) /\ promise' \in BOOLEAN /\ goBack' \in BOOLEAN
      /\ history' \in Seq(Pages) /\ history' # <<>>
      /\ \/ /\ loads' = {} /\ timer' = pending
            /\ history' = history
            /\ l.kind = "reload" => goBack' = goBack
            /\ l.kind = "popstate" /\ failed => goBack'
         \/ /\ loads' = {Leaving(Last(history'), "popstate")} /\ timer' = Timer(1)
  BY EndLoadCalm, Zenon
<1>2. l \in LoadCall
  BY DEF EditorTypes
<1>3. text' \in SUBSET Token /\ opened' \in Pages
  BY <1>2 DEF EditorTypes, LoadCall
<1>4. opened' = shown
  BY DEF Whereabouts
<1>5. ASSUME ~risky' PROVE \A token \in text' : token[1] = opened'
  BY <1>5 DEF Clean
<1>6. CASE loads' = {} /\ timer' = pending /\ history' = history
           /\ (l.kind = "reload" => goBack' = goBack)
           /\ (l.kind = "popstate" /\ failed => goBack')
  <2>1. EditorTypes'
    BY <1>1, <1>3, <1>6 DEF EditorTypes
  <2>2. goBack' \/ shown' = Last(history')
    BY <1>2, <1>6 DEF Whereabouts, LoadCall
  <2>3. Whereabouts'
    BY <1>4, <1>6, <2>2 DEF Whereabouts
  <2>4. Waits'
    BY <1>6 DEF Waits
  <2>5. ~risky' => Clean'
    BY <1>5, <1>6 DEF Clean
  <2> QED
    BY <2>1, <2>3, <2>4, <2>5
<1>7. CASE loads' = {Leaving(Last(history'), "popstate")} /\ timer' = Timer(1)
  <2>1. Last(history') \in Pages
    BY <1>1 DEF Last
  <2>2. loads' \in SUBSET LoadCall
    BY <1>7, <2>1, LeavingType
  <2>3. timer' \in SUBSET TimerRecord
    BY <1>7 DEF Timer, TimerRecord
  <2>4. EditorTypes'
    BY <1>1, <1>3, <2>2, <2>3 DEF EditorTypes
  <2>5. \A u \in strays' \cup writes' : u.waiter = Nobody
    OBVIOUS
  <2>6. Whereabouts' /\ Waits'
    BY <1>4, <1>7, <2>4, <2>5, LeavingSound
  <2>7. \A k \in loads' : k.at = "leave"
    BY <1>7 DEF Leaving
  <2>8. ~risky' => Clean'
    BY <1>5, <2>7 DEF Clean
  <2> QED
    BY <2>4, <2>6, <2>8
<1> QED
  BY <1>1, <1>6, <1>7

LEMMA WriteFailsSound ==
    ASSUME Sound, Calm', NEW w \in writes, WriteFails(w)
    PROVE  Sound'
<1> USE DEF Sound
<1>1. /\ writes' = writes \ {w} /\ strays' = strays \cup timer /\ events' \in Nat
      /\ UNCHANGED <<files, shown, opened, text, unsaved, risky>>
  BY DEF WriteFails, Event, EditorTypes, editor, typing
<1>2. Again \in SUBSET TimerRecord /\ (\A t, u \in Again : t = u)
      /\ \A u \in Again : u.waiter = Nobody
  BY DEF Again, TimerRecord, Nobody
<1>3. strays' \in SUBSET TimerRecord /\ writes' \in SUBSET writes
  BY <1>1 DEF EditorTypes
<1>4. CASE w.waiter = Nobody
  <2>1. \A l \in loads : l.id # w.waiter
    BY <1>4 DEF EditorTypes, LoadCall
  <2>2. timer' = Again /\ UNCHANGED <<loads, nav>>
    BY <2>1 DEF WriteFails
  <2>3. EditorTypes'
    BY <1>1, <1>2, <1>3, <2>2 DEF EditorTypes, nav
  <2>4. Whereabouts'
    BY <1>1, <2>2 DEF Whereabouts, nav
  <2>5. Waits'
    <3>1. \A u, v \in timer \cup strays : u.waiter # Nobody /\ v.waiter # Nobody => u = v
      BY DEF Waits
    <3>2. \A u \in timer \cup strays, v \in writes : u.waiter = Nobody \/ v.waiter = Nobody
      BY DEF Waits
    <3>3. \A u \in timer' \cup strays' : u.again => u.waiter = Nobody
      BY <1>1, <1>2, <2>2 DEF Waits
    <3>4. \A u \in timer' \cup strays' \cup writes' :
             u.waiter # Nobody => \E l \in loads' : l.id = u.waiter /\ l.at = "leave"
      BY <1>1, <1>2, <2>2 DEF Waits
    <3>5. \A u, v \in writes' : u.waiter # Nobody /\ v.waiter # Nobody => u = v
      BY <1>1 DEF Waits
    <3> QED
      BY <1>1, <1>2, <2>2, <3>1, <3>2, <3>3, <3>4, <3>5 DEF Waits
  <2>6. ~risky' => Clean'
    BY <1>1, <2>2 DEF Clean
  <2> QED
    BY <2>3, <2>4, <2>5, <2>6
<1>5. CASE w.waiter # Nobody
  <2>1. PICK l \in loads : l.id = w.waiter /\ l.at = "leave"
    BY <1>5 DEF Waits
  <2>2. loads = {l}
    BY DEF Whereabouts
  <2>3. \E k \in loads : EndLoad(k, Again, TRUE)
    BY <2>1, Zenon DEF WriteFails
  <2>4. EndLoad(l, Again, TRUE)
    BY <2>2, <2>3, Zenon
  <2>5. \A u \in Again \cup strays' \cup writes' : u.waiter = Nobody
    BY <1>1, <1>2, <1>5 DEF Waits
  <2>6. risky => risky'
    BY <1>1
  <2>7. TRUE \in BOOLEAN /\ Again \in SUBSET TimerRecord
    BY <1>2
  <2>8. IF TRUE THEN l.at # "show" /\ UNCHANGED <<opened, text>>
                ELSE l.at = "show" /\ opened' = l.page /\ text' = l.doc
    BY <1>1, <2>1
  <2>9. UNCHANGED <<files, shown, unsaved>>
    BY <1>1
  <2> QED
    BY <1>1, <1>2, <1>3, <2>4, <2>5, <2>6, <2>7, <2>8, <2>9, EndSound, Zenon
<1> QED
  BY <1>4, <1>5

LEMMA LoadSound ==
    ASSUME Sound, Calm', NEW l \in loads, Load(l) \/ ReadFails(l)
    PROVE  Sound'
<1> USE DEF Sound
<1>1. timer \in SUBSET TimerRecord /\ strays \in SUBSET TimerRecord /\ l \in LoadCall
  BY DEF EditorTypes
<1>2. loads = {l}
  BY DEF Whereabouts
<1>3. l.at # "leave" => \A u \in timer \cup strays \cup writes : u.waiter = Nobody
  BY <1>2 DEF Waits
<1>4. \A t, u \in timer : t = u
  BY DEF Waits
<1>5. CASE ReadPage(l)
  <2> DEFINE k == [l EXCEPT !.at = "show", !.doc = files[l.page]]
  <2>1. /\ l.at = "read" /\ shown' = l.page /\ loads' = {k}
        /\ UNCHANGED <<files, opened, text, unsaved, saving, nav, events, risky>>
    BY <1>2, <1>5 DEF ReadPage, editorGhosts, typing
  <2>2. k \in LoadCall /\ k.page = l.page /\ k.kind = l.kind /\ k.at = "show"
        /\ k.doc = files[l.page] /\ l.page \in Pages
    BY <1>1 DEF LoadCall, EditorTypes
  <2> HIDE DEF k
  <2>3. EditorTypes'
    BY <2>1, <2>2 DEF EditorTypes, saving, nav
  <2>4. Whereabouts'
    BY <2>1, <2>2 DEF Whereabouts, nav
  <2>5. Waits'
    <3>1. \A u \in timer' \cup strays' \cup writes' : u.waiter = Nobody
      BY <1>3, <2>1 DEF saving
    <3>2. \A t, u \in timer' : t = u
      BY <1>4, <2>1 DEF saving
    <3> QED
      BY <3>1, <3>2 DEF Waits
  <2>6. ~risky' => Clean'
    BY <2>1, <2>2 DEF Clean, saving
  <2> QED
    BY <2>3, <2>4, <2>5, <2>6
<1>6. CASE ReadFails(l)
  <2>1. l.at = "read" /\ EndLoad(l, timer, TRUE) /\ Event
    BY <1>6, Zenon DEF ReadFails
  <2>6. events' \in Nat
    BY <2>1 DEF Event, EditorTypes
  <2>2. UNCHANGED <<files, shown, opened, text, unsaved, strays, writes, risky>>
    BY <1>6 DEF ReadFails, editor, typing
  <2>3. \A u \in timer \cup strays' \cup writes' : u.waiter = Nobody
    BY <1>3, <2>1, <2>2
  <2>4. IF TRUE THEN l.at # "show" /\ UNCHANGED <<opened, text>>
                ELSE l.at = "show" /\ opened' = l.page /\ text' = l.doc
    BY <2>1, <2>2
  <2>5. /\ TRUE \in BOOLEAN /\ strays' \in SUBSET TimerRecord /\ writes' \in SUBSET writes
        /\ UNCHANGED <<files, shown, unsaved>> /\ (risky => risky')
    BY <1>1, <2>2
  <2> QED
    BY <1>1, <1>4, <2>1, <2>3, <2>4, <2>5, <2>6, EndSound, Zenon
<1>7. CASE ShowPage(l)
  <2>1. l.at = "show" /\ EndLoad(l, timer, FALSE)
    BY <1>7, Zenon DEF ShowPage
  <2>2. /\ text' = l.doc /\ opened' = l.page
        /\ UNCHANGED <<files, shown, unsaved, strays, writes, events, risky>>
    BY <1>7 DEF ShowPage, typing
  <2>3. \A u \in timer \cup strays' \cup writes' : u.waiter = Nobody
    BY <1>3, <2>1, <2>2
  <2>4. IF FALSE THEN l.at # "show" /\ UNCHANGED <<opened, text>>
                 ELSE l.at = "show" /\ opened' = l.page /\ text' = l.doc
    BY <2>1, <2>2
  <2>5. /\ FALSE \in BOOLEAN /\ strays' \in SUBSET TimerRecord /\ writes' \in SUBSET writes
        /\ UNCHANGED <<files, shown, unsaved>> /\ (risky => risky') /\ events' \in Nat
    BY <1>1, <2>2 DEF EditorTypes
  <2> QED
    BY <1>1, <1>4, <2>1, <2>3, <2>4, <2>5, EndSound, Zenon
<1> QED
  BY <1>5, <1>6, <1>7 DEF Load

\* save is called by what the user does, or nothing happens to the timer.
LEMMA SaveSound ==
    ASSUME Sound, Calm', Save(Nobody, loads, timer) \/ UNCHANGED <<timer, loads>>,
           UNCHANGED <<strays, writes>>
    PROVE  Waits' /\ loads' = loads /\ timer' \in SUBSET TimerRecord
<1>1. CASE Save(Nobody, loads, timer)
  <2>1. /\ timer' = Timer(Nobody) /\ loads' = loads
        /\ \A t \in timer : t.waiter = Nobody
    BY <1>1, SaveCalm DEF Sound
  <2>2. \A t \in timer' : t = [waiter |-> Nobody, again |-> FALSE]
    BY <2>1 DEF Timer
  <2>3. Waits'
    <3>1. /\ \A t \in timer' : t.waiter = Nobody
          /\ \A t, u \in timer' : t = u
      <4> DEFINE r == [waiter |-> Nobody, again |-> FALSE]
      <4>1. r.waiter = Nobody
        OBVIOUS
      <4>2. \A t \in timer' : t = r
        BY <2>2
      <4> HIDE DEF r
      <4> QED
        BY <4>1, <4>2
    <3>2. \A t \in timer' \cup strays' : t.again => t.waiter = Nobody
      BY <3>1 DEF Waits, Sound
    <3>3. \A t \in timer' \cup strays' \cup writes' :
             t.waiter # Nobody => \E l \in loads' : l.id = t.waiter /\ l.at = "leave"
      BY <2>1, <3>1 DEF Waits, Sound
    <3> QED
      BY <3>1, <3>2, <3>3 DEF Waits, Sound
  <2> QED
    BY <2>1, <2>3 DEF Timer, TimerRecord, Nobody
<1>2. CASE UNCHANGED <<timer, loads>>
  BY <1>2 DEF Sound, EditorTypes, Waits
<1> QED
  BY <1>1, <1>2

LEMMA TypingSound ==
    ASSUME Sound, Calm', Type \/ BeginComposition \/ EndComposition
    PROVE  Sound'
<1> USE DEF Sound
<1>1. CASE Type
  <2> DEFINE token == <<opened, "user", events>>
  <2>1. /\ text' = text \cup {token} /\ unsaved' = TRUE /\ events' \in Nat
        /\ risky' = (risky \/ loads # {})
        /\ UNCHANGED <<files, shown, opened, strays, writes, nav>>
        /\ Save(Nobody, loads, timer) \/ UNCHANGED <<timer, loads>>
    BY <1>1 DEF Type, Event, EditorTypes
  <2>2. Waits' /\ loads' = loads /\ timer' \in SUBSET TimerRecord
    BY <2>1, SaveSound
  <2>3. token \in Token /\ token[1] = opened
    BY DEF Token, EditorTypes
  <2> HIDE DEF token
  <2>4. EditorTypes'
    BY <2>1, <2>2, <2>3 DEF EditorTypes, nav
  <2>5. Whereabouts'
    BY <2>1, <2>2 DEF Whereabouts, nav
  <2>6. ~risky' => Clean'
    BY <2>1, <2>2, <2>3 DEF Clean
  <2> QED
    BY <2>2, <2>4, <2>5, <2>6
<1>2. CASE BeginComposition \/ EndComposition
  <2>1. /\ events' \in Nat
        /\ UNCHANGED <<files, shown, opened, text, unsaved, strays, writes, nav, risky>>
        /\ Save(Nobody, loads, timer) \/ UNCHANGED <<timer, loads>>
    BY <1>2 DEF BeginComposition, EndComposition, Event, EditorTypes, editor, saving, editorGhosts, typing
  <2>2. Waits' /\ loads' = loads /\ timer' \in SUBSET TimerRecord
    BY <2>1, SaveSound
  <2>3. EditorTypes'
    BY <2>1, <2>2 DEF EditorTypes, nav
  <2>4. Whereabouts'
    BY <2>1, <2>2 DEF Whereabouts, nav
  <2>5. ~risky' => Clean'
    BY <2>1, <2>2 DEF Clean
  <2> QED
    BY <2>2, <2>3, <2>4, <2>5
<1> QED
  BY <1>1, <1>2

LEMMA NavigateSound ==
    ASSUME Sound, Calm', NEW page \in Pages, Navigate(page)
    PROVE  Sound'
<1> USE DEF Sound
<1>1. /\ events' \in Nat
      /\ UNCHANGED <<files, editor, strays, writes, goBack, risky>>
  BY DEF Navigate, Event, EditorTypes, typing
<1>2. CASE promise
  <2>1. waiting' = Append(waiting, page) /\ UNCHANGED <<promise, history, timer, loads>>
    BY <1>2 DEF Navigate
  <2>2. EditorTypes'
    BY <1>1, <2>1 DEF EditorTypes, editor
  <2>3. Whereabouts' /\ Waits'
    BY <1>1, <2>1 DEF Whereabouts, Waits, editor
  <2>4. ~risky' => Clean'
    BY <1>1, <2>1 DEF Clean, editor
  <2> QED
    BY <2>2, <2>3, <2>4
<1>3. CASE ~promise
  <2>1. /\ promise' = TRUE /\ history' = Append(history, page) /\ waiting' = waiting
        /\ Begin(page, "popstate", loads, timer)
    BY <1>3, Zenon DEF Navigate
  <2>2. history' \in Seq(Pages) /\ history' # <<>> /\ page = Last(history')
    BY <2>1, HistoryGrows DEF EditorTypes
  <2>3. promise' \in BOOLEAN /\ goBack' \in BOOLEAN /\ waiting' \in Seq(Pages)
    BY <1>1, <2>1 DEF EditorTypes
  <2>4. /\ "popstate" \in {"popstate", "reload"} /\ (risky => risky')
        /\ UNCHANGED <<files, editor, strays, writes>>
    BY <1>1
  <2> QED
    BY <1>1, <2>1, <2>2, <2>3, <2>4, BeginSound, Zenon
<1> QED
  BY <1>2, <1>3 DEF EditorTypes

LEMMA PopStateSound ==
    ASSUME Sound, Calm', PopState, goBack' \in BOOLEAN, events' \in Nat
    PROVE  Sound'
<1> USE DEF Sound
<1>1. /\ Len(history) > 1 /\ history' = Front(history)
      /\ Begin(Last(Front(history)), "popstate", loads, timer)
      /\ UNCHANGED <<files, editor, strays, writes, promise, waiting, risky>>
  BY Zenon DEF PopState, typing
<1>2. Front(history) \in Seq(Pages) /\ Front(history) # <<>> /\ Last(Front(history)) \in Pages
  <2>1. history \in Seq(Pages) /\ Len(history) \in Nat
    BY DEF EditorTypes
  <2>2. Front(history) \in Seq(Pages) /\ Len(Front(history)) = Len(history) - 1
    BY <1>1, <2>1 DEF Front
  <2> QED
    BY <1>1, <2>1, <2>2 DEF Last
<1>3. promise' \in BOOLEAN /\ waiting' \in Seq(Pages) /\ (risky => risky')
      /\ "popstate" \in {"popstate", "reload"} /\ UNCHANGED <<files, editor, strays, writes>>
  BY <1>1 DEF EditorTypes
<1>4. Last(Front(history)) = Last(history')
  BY <1>1
<1> QED
  BY <1>1, <1>2, <1>3, <1>4, BeginSound, Zenon

LEMMA ElsewhereSound ==
    ASSUME Sound, Calm', NEW page \in Pages, PageChangedElsewhere(page) \/ FileChanged(page)
    PROVE  Sound'
<1> USE DEF Sound
<1>1. CASE PageChangedElsewhere(page)
  <2> DEFINE token == <<page, "other", events>>
  <2>1. /\ files' = [files EXCEPT ![page] = @ \cup {token}] /\ events' \in Nat
        /\ UNCHANGED <<shown, opened, text, unsaved, timer, strays, writes, loads, nav, risky>>
    BY <1>1 DEF PageChangedElsewhere, Event, EditorTypes, editor, saving, editorGhosts, typing
  <2>2. token \in Token /\ token[1] = page
    BY DEF Token, EditorTypes
  <2> HIDE DEF token
  <2>3. EditorTypes'
    BY <2>1, <2>2 DEF EditorTypes, nav
  <2>4. Whereabouts' /\ Waits'
    BY <2>1 DEF Whereabouts, Waits, nav
  <2>5. ~risky' => Clean'
    BY <2>1, <2>2 DEF Clean, EditorTypes
  <2> QED
    BY <2>3, <2>4, <2>5
<1>2. CASE FileChanged(page)
  <2>1. UNCHANGED <<files, editor, strays, writes, nav, events, risky>>
    BY <1>2 DEF FileChanged, typing
  <2>2. CASE shown = page /\ Begin(page, "reload", loads, timer)
    <3>1. /\ events' \in Nat /\ promise' \in BOOLEAN /\ goBack' \in BOOLEAN
          /\ waiting' \in Seq(Pages) /\ history' \in Seq(Pages) /\ history' # <<>>
      BY <2>1 DEF EditorTypes, nav
    <3>2. /\ "reload" \in {"popstate", "reload"} /\ (risky => risky')
          /\ page = shown /\ UNCHANGED <<goBack, history>>
          /\ UNCHANGED <<files, editor, strays, writes>>
      BY <2>1, <2>2 DEF nav
    <3>3. "reload" # "popstate"
      OBVIOUS
    <3> QED
      BY <2>2, <3>1, <3>2, <3>3, BeginSound, Zenon
  <2>3. CASE UNCHANGED <<timer, loads>>
    <3>1. EditorTypes'
      BY <2>1, <2>3 DEF EditorTypes, editor, nav
    <3>2. Whereabouts' /\ Waits'
      BY <2>1, <2>3 DEF Whereabouts, Waits, editor, nav
    <3>3. ~risky' => Clean'
      BY <2>1, <2>3 DEF Clean, editor
    <3> QED
      BY <3>1, <3>2, <3>3
  <2> QED
    BY <1>2, <2>2, <2>3, Zenon DEF FileChanged
<1> QED
  BY <1>1, <1>2

----------------------------------------
(* The invariant and the theorems. *)

LEMMA EditorInitInv == EditorInit => EditorInv
<1> SUFFICES ASSUME EditorInit PROVE Sound
  BY DEF EditorInv
<1> USE EditorAssumption DEF EditorInit
<1>1. Origin(Home) = {<<Home, "origin", 0>>} /\ \A page \in Pages : Origin(page) \in SUBSET Token
  BY DEF Origin, Token
<1>2. EditorTypes
  <2>1. files \in [Pages -> SUBSET Token] /\ text \in SUBSET Token
    BY <1>1
  <2>2. history \in Seq(Pages) /\ history # <<>> /\ waiting \in Seq(Pages)
    OBVIOUS
  <2>3. timer = {} /\ strays = {} /\ writes = {} /\ loads = {}
    OBVIOUS
  <2> QED
    BY <2>1, <2>2, <2>3 DEF EditorTypes
<1>3. Whereabouts
  BY DEF Whereabouts, Last
<1>4. Waits
  BY DEF Waits
<1>5. Clean
  BY DEF Clean, Origin
<1> QED
  BY <1>2, <1>3, <1>4, <1>5 DEF Sound

LEMMA EditorNextInv == EditorInv /\ [EditorNext]_editorVars => EditorInv'
<1> SUFFICES ASSUME EditorInv, [EditorNext]_editorVars, Calm' PROVE Sound'
  BY DEF EditorInv
<1>1. Sound
  BY CalmBefore, Zenon DEF EditorInv
<1>2. CASE Type \/ BeginComposition \/ EndComposition
  BY <1>1, <1>2, TypingSound, Zenon
<1>3. CASE FireTimer \/ FireStray
  <2>1. ASSUME NEW t \in timer, Fire(t, {}, strays) PROVE Sound'
    BY <1>1, <2>1, FireSound, Zenon
  <2>2. ASSUME NEW t \in strays, Fire(t, timer, strays \ {t}) PROVE Sound'
    BY <1>1, <2>2, FireSound, Zenon
  <2> QED
    BY <1>3, <2>1, <2>2, Zenon DEF FireTimer, FireStray
<1>4. ASSUME NEW w \in writes, PageSaved(w) \/ WriteFails(w) PROVE Sound'
  BY <1>1, <1>4, PageSavedSound, WriteFailsSound, Zenon
<1>5. ASSUME NEW l \in loads, Load(l) \/ ReadFails(l) PROVE Sound'
  BY <1>1, <1>5, LoadSound, Zenon
<1>6. CASE Back \/ Revert
  <2>1. PopState
    BY <1>6, Zenon DEF Back, Revert
  <2>2. goBack' \in BOOLEAN /\ events' \in Nat
    <3>1. goBack \in BOOLEAN /\ events \in Nat
      BY <1>1 DEF Sound, EditorTypes
    <3>2. CASE Back
      BY <3>1, <3>2 DEF Back, Event
    <3>3. CASE Revert
      BY <3>1, <3>3 DEF Revert
    <3> QED
      BY <1>6, <3>2, <3>3
  <2> QED
    BY <1>1, <2>1, <2>2, PopStateSound
<1>7. ASSUME NEW page \in Pages, Navigate(page) \/ PageChangedElsewhere(page) \/ FileChanged(page)
      PROVE  Sound'
  BY <1>1, <1>7, NavigateSound, ElsewhereSound, Zenon
<1>8. CASE UNCHANGED editorVars
  BY <1>1, <1>8
     DEF Sound, EditorTypes, Whereabouts, Waits, Clean, editorVars, editor, saving, nav, editorGhosts, typing
<1> QED
  BY <1>2, <1>3, <1>4, <1>5, <1>6, <1>7, <1>8, Zenon DEF EditorNext

\* When no page is loading, the title, the address and the editor agree on the page,
\* after failed reads, writes and navigations too, until loads overlap, one hangs on a
\* timer that was cleared, or a Back fails.
THEOREM TitleAddressAndEditorAgree == EditorSpec => []WhereItSays
<1>1. EditorInv => WhereItSays
  BY DEF EditorInv, Sound, Whereabouts, WhereItSays
<1> QED
  BY <1>1, EditorInitInv, EditorNextInv, PTL DEF EditorSpec

\* No page is ever written with another page's text, unless the user typed while a page
\* was loading, loads overlapped, one hung on a cleared timer, or a Back failed.
THEOREM PagesKeepTheirText == EditorSpec => []NoStrangers
<1>1. EditorInv => NoStrangers
  BY DEF EditorInv, Sound, Clean, NoStrangers
<1> QED
  BY <1>1, EditorInitInv, EditorNextInv, PTL DEF EditorSpec
========================================
