---------------------------- MODULE SpaceSync_proofs ----------------------------
(***************************************************************************)
(* What the sync engine keeps, for any pages, any of them under             *)
(* Library/Std, and any bounds on edits, troubles and overlaps: the snapshot *)
(* is honest, versions survive, and only what was deleted is deleted.  An    *)
(* operation that failed frees the mutex while its calls go on, so one may   *)
(* begin beside them: what is kept is kept of the pages that are Alone, where *)
(* the calls of no two operations met.                                      *)
(*                                                                         *)
(* The inductive invariant says of each page what its two files and its      *)
(* record have to do with each other (PathOK), of each job what may have     *)
(* changed since it read its metadata or its data (JobOK), and of each name  *)
(* a conflicting copy may have that one time is one body there (CopyOK).     *)
(* A lemma per action shows each part kept.                                 *)
(***************************************************************************)
EXTENDS SpaceSync, SequenceTheorems, TLAPS

\* Every path there can be: a page, or a copy, or a copy of one.
Names == {x \in Seq(Pages \cup Nat) : Len(x) >= 1 /\ x[1] \in Pages}
\* The files anybody wrote, by the bodies known and the times passed.
Versions == [body : DOMAIN over, time : 1 .. clock]
\* Where a job may be between two calls.
Ats == {"ready", "push", "pull", "theirs", "dropRemote", "drop", "outdate", "unsync",
        "resolve", "copy", "replace"}

Usage == [edits : Nat, configs : Nat, offline : Nat, faults : Nat, overlaps : Nat]

\* A snapshot of times that have passed.
SnapshotType(S, now) ==
    /\ S = [files |-> S.files, nonSynced |-> S.nonSynced]
    /\ DOMAIN S.files \subseteq Names
    /\ S.files \in [DOMAIN S.files -> (1 .. now) \X (1 .. now)]
    /\ S.nonSynced \subseteq Names

\* A job has, of what it read, what its next call needs.
JobType(j) ==
    /\ j \in [path : Names, back : BOOLEAN, single : BOOLEAN, left : BOOLEAN, no : Nat, at : Ats,
              p : [body : Nat, time : Nat], s : [body : Nat, time : Nat],
              d : Versions \cup {Absent}, e : Versions \cup {Absent}]
    /\ j.at = "ready" =>
          /\ j.p \in Versions \cup {Absent} /\ j.s \in Versions \cup {Absent}
          /\ ~j.back => j.s # Absent /\ used.configs > 0
    /\ j.at = "push" => j.d # Absent
    /\ j.at \in {"pull", "theirs"} => j.e # Absent
    /\ j.at \in {"resolve", "copy", "replace"} => j.d # Absent /\ j.e # Absent
    /\ j.at = "theirs" => j.path[1] \in StdPages
    /\ j.at \in {"copy", "replace"} => j.s.time \in 1 .. clock
    /\ j.at = "replace" => j.p.time \in 1 .. clock

TypeOK ==
    /\ clock \in Nat \ {0}
    /\ over \in [DOMAIN over -> SUBSET Nat] /\ DOMAIN over \subseteq 1 .. clock
    /\ DOMAIN local \subseteq Names /\ local \in [DOMAIN local -> Versions]
    /\ DOMAIN remote \subseteq Names /\ remote \in [DOMAIN remote -> Versions]
    /\ SnapshotType(snapshot, clock) /\ SnapshotType(saved, clock)
    /\ accepted \subseteq Pages
    /\ used \in Usage
    /\ \A j \in jobs : JobType(j)

\* The paths of pages that are not crowded, and one call of syncFile for each.
Alone == {x \in Names : ~Crowded(x)}
OneJob == \A j, k \in jobs : j.path = k.path /\ j.path \in Alone => j = k

\* What the writer of body b had before him, and b.
Over(b) == over[b] \cup {b}
Covers(f, g) == g.body \in Over(f.body)
Both == used.faults > 0 /\ used.configs > 0
\* A file is missing because a user deleted it, or both kinds of trouble happened.
Excuse(x) == x \in Deleted \/ Both

\* The file here and there, and what a snapshot has of it.
L(x) == At(local, x)
R(x) == At(remote, x)
Known(S, x) == x \in DOMAIN S.files
Here(S, x) == S.files[x][1]
There(S, x) == S.files[x][2]

\* Equal times on both sides are equal contents.
Equal(x) ==
    L(x) # Absent /\ R(x) # Absent /\ L(x).time = R(x).time => L(x).body = R(x).body \/ Silent(R(x))

\* So are the times a snapshot has.
Honest(S, x) ==
    Known(S, x) /\ L(x) # Absent /\ R(x) # Absent /\ S.files[x] = <<L(x).time, R(x).time>>
        => L(x).body = R(x).body \/ Silent(R(x))

\* The server lacks a page only with an excuse.
Missing(x) == R(x) = Absent => Excuse(x)

\* A side that is as the snapshot S has it is what the other was written over, or excused:
\* so it may be overwritten by the other.
Traced(S, x) ==
    Known(S, x) =>
        /\ L(x) = Absent /\ x \notin S.nonSynced => Excuse(x)
        /\ L(x) # Absent /\ L(x).time = Here(S, x) =>
              \/ R(x) # Absent /\ Covers(R(x), L(x))
              \/ L(x).body \in exposed \/ Excuse(x)
        /\ R(x) # Absent /\ R(x).time = There(S, x) =>
              \/ L(x) # Absent /\ Covers(L(x), R(x))
              \/ R(x).body \in exposed \/ Excuse(x) \/ x \in S.nonSynced

\* All of it of a page.  The saved snapshot may be of another configuration.
PathOK(x) ==
    /\ Equal(x) /\ Honest(snapshot, x) /\ Honest(saved, x)
    /\ Missing(x)
    /\ Traced(snapshot, x)
    /\ used.configs = 0 => Traced(saved, x)

\* A job that read v here: what is here now is v, or was written meanwhile.
SinceL(x, v) ==
    L(x) # v =>
        IF L(x) = Absent THEN Excuse(x)
        ELSE /\ L(x).body \in exposed
             /\ L(x).time # v.time
             /\ v = Absent \/ v.body \in over[L(x).body] \/ Excuse(x)
             /\ Known(snapshot, x) => L(x).time # Here(snapshot, x)
             /\ Known(saved, x) => L(x).time # Here(saved, x)

\* The same of the server, where a truncation may leave the time.
SinceR(x, v) ==
    R(x) # v =>
        IF R(x) = Absent THEN Excuse(x)
        ELSE /\ R(x).body \in exposed
             /\ v = Absent \/ v.body \in over[R(x).body] \/ Excuse(x)
             /\ \/ Silent(R(x))
                \/ /\ R(x).time # v.time
                   /\ Known(snapshot, x) => R(x).time # There(snapshot, x)
                   /\ Known(saved, x) => R(x).time # There(saved, x)

\* What holds of a page while a job is at it, call by call.
JobOK(j) ==
    LET x == j.path IN
    /\ j.at = "ready" =>
          /\ SinceL(x, j.p) /\ SinceR(x, j.s)
          /\ j.s = Absent => Excuse(x)
          /\ j.p = Absent /\ Known(snapshot, x) /\ x \notin snapshot.nonSynced => Excuse(x)
    /\ j.at \in {"push", "resolve", "copy", "replace"} => SinceL(x, j.d)
    /\ j.at \in {"pull", "theirs", "resolve", "copy", "replace"} => SinceR(x, j.e)
    /\ j.at = "push" /\ R(x) # Absent =>
          \/ Covers(j.d, R(x)) \/ R(x).body \in exposed
          \/ Excuse(x) \/ x \in snapshot.nonSynced
    /\ j.at = "pull" /\ L(x) # Absent =>
          Covers(j.e, L(x)) \/ L(x).body \in exposed \/ Excuse(x)
    /\ j.at \in {"dropRemote", "drop"} => Excuse(x)
    /\ j.at \in {"outdate", "unsync"} =>
          /\ used.configs > 0
          /\ j.at = "outdate" => x \in snapshot.nonSynced \/ Excuse(x)
          /\ L(x) # Absent =>
                \/ R(x) # Absent /\ Covers(R(x), L(x))
                \/ L(x).body \in exposed \/ Excuse(x)

\* The versions there are of z, in the spaces and in the jobs.
Seen(z) ==
    ({L(z), R(z)} \cup UNION {{j.d, j.e} : j \in {k \in jobs : k.path = z}}) \ {Absent}

\* One time is one body, and so is a pair of times that is recorded.
Unique(z) == \A f, g \in Seen(z) : f.time = g.time => f.body = g.body
Paired(S, z) ==
    Known(S, z) => \A f, g \in Seen(z) :
        f.time = Here(S, z) /\ g.time = There(S, z) => f.body = g.body

CopyOK(z) == Unique(z) /\ Paired(snapshot, z) /\ Paired(saved, z)

NoJobAt(z) == \A k \in jobs : k.path # z

\* The copies a conflict made so far: at their times they are the server's version, and
\* one of them stays.
Copying(j) ==
    LET z == Copy(j) IN
    /\ j.at \in {"copy", "replace"} =>
          \A f \in Seen(z) : f.time = j.s.time => f.body = j.e.body
    /\ j.at = "replace" =>
          \A f \in Seen(z) : f.time = j.p.time => f.body = j.e.body
    /\ j.at = "copy" => L(z).body = j.e.body \/ NoJobAt(z)
    /\ j.at = "replace" =>
          \/ L(z).body = j.e.body /\ R(z).body = j.e.body
          \/ NoJobAt(z) /\ (L(z).body = j.e.body \/ R(z).body = j.e.body)

\* Files may be unsynced only after a change of configuration.
BackOK == used.configs = 0 => accepted = Pages

\* The parts about pages and copies, over all that are alone, and the jobs at them.
Pagewise ==
    /\ \A x \in Paths \cap Alone : PathOK(x)
    /\ \A k \in jobs : k.path \in Paths \cap Alone => JobOK(k)

Copies ==
    /\ \A z \in Alone \ Paths : CopyOK(z)
    /\ \A j \in jobs : j.path \in Alone => Copying(j)

IInv == TypeOK /\ OneJob /\ BackOK /\ Pagewise /\ Copies

----------------------------------------
(* Paths, spaces and snapshots *)

\* A name one longer than another is no page and not that name.
LEMMA LongerName ==
    ASSUME NEW x \in Names, NEW y, y \in Seq(Pages \cup Nat), Len(y) = Len(x) + 1, y[1] = x[1]
    PROVE  y \in Names \ Paths /\ y # x
<1>1. Len(x) \in Nat /\ Len(x) >= 1 /\ x[1] \in Pages
  BY DEF Names
<1>2. \A z \in Paths : Len(z) = 1
  BY DEF Paths
<1>3. Len(y) >= 1 /\ Len(y) # 1 /\ Len(y) # Len(x)
  BY <1>1
<1> QED
  BY <1>1, <1>2, <1>3 DEF Names

\* The pages are names of length one.
LEMMA PathNames == Paths \subseteq Names
BY DEF Paths, Names

\* A copy has a name of its own.
LEMMA CopyIsNew ==
    ASSUME NEW x \in Names, NEW t \in Nat
    PROVE  Append(x, t) \in Names \ Paths /\ Append(x, t) # x
<1>1. x \in Seq(Pages \cup Nat) /\ t \in Pages \cup Nat /\ Len(x) >= 1 /\ Len(x) \in Nat
  BY DEF Names
<1>2. /\ Append(x, t) \in Seq(Pages \cup Nat) /\ Len(Append(x, t)) = Len(x) + 1
      /\ Append(x, t)[1] = x[1]
  BY <1>1, AppendProperties
<1> QED
  BY <1>2, LongerName

\* Two copies with one name are of one file and one time.
LEMMA CopiesDiffer ==
    ASSUME NEW x \in Names, NEW t \in Nat, NEW y \in Names, NEW u \in Nat,
           Append(x, t) = Append(y, u)
    PROVE  x = y /\ t = u
<1>1. /\ x \in Seq(Pages \cup Nat) /\ y \in Seq(Pages \cup Nat)
      /\ t \in Pages \cup Nat /\ u \in Pages \cup Nat
  BY DEF Names
<1> QED
  BY <1>1, AppendInjective

\* A write changes one path.
LEMMA StoredAt ==
    ASSUME NEW space, NEW y, NEW f
    PROVE  /\ DOMAIN Stored(space, y, f) = DOMAIN space \cup {y}
           /\ Stored(space, y, f)[y] = f
           /\ \A x \in DOMAIN space : x # y => Stored(space, y, f)[x] = space[x]
           /\ At(Stored(space, y, f), y) = f
           /\ \A x : x # y => At(Stored(space, y, f), x) = At(space, x)
BY DEF Stored, At

\* A deletion changes one path.
LEMMA WithoutAt ==
    ASSUME NEW space, NEW y
    PROVE  /\ DOMAIN Without(space, y) = DOMAIN space \ {y}
           /\ \A x \in DOMAIN space : x # y => Without(space, y)[x] = space[x]
           /\ At(Without(space, y), y) = Absent
           /\ \A x : x # y => At(Without(space, y), x) = At(space, x)
BY DEF Without, Restrict, At

\* A write keeps a space typed.
LEMMA StoredType ==
    ASSUME NEW V, NEW space, space \in [DOMAIN space -> V], DOMAIN space \subseteq Names,
           NEW y \in Names, NEW f \in V, NEW new, new = Stored(space, y, f)
    PROVE  DOMAIN new \subseteq Names /\ new \in [DOMAIN new -> V]
BY DEF Stored

\* A deletion keeps a space typed.
LEMMA WithoutType ==
    ASSUME NEW V, NEW space, space \in [DOMAIN space -> V], DOMAIN space \subseteq Names,
           NEW y, NEW new, new = Without(space, y)
    PROVE  DOMAIN new \subseteq Names /\ new \in [DOMAIN new -> V]
BY DEF Without, Restrict

----------------------------------------
(* What only grows, and what a step of a job does to the two spaces *)

\* What no step takes back.
Grows ==
    /\ clock' \in Nat \ {0} /\ clock <= clock'
    /\ DOMAIN over \subseteq DOMAIN over' /\ \A b \in DOMAIN over : over'[b] = over[b]
    /\ gone \subseteq gone' /\ exposed \subseteq exposed' /\ Alone' \subseteq Alone
    /\ used \in Usage
    /\ used' \in Usage
    /\ used.configs <= used'.configs /\ used.faults <= used'.faults

\* A page that is alone was so before.
LEMMA AloneSame == ASSUME crowded' = crowded PROVE Alone' = Alone
BY DEF Alone, Crowded

\* A file is on a side exactly when reading it there gives a version.
LEMMA Present ==
    ASSUME TypeOK
    PROVE  /\ Absent \notin Versions
           /\ \A x : L(x) # Absent <=> x \in DOMAIN local
           /\ \A x : R(x) # Absent <=> x \in DOMAIN remote
           /\ \A x \in DOMAIN local : L(x) = local[x] /\ L(x) \in Versions
           /\ \A x \in DOMAIN remote : R(x) = remote[x] /\ R(x) \in Versions
           /\ \A x : L(x) \in Versions \cup {Absent} /\ R(x) \in Versions \cup {Absent}
<1>1. Absent \notin Versions
  <2>1. 0 \notin DOMAIN over
    BY DEF TypeOK
  <2> QED
    BY <2>1 DEF Absent, Versions
<1> QED
  BY <1>1 DEF TypeOK, L, R, At

\* A version keeps what it was written over.
LEMMA OverGrows ==
    ASSUME TypeOK, Grows, NEW f \in Versions
    PROVE  f \in Versions' /\ Over(f.body)' = Over(f.body)
<1>1. clock \in Nat /\ f.body \in DOMAIN over
  BY DEF TypeOK, Versions
<1> QED
  BY <1>1 DEF Grows, Versions, Over

\* What excuses a loss goes on excusing it.
LEMMA ExcuseGrows == ASSUME Grows, NEW x, Excuse(x) PROVE Excuse(x)'
<1>1. Deleted \subseteq Deleted'
  BY DEF Grows, Deleted
<1>2. Both => Both'
  <2> USE DEF Grows
  <2>1. /\ used.faults \in Nat /\ used'.faults \in Nat /\ used.faults <= used'.faults
        /\ used.configs \in Nat /\ used'.configs \in Nat /\ used.configs <= used'.configs
    BY DEF Usage
  <2> QED
    BY <2>1 DEF Both
<1> QED
  BY <1>1, <1>2 DEF Excuse

\* Both sides, read after a step that changes nothing, writes one path or deletes it.
LEMMA LocalSame == ASSUME local' = local PROVE \A x : L(x)' = L(x)
BY DEF L

\* The same of the server.
LEMMA RemoteSame == ASSUME remote' = remote PROVE \A x : R(x)' = R(x)
BY DEF R

\* The same of a write here.
LEMMA LocalStored ==
    ASSUME NEW y, NEW f, local' = Stored(local, y, f)
    PROVE  L(y)' = f /\ \A x : x # y => L(x)' = L(x)
BY DEF L, At, Stored

\* The same of a write there.
LEMMA RemoteStored ==
    ASSUME NEW y, NEW f, remote' = Stored(remote, y, f)
    PROVE  R(y)' = f /\ \A x : x # y => R(x)' = R(x)
BY DEF R, At, Stored

\* The same of a deletion here.
LEMMA LocalWithout ==
    ASSUME NEW y, local' = Without(local, y)
    PROVE  L(y)' = Absent /\ \A x : x # y => L(x)' = L(x)
BY WithoutAt DEF L

\* The same of a deletion there.
LEMMA RemoteWithout ==
    ASSUME NEW y, remote' = Without(remote, y)
    PROVE  R(y)' = Absent /\ \A x : x # y => R(x)' = R(x)
BY WithoutAt DEF R

\* What both sides have of y after the next write of j.
NewL(j, y) ==
    IF y = j.path /\ j.at \in {"pull", "theirs"} THEN j.e
    ELSE IF y = j.path /\ j.at \in {"drop", "outdate", "unsync"} THEN Absent
    ELSE IF y = Copy(j) /\ j.at = "resolve" THEN [body |-> j.e.body, time |-> clock + 1]
    ELSE L(y)

NewR(j, y) ==
    IF y = j.path /\ j.at = "push" THEN j.d
    ELSE IF y = j.path /\ j.at = "dropRemote" THEN Absent
    ELSE IF y = Copy(j) /\ j.at = "copy" THEN [body |-> j.e.body, time |-> clock + 1]
    ELSE IF y = j.path /\ j.at = "replace" THEN [body |-> j.d.body, time |-> clock + 1]
    ELSE R(y)

\* The copy a job makes is no page, and no other job's.
LEMMA CopyName ==
    ASSUME TypeOK, NEW j \in jobs
    PROVE  /\ Copy(j) \in Names \ Paths /\ Copy(j) # j.path /\ j.path \in Names
           /\ \A k \in jobs : Copy(k) = Copy(j) => k.path = j.path
<1>1. \A k \in jobs : k.path \in Names /\ k.e.time \in Nat
  <2> SUFFICES ASSUME NEW k \in jobs PROVE k.path \in Names /\ k.e.time \in Nat
    OBVIOUS
  <2>1. JobType(k) /\ clock \in Nat
    BY DEF TypeOK
  <2> QED
    BY <2>1 DEF JobType, Versions, Absent
<1> QED
  <2>1. j.path \in Names /\ j.e.time \in Nat
    BY <1>1
  <2>2. Append(j.path, j.e.time) \in Names \ Paths /\ Append(j.path, j.e.time) # j.path
    BY <2>1, CopyIsNew
  <2>3. ASSUME NEW k \in jobs, Append(k.path, k.e.time) = Append(j.path, j.e.time)
        PROVE  k.path = j.path
    <3>1. k.path \in Names /\ k.e.time \in Nat
      BY <1>1
    <3> DEFINE t == j.e.time
               u == k.e.time
    <3>2. j.path \in Names /\ t \in Nat /\ k.path \in Names /\ u \in Nat
      BY <2>1, <3>1
    <3>3. Append(k.path, u) = Append(j.path, t)
      BY <2>3
    <3> HIDE DEF t, u
    <3> QED
      BY <3>2, <3>3, CopiesDiffer
  <2> QED
    BY <2>1, <2>2, <2>3, Zenon DEF Copy

\* A copy is of its page, and is alone when that is.
LEMMA CopyAlone ==
    ASSUME TypeOK, NEW j \in jobs
    PROVE  Copy(j)[1] = j.path[1] /\ (Copy(j) \in Alone <=> j.path \in Alone)
<1>1. JobType(j) /\ clock \in Nat
  BY DEF TypeOK
<1>2. j.path \in Names /\ j.e.time \in Nat
  BY <1>1 DEF JobType, Versions, Absent
<1> DEFINE x == j.path
           u == j.e.time
<1>3. x \in Seq(Pages \cup Nat) /\ u \in Pages \cup Nat /\ Len(x) >= 1 /\ Len(x) \in Nat
  BY <1>2 DEF Names
<1> HIDE DEF x, u
<1>4. Append(x, u)[1] = x[1]
  BY <1>3, AppendProperties
<1>5. Copy(j)[1] = j.path[1]
  BY <1>4 DEF Copy, x, u
<1>6. Copy(j) \in Names
  BY CopyName
<1> QED
  BY <1>2, <1>5, <1>6 DEF Alone, Crowded

\* What both sides hold after a write of a job, and the clock.
LEMMA EffectAt ==
    ASSUME TypeOK, NEW j \in jobs, j.at # "ready", Apply(Effect(j))
    PROVE  /\ \A y : L(y)' = NewL(j, y) /\ R(y)' = NewR(j, y)
           /\ clock' = IF j.at \in {"resolve", "copy", "replace"} THEN clock + 1 ELSE clock
<1>1. /\ j.at \in Ats \ {"ready"} /\ Copy(j) # j.path
  BY CopyName DEF TypeOK, JobType
<1>2. CASE j.at = "push"
  <2>1. local' = local /\ remote' = Stored(remote, j.path, j.d) /\ clock' = clock
    BY <1>2 DEF Apply, Effect
  <2>2. /\ \A y : L(y)' = L(y)
        /\ R(j.path)' = j.d /\ \A y : y # j.path => R(y)' = R(y)
    BY <2>1, LocalSame, RemoteStored
  <2> QED
    BY <1>2, <2>1, <2>2 DEF NewL, NewR
<1>3. CASE j.at \in {"pull", "theirs"}
  <2>1. local' = Stored(local, j.path, j.e) /\ remote' = remote /\ clock' = clock
    BY <1>3 DEF Apply, Effect
  <2>2. /\ \A y : R(y)' = R(y)
        /\ L(j.path)' = j.e /\ \A y : y # j.path => L(y)' = L(y)
    BY <2>1, RemoteSame, LocalStored
  <2> QED
    BY <1>3, <2>1, <2>2 DEF NewL, NewR
<1>4. CASE j.at = "dropRemote"
  <2>1. local' = local /\ remote' = Without(remote, j.path) /\ clock' = clock
    BY <1>4 DEF Apply, Effect
  <2>2. /\ \A y : L(y)' = L(y)
        /\ R(j.path)' = Absent /\ \A y : y # j.path => R(y)' = R(y)
    BY <2>1, LocalSame, RemoteWithout
  <2> QED
    BY <1>4, <2>1, <2>2 DEF NewL, NewR
<1>5. CASE j.at = "resolve"
  <2> DEFINE f == [body |-> j.e.body, time |-> clock + 1]
  <2>1. local' = Stored(local, Copy(j), f) /\ remote' = remote /\ clock' = clock + 1
    BY <1>5 DEF Apply, Effect
  <2>2. /\ \A y : R(y)' = R(y)
        /\ L(Copy(j))' = f /\ \A y : y # Copy(j) => L(y)' = L(y)
    BY <2>1, RemoteSame, LocalStored
  <2> QED
    BY <1>1, <1>5, <2>1, <2>2 DEF NewL, NewR
<1>6. CASE j.at = "copy"
  <2> DEFINE f == [body |-> j.e.body, time |-> clock + 1]
  <2>1. local' = local /\ remote' = Stored(remote, Copy(j), f) /\ clock' = clock + 1
    BY <1>6 DEF Apply, Effect
  <2>2. /\ \A y : L(y)' = L(y)
        /\ R(Copy(j))' = f /\ \A y : y # Copy(j) => R(y)' = R(y)
    BY <2>1, LocalSame, RemoteStored
  <2> QED
    BY <1>1, <1>6, <2>1, <2>2 DEF NewL, NewR
<1>7. CASE j.at = "replace"
  <2> DEFINE f == [body |-> j.d.body, time |-> clock + 1]
  <2>1. local' = local /\ remote' = Stored(remote, j.path, f) /\ clock' = clock + 1
    BY <1>7 DEF Apply, Effect
  <2>2. /\ \A y : L(y)' = L(y)
        /\ R(j.path)' = f /\ \A y : y # j.path => R(y)' = R(y)
    BY <2>1, LocalSame, RemoteStored
  <2> QED
    BY <1>1, <1>7, <2>1, <2>2 DEF NewL, NewR
<1>8. CASE j.at \in {"drop", "outdate", "unsync"}
  <2>1. local' = Without(local, j.path) /\ remote' = remote /\ clock' = clock
    BY <1>8 DEF Apply, Effect
  <2>2. /\ \A y : R(y)' = R(y)
        /\ L(j.path)' = Absent /\ \A y : y # j.path => L(y)' = L(y)
    BY <2>1, RemoteSame, LocalWithout
  <2> QED
    BY <1>8, <2>1, <2>2 DEF NewL, NewR
<1> QED
  BY <1>1, <1>2, <1>3, <1>4, <1>5, <1>6, <1>7, <1>8 DEF Ats

\* The part of TypeOK about the two spaces.
SpaceType ==
    /\ clock \in Nat \ {0}
    /\ over \in [DOMAIN over -> SUBSET Nat] /\ DOMAIN over \subseteq 1 .. clock
    /\ DOMAIN local \subseteq Names /\ local \in [DOMAIN local -> Versions]
    /\ DOMAIN remote \subseteq Names /\ remote \in [DOMAIN remote -> Versions]

\* The versions there are stay versions as the clock goes on.
LEMMA SpacesGrow ==
    ASSUME SpaceType, clock' \in Nat, clock <= clock', DOMAIN over \subseteq DOMAIN over'
    PROVE  /\ Versions \subseteq Versions'
           /\ local \in [DOMAIN local -> Versions'] /\ remote \in [DOMAIN remote -> Versions']
<1>1. Versions \subseteq Versions'
  BY DEF SpaceType, Versions
<1> QED
  BY <1>1 DEF SpaceType

\* A write of a job leaves both spaces typed.
LEMMA EffectType ==
    ASSUME TypeOK, NEW j \in jobs, j.at # "ready", Apply(Effect(j)), UNCHANGED over
    PROVE  SpaceType'
<1>1. SpaceType /\ JobType(j) /\ clock \in Nat \ {0}
  BY DEF TypeOK, SpaceType
<1>2. /\ j.at \in Ats \ {"ready"} /\ j.path \in Names /\ Copy(j) \in Names
      /\ j.d \in Versions \cup {Absent} /\ j.e \in Versions \cup {Absent}
      /\ j.at = "push" => j.d # Absent
      /\ j.at \in {"pull", "theirs"} => j.e # Absent
      /\ j.at \in {"resolve", "copy", "replace"} => j.d # Absent /\ j.e # Absent
  BY <1>1, CopyName DEF JobType
<1>3. clock' \in Nat \ {0} /\ clock <= clock'
  BY <1>1, EffectAt
<1>4. /\ Versions \subseteq Versions'
      /\ local \in [DOMAIN local -> Versions'] /\ remote \in [DOMAIN remote -> Versions']
      /\ DOMAIN local \subseteq Names /\ DOMAIN remote \subseteq Names
  BY <1>1, <1>3, SpacesGrow DEF SpaceType
<1>5. \A f \in Versions : clock' = clock + 1 => [body |-> f.body, time |-> clock + 1] \in Versions'
  BY <1>1 DEF Versions, SpaceType
<1>6. /\ DOMAIN local' \subseteq Names /\ local' \in [DOMAIN local' -> Versions']
      /\ DOMAIN remote' \subseteq Names /\ remote' \in [DOMAIN remote' -> Versions']
  <2> DEFINE copied == [body |-> j.e.body, time |-> clock + 1]
             ours == [body |-> j.d.body, time |-> clock + 1]
  <2>1. ASSUME NEW y \in Names, NEW f \in Versions', local' = Stored(local, y, f), remote' = remote
        PROVE  /\ DOMAIN local' \subseteq Names /\ local' \in [DOMAIN local' -> Versions']
               /\ DOMAIN remote' \subseteq Names /\ remote' \in [DOMAIN remote' -> Versions']
    BY <1>4, <2>1, StoredType
  <2>2. ASSUME NEW y \in Names, NEW f \in Versions', local' = local, remote' = Stored(remote, y, f)
        PROVE  /\ DOMAIN local' \subseteq Names /\ local' \in [DOMAIN local' -> Versions']
               /\ DOMAIN remote' \subseteq Names /\ remote' \in [DOMAIN remote' -> Versions']
    BY <1>4, <2>2, StoredType
  <2>3. CASE j.at = "push"
    <3>1. local' = local /\ remote' = Stored(remote, j.path, j.d) /\ j.d \in Versions'
      BY <1>2, <1>4, <2>3 DEF Apply, Effect
    <3> QED
      BY <1>2, <2>2, <3>1
  <2>4. CASE j.at \in {"pull", "theirs"}
    <3>1. local' = Stored(local, j.path, j.e) /\ remote' = remote /\ j.e \in Versions'
      BY <1>2, <1>4, <2>4 DEF Apply, Effect
    <3> QED
      BY <1>2, <2>1, <3>1
  <2>5. CASE j.at = "dropRemote"
    <3>1. local' = local /\ remote' = Without(remote, j.path)
      BY <2>5 DEF Apply, Effect
    <3> QED
      BY <1>4, <3>1, WithoutType
  <2>6. CASE j.at \in {"resolve", "copy", "replace"}
    <3>1. \/ local' = Stored(local, Copy(j), copied) /\ remote' = remote
          \/ local' = local /\ remote' = Stored(remote, Copy(j), copied)
          \/ local' = local /\ remote' = Stored(remote, j.path, ours)
      BY <2>6 DEF Apply, Effect
    <3>2. copied \in Versions' /\ ours \in Versions'
      BY <1>2, <2>6, <1>5, EffectAt
    <3> HIDE DEF copied, ours
    <3> QED
      BY <1>2, <2>1, <2>2, <3>1, <3>2
  <2>7. CASE j.at \in {"drop", "outdate", "unsync"}
    <3>1. local' = Without(local, j.path) /\ remote' = remote
      BY <2>7 DEF Apply, Effect
    <3> QED
      BY <1>4, <3>1, WithoutType
  <2> QED
    BY <1>2, <2>3, <2>4, <2>5, <2>6, <2>7 DEF Ats
<1> QED
  BY <1>1, <1>3, <1>6 DEF SpaceType

\* A snapshot stays typed as the clock goes on.
LEMMA SnapshotTypeGrows ==
    ASSUME NEW S, NEW now \in Nat, NEW later \in Nat, now <= later, SnapshotType(S, now)
    PROVE  SnapshotType(S, later)
BY DEF SnapshotType

\* Every update keeps a snapshot typed.
LEMMA SnapshotUpdates ==
    ASSUME NEW S, NEW now \in Nat, SnapshotType(S, now), NEW x \in Names,
           NEW a \in 1 .. now, NEW b \in 1 .. now
    PROVE  /\ SnapshotType(Recorded(S, x, a, b), now)
           /\ SnapshotType(Matched(S, x, a, b), now)
           /\ SnapshotType(Noted(S, x, a), now)
           /\ SnapshotType(Marked(S, x), now)
           /\ SnapshotType(Forgotten(S, x), now)
<1> DEFINE V == (1 .. now) \X (1 .. now)
<1>1. /\ S.files \in [DOMAIN S.files -> V] /\ DOMAIN S.files \subseteq Names
      /\ S.nonSynced \subseteq Names /\ <<a, b>> \in V /\ <<a, a>> \in V
      /\ S = [files |-> S.files, nonSynced |-> S.nonSynced]
  BY DEF SnapshotType
<1>2. ASSUME NEW f \in V
      PROVE  /\ DOMAIN Stored(S.files, x, f) \subseteq Names
             /\ Stored(S.files, x, f) \in [DOMAIN Stored(S.files, x, f) -> V]
  BY <1>1, StoredType
<1>3. /\ DOMAIN Without(S.files, x) \subseteq Names
      /\ Without(S.files, x) \in [DOMAIN Without(S.files, x) -> V]
  BY <1>1, WithoutType
<1>4. ASSUME NEW files_, DOMAIN files_ \subseteq Names, files_ \in [DOMAIN files_ -> V],
             NEW ns, ns \subseteq Names
      PROVE  SnapshotType([files |-> files_, nonSynced |-> ns], now)
  BY <1>4 DEF SnapshotType
<1>5. Matched(S, x, a, b) = [files |-> Stored(S.files, x, <<a, b>>), nonSynced |-> S.nonSynced]
  BY <1>1 DEF Matched
<1>6. Marked(S, x) = [files |-> S.files, nonSynced |-> S.nonSynced \cup {x}]
  <2> DEFINE ns == S.nonSynced \cup {x}
  <2>1. Marked(S, x) = [S EXCEPT !.nonSynced = ns]
    BY DEF Marked
  <2> HIDE DEF ns
  <2>2. [S EXCEPT !.nonSynced = ns] = [files |-> S.files, nonSynced |-> ns]
    BY <1>1
  <2> QED
    BY <2>1, <2>2 DEF ns
<1> HIDE DEF V
<1>7. SnapshotType(Recorded(S, x, a, b), now)
  BY <1>1, <1>2, <1>4 DEF Recorded
<1>8. SnapshotType(Matched(S, x, a, b), now)
  BY <1>1, <1>2, <1>4, <1>5
<1>9. SnapshotType(Noted(S, x, a), now)
  BY <1>1, <1>2, <1>4 DEF Noted
<1>10. SnapshotType(Marked(S, x), now)
  BY <1>1, <1>4, <1>6
<1>11. SnapshotType(Forgotten(S, x), now)
  BY <1>1, <1>3, <1>4 DEF Forgotten
<1> QED
  BY <1>7, <1>8, <1>9, <1>10, <1>11

----------------------------------------
(* The jobs after a step *)

\* The job i after the end of another: as it was, or left behind.
Heir(k, i) == k = i \/ k = [i EXCEPT !.left = TRUE]

\* A job that was left behind is otherwise as it was.
LEMMA HeirFields ==
    ASSUME NEW i, JobType(i), NEW k, Heir(k, i)
    PROVE  /\ JobType(k)
           /\ k.path = i.path /\ k.back = i.back /\ k.at = i.at
           /\ k.p = i.p /\ k.s = i.s /\ k.d = i.d /\ k.e = i.e /\ Copy(k) = Copy(i)
<1>1. CASE k = i
  BY <1>1
<1>2. CASE k = [i EXCEPT !.left = TRUE]
  <2>1. /\ k.path = i.path /\ k.back = i.back /\ k.at = i.at /\ k.left = TRUE
        /\ k.p = i.p /\ k.s = i.s /\ k.d = i.d /\ k.e = i.e
    BY <1>2 DEF JobType
  <2>2. k \in [path : Names, back : BOOLEAN, single : BOOLEAN, left : BOOLEAN, no : Nat, at : Ats,
               p : [body : Nat, time : Nat], s : [body : Nat, time : Nat],
               d : Versions \cup {Absent}, e : Versions \cup {Absent}]
    BY <1>2 DEF JobType
  <2> QED
    BY <2>1, <2>2 DEF JobType, Copy
<1> QED
  BY <1>1, <1>2 DEF Heir

\* A job keeps its type through any step that leaves it alone.
LEMMA JobTypeGrows ==
    ASSUME TypeOK, Grows, NEW i, JobType(i)
    PROVE  JobType(i)'
<1>1. Versions \subseteq Versions'
  BY OverGrows
<1>2. used.configs > 0 => used'.configs > 0
  <2>1. used.configs \in Nat /\ used'.configs \in Nat /\ used.configs <= used'.configs
    BY DEF Grows, Usage
  <2> QED
    BY <2>1
<1>3. \A n \in 1 .. clock : n \in 1 .. clock'
  BY DEF Grows, TypeOK
<1> QED
  BY <1>1, <1>2, <1>3 DEF JobType

\* What a step owes to keep the types: the spaces, the snapshots and the new jobs.
LEMMA TypeStep ==
    ASSUME TypeOK, OneJob, Grows,
           SpaceType', SnapshotType(snapshot', clock'), SnapshotType(saved', clock'),
           accepted' \subseteq Pages,
           \A k \in jobs' : (\E i \in jobs : Heir(k, i)) \/ JobType(k)'
    PROVE  TypeOK'
<1>1. ASSUME NEW k \in jobs', NEW i \in jobs, Heir(k, i) PROVE JobType(k)'
  <2>1. JobType(i)
    BY DEF TypeOK
  <2>2. JobType(k)
    BY <1>1, <2>1, HeirFields
  <2> QED
    BY <2>2, JobTypeGrows
<1> QED
  BY <1>1 DEF TypeOK, SpaceType, Grows

\* What each plan of syncFile tells of the metadata and the record it was made from.
LEMMA PlanFacts ==
    ASSUME NEW j, JobType(j), j.at = "ready"
    PROVE  /\ Plan(j) \in (Ats \ {"ready", "copy", "replace"}) \cup {"rest", "note", "mark", "forget"}
           /\ Plan(j) = "note" => ~j.back /\ j.p = Absent /\ j.s # Absent
           /\ Plan(j) = "mark" => ~j.back /\ j.p = Absent
           /\ Plan(j) = "forget" => j.s = Absent
           /\ Plan(j) = "drop" => j.s = Absent
           /\ Plan(j) = "dropRemote" =>
                 j.p = Absent /\ Known(snapshot, j.path) /\ j.path \notin snapshot.nonSynced
           /\ Plan(j) = "push" =>
                 /\ j.p # Absent
                 /\ \/ j.s = Absent
                    \/ Known(snapshot, j.path) /\ j.s.time = There(snapshot, j.path)
           /\ Plan(j) = "pull" =>
                 /\ j.s # Absent
                 /\ \/ j.p = Absent
                    \/ Known(snapshot, j.path) /\ j.p.time = Here(snapshot, j.path)
           /\ Plan(j) \in {"outdate", "unsync"} =>
                 /\ ~j.back /\ j.p # Absent /\ j.s # Absent
                 /\ Known(snapshot, j.path) /\ j.p.time = Here(snapshot, j.path)
           /\ Plan(j) \in {"theirs", "resolve"} => j.p # Absent /\ j.s # Absent
           /\ Plan(j) = "theirs" => j.path[1] \in StdPages
<1>1. ~j.back => j.s # Absent
  BY DEF JobType
<1>2. CASE j.p = Absent
  BY <1>1, <1>2 DEF Plan, Known, Ats
<1>3. CASE j.p # Absent /\ j.s = Absent
  BY <1>1, <1>3 DEF Plan, Known, Ats
<1>4. CASE j.p # Absent /\ j.s # Absent
  BY <1>1, <1>4 DEF Plan, Known, Here, There, Ats
<1> QED
  BY <1>2, <1>3, <1>4

\* The job j ended, well or not, and what it left in the snapshot and saved of it.
Ended(j) ==
    jobs' = jobs \ {j} \/ jobs' = {[k EXCEPT !.left = TRUE] : k \in jobs \ {j}}

Outcome(j, snap) == snapshot' = snap /\ Ended(j) /\ saved' \in {saved, snapshot, snap}

\* Finish and Fail both end the job and settle what is saved.
LEMMA Endings ==
    ASSUME NEW j
    PROVE  /\ \A snap : \A worked \in BOOLEAN : Finish(j, snap, worked) => Outcome(j, snap)
           /\ Fail(j) => Outcome(j, snapshot)
BY DEF Finish, Fail, Outcome, Ended

\* When a job ends the others stay, and each path that is alone still has one.
LEMMA EndedHeirs ==
    ASSUME TypeOK, OneJob, NEW j \in jobs, Ended(j)
    PROVE  /\ \A k \in jobs' : \E i \in jobs \ {j} : Heir(k, i)
           /\ Alone' \subseteq Alone => OneJob'
<1>1. \A k \in jobs' : \E i \in jobs \ {j} : Heir(k, i)
  BY DEF Ended, Heir
<1>2. CASE jobs' = jobs \ {j}
  BY <1>1, <1>2 DEF OneJob
<1>3. CASE jobs' = {[k EXCEPT !.left = TRUE] : k \in jobs \ {j}}
  <2>1. \A i \in jobs : [i EXCEPT !.left = TRUE].path = i.path
    BY DEF TypeOK, JobType
  <2>2. ASSUME NEW k \in jobs', NEW m \in jobs', k.path = m.path, k.path \in Alone PROVE k = m
    <3>1. PICK i \in jobs : k = [i EXCEPT !.left = TRUE]
      BY <1>3
    <3>2. PICK n \in jobs : m = [n EXCEPT !.left = TRUE]
      BY <1>3
    <3>3. i.path = n.path /\ i.path \in Alone
      BY <2>1, <2>2, <3>1, <3>2
    <3> QED
      BY <3>1, <3>2, <3>3 DEF OneJob
  <2> QED
    BY <1>1, <2>2 DEF OneJob
<1> QED
  BY <1>1, <1>2, <1>3 DEF Ended

\* The job j goes on as next, on the same path.
GoesOn(j, next) == jobs' = (jobs \ {j}) \cup {next} /\ saved' = saved /\ next.path = j.path

\* When a job goes on the others stay, and each path that is alone still has one.
LEMMA GoesOnHeirs ==
    ASSUME OneJob, NEW j \in jobs, NEW next, GoesOn(j, next)
    PROVE  /\ \A k \in jobs' : k = next \/ k \in jobs \ {j}
           /\ Alone' \subseteq Alone => OneJob'
BY DEF OneJob, GoesOn

\* What a ready job does next, in terms of what is on both sides.
Planned(j) ==
    [j EXCEPT !.at = Plan(j),
              !.d = IF Plan(j) \in {"push", "resolve"} THEN L(j.path) ELSE Absent,
              !.e = IF Plan(j) \in {"pull", "theirs", "resolve"} THEN R(j.path) ELSE Absent,
              !.p = Absent, !.s = Absent]

\* The decisions after which a job goes on, with what each changes in the snapshot.
GoingCases(j) ==
    /\ GoesOn(j, Planned(j))
    /\ \/ Plan(j) = "drop" /\ snapshot' = Forgotten(snapshot, j.path)
       \/ Plan(j) = "outdate" /\ snapshot' = Noted(snapshot, j.path, j.s.time)
       \/ /\ Plan(j) \in {"push", "pull", "theirs", "resolve", "dropRemote", "unsync"}
          /\ snapshot' = snapshot
          /\ Plan(j) \in {"push", "resolve"} => L(j.path) # Absent
          /\ Plan(j) \in {"pull", "theirs", "resolve"} => R(j.path) # Absent

\* All decisions.
DecideCases(j) ==
    LET x == j.path IN
    \/ Outcome(j, snapshot)
    \/ Plan(j) = "note" /\ Outcome(j, Noted(snapshot, x, j.s.time))
    \/ Plan(j) = "mark" /\ Outcome(j, Marked(snapshot, x))
    \/ Plan(j) = "forget" /\ Outcome(j, Forgotten(snapshot, x))
    \/ /\ Plan(j) = "resolve" /\ L(x) # Absent /\ R(x) # Absent /\ L(x).body = R(x).body
       /\ Outcome(j, Matched(snapshot, x, L(x).time, R(x).time))
    \/ GoingCases(j)

\* Decide, case by case.
LEMMA DecideSplits ==
    ASSUME TypeOK, NEW j \in jobs, Decide(j)
    PROVE  DecideCases(j) /\ j.at = "ready" /\ UNCHANGED files
<1>1. JobType(j) /\ j.at = "ready" /\ UNCHANGED files
  BY DEF TypeOK, Decide
<1>2. Plan(j) # "dropQuietly"
  BY <1>1, PlanFacts DEF Ats
<1> DEFINE plan == Plan(j)
           d == At(local, j.path)
           e == At(remote, j.path)
           next == [j EXCEPT !.at = plan,
                             !.d = IF "local" \in Reads(plan) THEN d ELSE Absent,
                             !.e = IF "remote" \in Reads(plan) THEN e ELSE Absent,
                             !.p = Absent, !.s = Absent]
<1>3. /\ "local" \in Reads(plan) <=> plan \in {"push", "resolve"}
      /\ "remote" \in Reads(plan) <=> plan \in {"pull", "theirs", "resolve"}
  BY DEF Reads
<1>4. d = L(j.path) /\ e = R(j.path) /\ next = Planned(j) /\ Planned(j).path = j.path
  BY <1>1, <1>3 DEF L, R, Planned, JobType
<1>5. ~ReadFails(j, plan) =>
          /\ plan \in {"push", "resolve"} => L(j.path) # Absent
          /\ plan \in {"pull", "theirs", "resolve"} => R(j.path) # Absent
  BY <1>3, Present DEF ReadFails
<1>6. Move(j, next) => GoesOn(j, Planned(j))
  BY <1>4 DEF Move, GoesOn
<1>7. \/ plan = "rest" /\ Finish(j, snapshot, FALSE)
      \/ plan = "note" /\ Finish(j, Noted(snapshot, j.path, j.s.time), FALSE)
      \/ plan = "mark" /\ Finish(j, Marked(snapshot, j.path), FALSE)
      \/ plan = "forget" /\ Finish(j, Forgotten(snapshot, j.path), TRUE)
      \/ plan = "drop" /\ snapshot' = Forgotten(snapshot, j.path) /\ Move(j, next)
      \/ plan = "outdate" /\ snapshot' = Noted(snapshot, j.path, j.s.time) /\ Move(j, next)
      \/ ReadFails(j, plan) /\ Fail(j)
      \/ /\ plan = "resolve" /\ ~ReadFails(j, plan) /\ d.body = e.body
         /\ Finish(j, Matched(snapshot, j.path, d.time, e.time), FALSE)
      \/ /\ plan \in {"push", "pull", "theirs", "resolve", "dropRemote", "dropQuietly", "unsync"}
         /\ ~ReadFails(j, plan)
         /\ Move(j, next) /\ UNCHANGED snapshot
  BY DEF Decide
<1> HIDE DEF plan, d, e, next
<1>8. DecideCases(j)
  <2> USE <1>4, <1>5, <1>6, Endings
  <2>1. plan = Plan(j)
    BY DEF plan
  <2> QED
    BY <1>2, <1>7, <2>1 DEF DecideCases, GoingCases
<1> QED
  BY <1>1, <1>8

----------------------------------------
(* Types, one job a path, and every page synced until the configuration says otherwise *)

\* A decision keeps the types.
LEMMA DecideType ==
    ASSUME TypeOK, OneJob, NEW j \in jobs, Decide(j), UNCHANGED <<accepted, used, ghosts>>
    PROVE  Grows /\ TypeOK' /\ OneJob'
<1>1. /\ DecideCases(j) /\ JobType(j) /\ j.at = "ready" /\ UNCHANGED <<local, remote, clock>>
      /\ UNCHANGED <<accepted, used, over, gone, exposed, crowded>>
  BY DecideSplits DEF TypeOK, files, ghosts
<1>2. Grows /\ SpaceType'
  BY <1>1, AloneSame DEF Grows, TypeOK, SpaceType, Versions, Usage
<1>3. /\ clock \in Nat \ {0} /\ clock' = clock /\ j.path \in Names
      /\ SnapshotType(snapshot, clock) /\ SnapshotType(saved, clock)
      /\ j.s # Absent => j.s.time \in 1 .. clock
      /\ L(j.path) # Absent => L(j.path).time \in 1 .. clock
      /\ R(j.path) # Absent => R(j.path).time \in 1 .. clock
  BY <1>1, Present DEF TypeOK, JobType, Versions
<1>4. /\ SnapshotType(Marked(snapshot, j.path), clock)
      /\ SnapshotType(Forgotten(snapshot, j.path), clock)
      /\ j.s # Absent => SnapshotType(Noted(snapshot, j.path, j.s.time), clock)
      /\ L(j.path) # Absent /\ R(j.path) # Absent =>
            SnapshotType(Matched(snapshot, j.path, L(j.path).time, R(j.path).time), clock)
  <2>1. 1 \in 1 .. clock
    BY <1>3
  <2> QED
    BY <1>3, <2>1, SnapshotUpdates
<1>5. Plan(j) \in {"note", "outdate"} => j.s # Absent
  BY <1>1, PlanFacts
<1>6. SnapshotType(snapshot', clock') /\ SnapshotType(saved', clock')
  BY <1>1, <1>3, <1>4, <1>5 DEF DecideCases, GoingCases, Outcome, GoesOn
<1>7. /\ OneJob'
      /\ \A k \in jobs' : (\E i \in jobs : Heir(k, i)) \/ JobType(k)'
  <2>1. CASE Ended(j)
    BY <1>2, <2>1, EndedHeirs DEF Grows
  <2>2. CASE /\ GoesOn(j, Planned(j))
             /\ Plan(j) \in Ats \ {"ready", "copy", "replace"}
             /\ Plan(j) \in {"push", "resolve"} => L(j.path) # Absent
             /\ Plan(j) \in {"pull", "theirs", "resolve"} => R(j.path) # Absent
    <3>1. JobType(Planned(j))
      <4>1. /\ L(j.path) \in Versions \cup {Absent} /\ R(j.path) \in Versions \cup {Absent}
            /\ Absent \in [body : Nat, time : Nat]
            /\ Plan(j) = "theirs" => j.path[1] \in StdPages
        BY <1>1, Present, PlanFacts DEF Absent
      <4> DEFINE d == IF Plan(j) \in {"push", "resolve"} THEN L(j.path) ELSE Absent
                 e == IF Plan(j) \in {"pull", "theirs", "resolve"} THEN R(j.path) ELSE Absent
                 next == [j EXCEPT !.at = Plan(j), !.d = d, !.e = e, !.p = Absent, !.s = Absent]
      <4>2. d \in Versions \cup {Absent} /\ e \in Versions \cup {Absent}
        BY <4>1
      <4>3. next = Planned(j)
        BY DEF Planned
      <4>4. /\ Plan(j) \in {"push", "resolve"} => d # Absent
            /\ Plan(j) \in {"pull", "theirs", "resolve"} => e # Absent
        BY <2>2
      <4> HIDE DEF d, e
      <4>5. /\ next \in [path : Names, back : BOOLEAN, single : BOOLEAN, left : BOOLEAN, no : Nat, at : Ats,
                         p : [body : Nat, time : Nat], s : [body : Nat, time : Nat],
                         d : Versions \cup {Absent}, e : Versions \cup {Absent}]
            /\ next.at = Plan(j) /\ next.path = j.path /\ next.d = d /\ next.e = e
        BY <1>1, <2>2, <4>1, <4>2 DEF JobType
      <4> QED
        BY <2>2, <4>1, <4>3, <4>4, <4>5 DEF JobType
    <3>2. PICK n : n = Planned(j)
      OBVIOUS
    <3>3. JobType(n)'
      BY <1>2, <3>1, <3>2, JobTypeGrows
    <3>4. \A k \in jobs' : k = n \/ k \in jobs \ {j}
      BY <2>2, <3>2, GoesOnHeirs
    <3> QED
      BY <1>2, <2>2, <3>3, <3>4, GoesOnHeirs DEF Heir, Grows
  <2> QED
    BY <1>1, <2>1, <2>2 DEF DecideCases, GoingCases, Outcome, Ats
<1> QED
  BY <1>1, <1>2, <1>6, <1>7, TypeStep DEF TypeOK

\* The copying job after a copy was written.
Copied(j) ==
    IF j.at = "resolve" THEN [j EXCEPT !.at = "copy", !.s.time = clock + 1]
    ELSE [j EXCEPT !.at = "replace", !.p.time = clock + 1]

\* A job's write and what it records of it.
WorkCases(j) ==
    LET x == j.path IN
    \/ j.at = "push" /\ Outcome(j, Recorded(snapshot, x, j.d.time, j.d.time))
    \/ j.at = "pull" /\ Outcome(j, Recorded(snapshot, x, j.e.time, j.e.time))
    \/ j.at = "theirs" /\ Outcome(j, Matched(snapshot, x, j.e.time, j.e.time))
    \/ j.at = "dropRemote" /\ Outcome(j, Forgotten(snapshot, x))
    \/ j.at = "unsync" /\ Outcome(j, Marked(snapshot, x))
    \/ j.at \in {"drop", "outdate"} /\ Outcome(j, snapshot)
    \/ /\ j.at = "replace"
       /\ Outcome(j, Matched(Matched(snapshot, Copy(j), j.s.time, j.p.time), x, j.d.time, clock + 1))
    \/ j.at \in {"resolve", "copy"} /\ GoesOn(j, Copied(j)) /\ snapshot' = snapshot

\* Every other step of a job does nothing and ends, or is its write.
LEMMA WorkSplits ==
    ASSUME TypeOK, NEW j \in jobs,
           \/ PushFile(j) \/ PullFile(j) \/ DeleteRemote(j) \/ DeleteLocal(j)
           \/ WriteCopy(j) \/ Replace(j)
    PROVE  /\ j.at # "ready"
           /\ \/ UNCHANGED files /\ Outcome(j, snapshot)
              \/ Apply(Effect(j)) /\ WorkCases(j)
<1>1. JobType(j) /\ j.at # "dropQuietly"
  BY DEF TypeOK, JobType, Ats
<1>2. CASE PushFile(j)
  BY <1>2, Endings DEF PushFile, WorkCases
<1>3. CASE PullFile(j)
  BY <1>3, Endings DEF PullFile, WorkCases
<1>4. CASE DeleteRemote(j)
  BY <1>4, Endings DEF DeleteRemote, WorkCases
<1>5. CASE DeleteLocal(j)
  <2> DEFINE here == j.path \in DOMAIN local
             after == IF j.at = "unsync" THEN Marked(snapshot, j.path) ELSE snapshot
  <2>1. /\ j.at \in {"drop", "outdate", "unsync"}
        /\ \/ Apply(Effect(j)) /\ Finish(j, after, here)
           \/ Fail(j) /\ UNCHANGED files
    BY <1>1, <1>5 DEF DeleteLocal
  <2>2. here \in BOOLEAN
    OBVIOUS
  <2> HIDE DEF here
  <2> QED
    BY <2>1, <2>2, Endings DEF WorkCases
<1>6. CASE WriteCopy(j)
  <2>1. j.at \in {"resolve", "copy"} /\ Apply(Effect(j)) /\ snapshot' = snapshot /\ Move(j, Copied(j))
    BY <1>6 DEF WriteCopy, Copied
  <2>2. Copied(j).path = j.path
    BY <1>1 DEF Copied, JobType
  <2> QED
    BY <2>1, <2>2 DEF WorkCases, Move, GoesOn
<1>7. CASE Replace(j)
  BY <1>7, Endings DEF Replace, WorkCases
<1> QED
  BY <1>2, <1>3, <1>4, <1>5, <1>6, <1>7

\* The copying job keeps all but its place and the time of the copy it made.
LEMMA CopiedFields ==
    ASSUME TypeOK, NEW j \in jobs, j.at \in {"resolve", "copy"}
    PROVE  /\ Copied(j).path = j.path /\ Copied(j).d = j.d /\ Copied(j).e = j.e
           /\ Copied(j).at = IF j.at = "resolve" THEN "copy" ELSE "replace"
           /\ Copied(j).s.time = IF j.at = "resolve" THEN clock + 1 ELSE j.s.time
           /\ j.at = "copy" => Copied(j).p.time = clock + 1
           /\ Copy(Copied(j)) = Copy(j)
<1>1. JobType(j)
  BY DEF TypeOK
<1> QED
  BY <1>1 DEF Copied, Copy, JobType

\* It is typed at the new time.
LEMMA CopiedType ==
    ASSUME TypeOK, Grows, NEW j \in jobs, j.at \in {"resolve", "copy"}, clock' = clock + 1,
           NEW n, n = Copied(j)
    PROVE  JobType(n)'
<1> DEFINE Fields ==
             [path : Names, back : BOOLEAN, single : BOOLEAN, left : BOOLEAN, no : Nat, at : Ats,
              p : [body : Nat, time : Nat], s : [body : Nat, time : Nat],
              d : Versions' \cup {Absent}, e : Versions' \cup {Absent}]
<1>1. JobType(j) /\ JobType(j)' /\ clock \in Nat
  BY JobTypeGrows DEF TypeOK
<1>2. j \in Fields /\ j.p \in [body : Nat, time : Nat] /\ j.s \in [body : Nat, time : Nat]
  BY <1>1 DEF JobType
<1>3. \A f \in [body : Nat, time : Nat] :
          /\ [f EXCEPT !.time = clock + 1] \in [body : Nat, time : Nat]
          /\ [f EXCEPT !.time = clock + 1].time = clock + 1
  BY <1>1
<1>4. CASE j.at = "resolve"
  <2> DEFINE f == [j.s EXCEPT !.time = clock + 1]
  <2>1. n = [j EXCEPT !.at = "copy", !.s = f]
    BY <1>4 DEF Copied
  <2>2. f \in [body : Nat, time : Nat] /\ f.time = clock + 1
    BY <1>2, <1>3
  <2> HIDE DEF f
  <2>3. /\ n \in Fields /\ n.at = "copy" /\ n.d = j.d /\ n.e = j.e /\ n.s = f
    BY <1>2, <2>1, <2>2 DEF Ats
  <2> QED
    BY <1>1, <1>4, <2>2, <2>3 DEF JobType
<1>5. CASE j.at = "copy"
  <2> DEFINE f == [j.p EXCEPT !.time = clock + 1]
  <2>1. n = [j EXCEPT !.at = "replace", !.p = f]
    BY <1>5 DEF Copied
  <2>2. f \in [body : Nat, time : Nat] /\ f.time = clock + 1
    BY <1>2, <1>3
  <2> HIDE DEF f
  <2>3. /\ n \in Fields /\ n.at = "replace" /\ n.d = j.d /\ n.e = j.e /\ n.s = j.s /\ n.p = f
    BY <1>2, <2>1, <2>2 DEF Ats
  <2> QED
    BY <1>1, <1>5, <2>2, <2>3 DEF JobType
<1> QED
  BY <1>4, <1>5

\* A write keeps the types.
LEMMA WorkType ==
    ASSUME TypeOK, OneJob, NEW j \in jobs, j.at # "ready", Apply(Effect(j)), WorkCases(j),
           UNCHANGED <<accepted, used, ghosts>>
    PROVE  Grows /\ TypeOK' /\ OneJob'
<1>1. JobType(j) /\ UNCHANGED <<accepted, used, over, gone, exposed, crowded>> /\ clock \in Nat \ {0}
  BY DEF TypeOK, ghosts
<1>2. SpaceType' /\ clock' = IF j.at \in {"resolve", "copy", "replace"} THEN clock + 1 ELSE clock
  BY <1>1, EffectType, EffectAt
<1>3. Grows
  BY <1>1, <1>2, AloneSame DEF Grows, TypeOK, Usage
<1>4. /\ clock' \in Nat /\ clock <= clock' /\ j.path \in Names /\ Copy(j) \in Names
      /\ SnapshotType(snapshot, clock') /\ SnapshotType(saved, clock')
  BY <1>1, <1>2, CopyName, SnapshotTypeGrows DEF TypeOK
<1>5. SnapshotType(snapshot', clock') /\ SnapshotType(saved', clock')
  <2>1. CASE j.at = "push"
    <3>1. j.d.time \in 1 .. clock'
      BY <1>1, <1>2, <2>1 DEF JobType, Versions
    <3> QED
      BY <1>4, <2>1, <3>1, SnapshotUpdates DEF WorkCases, Outcome
  <2>2. CASE j.at \in {"pull", "theirs"}
    <3>1. j.e.time \in 1 .. clock'
      BY <1>1, <1>2, <2>2 DEF JobType, Versions
    <3> QED
      BY <1>4, <2>2, <3>1, SnapshotUpdates DEF WorkCases, Outcome
  <2>3. CASE j.at \in {"dropRemote", "unsync", "drop", "outdate"}
    <3>1. 1 \in 1 .. clock'
      BY <1>1, <1>4
    <3> QED
      BY <1>4, <2>3, <3>1, SnapshotUpdates DEF WorkCases, Outcome
  <2>4. CASE j.at = "replace"
    <3> DEFINE S == Matched(snapshot, Copy(j), j.s.time, j.p.time)
    <3>1. /\ j.d.time \in 1 .. clock' /\ j.s.time \in 1 .. clock' /\ j.p.time \in 1 .. clock'
          /\ clock + 1 \in 1 .. clock'
      BY <1>1, <1>2, <2>4 DEF JobType, Versions
    <3>2. SnapshotType(S, clock')
      BY <1>4, <3>1, SnapshotUpdates
    <3>3. Outcome(j, Matched(S, j.path, j.d.time, clock + 1))
      BY <2>4 DEF WorkCases
    <3> HIDE DEF S
    <3>4. SnapshotType(Matched(S, j.path, j.d.time, clock + 1), clock')
      BY <1>4, <3>1, <3>2, SnapshotUpdates
    <3> QED
      BY <1>4, <3>3, <3>4 DEF Outcome
  <2>5. CASE j.at \in {"resolve", "copy"}
    BY <1>4, <2>5 DEF WorkCases, GoesOn
  <2> QED
    BY <1>1, <2>3, <2>4, <2>5, <2>1, <2>2 DEF WorkCases
<1>6. /\ OneJob'
      /\ \A k \in jobs' : (\E i \in jobs : Heir(k, i)) \/ JobType(k)'
  <2>1. CASE Ended(j)
    BY <1>3, <2>1, EndedHeirs DEF Grows
  <2>2. CASE GoesOn(j, Copied(j)) /\ j.at \in {"resolve", "copy"}
    <3>1. PICK n : n = Copied(j)
      OBVIOUS
    <3>2. JobType(n)'
      BY <1>2, <1>3, <2>2, <3>1, CopiedType
    <3>3. \A k \in jobs' : k = n \/ k \in jobs \ {j}
      BY <2>2, <3>1, GoesOnHeirs
    <3> QED
      BY <1>3, <2>2, <3>2, <3>3, GoesOnHeirs DEF Heir, Grows
  <2> QED
    BY <2>1, <2>2 DEF WorkCases, Outcome
<1> QED
  BY <1>1, <1>2, <1>3, <1>5, <1>6, TypeStep DEF TypeOK

\* What a fault leaves alone.
FaultStep ==
    /\ used' \in Usage /\ used'.configs = used.configs /\ used'.faults = used.faults + 1
    /\ UNCHANGED <<accepted, over, gone, exposed, crowded>>

\* A fault is counted and changes no ghost.
LEMMA FaultSplits ==
    ASSUME TypeOK, Trouble("faults"), UNCHANGED <<accepted, ghosts>>
    PROVE  FaultStep
BY DEF Trouble, Spend, FaultStep, TypeOK, ghosts, Usage

\* So everything that only grows does.
LEMMA FaultGrows ==
    ASSUME TypeOK, FaultStep, clock' \in Nat \ {0}, clock <= clock'
    PROVE  Grows /\ used'.faults > 0
BY AloneSame DEF FaultStep, TypeOK, Grows, Usage

\* Spaces left alone stay typed.
LEMMA SpacesSame ==
    ASSUME TypeOK, UNCHANGED <<local, remote, clock, over>>
    PROVE  SpaceType'
BY DEF TypeOK, SpaceType, Versions

\* A request fails, before the server acted on it or after.
LEMMA RequestSplits ==
    ASSUME TypeOK, NEW j \in jobs, RequestFails(j)
    PROVE  /\ FaultStep /\ Outcome(j, snapshot)
           /\ \/ UNCHANGED <<local, remote, clock>>
              \/ Apply(Effect(j)) /\ j.at \in ToServer
<1>1. /\ FaultStep /\ Fail(j)
      /\ \/ j.at \in ToServer /\ \E to \in {files, Effect(j)} : Apply(to)
         \/ UNCHANGED files
  BY FaultSplits DEF RequestFails
<1>2. Apply(files) => UNCHANGED <<local, remote, clock>>
  BY DEF Apply, files
<1> QED
  BY <1>1, <1>2, Endings DEF files

\* A dead worker may leave a write of any of its jobs.
LEMMA RestartSplits ==
    ASSUME TypeOK, Restart
    PROVE  /\ FaultStep /\ snapshot' = saved /\ saved' = saved /\ jobs' = {}
           /\ \/ UNCHANGED <<local, remote, clock>>
              \/ \E j \in jobs : j.at # "ready" /\ Apply(Effect(j))
<1>1. FaultStep
  BY FaultSplits DEF Restart
<1>2. Apply(files) => UNCHANGED <<local, remote, clock>>
  BY DEF Apply, files
<1> QED
  BY <1>1, <1>2 DEF Restart

\* Whatever was written before a fault is typed.
LEMMA FaultType ==
    ASSUME TypeOK, OneJob, FaultStep,
           \/ UNCHANGED <<local, remote, clock>>
           \/ \E j \in jobs : j.at # "ready" /\ Apply(Effect(j))
    PROVE  /\ Grows /\ SpaceType' /\ used'.faults > 0
           /\ SnapshotType(snapshot, clock') /\ SnapshotType(saved, clock')
<1>1. UNCHANGED over /\ clock \in Nat \ {0}
  BY DEF FaultStep, TypeOK
<1>2. SpaceType' /\ clock' \in Nat \ {0} /\ clock <= clock'
  <2>1. CASE UNCHANGED <<local, remote, clock>>
    BY <1>1, <2>1, SpacesSame
  <2>2. ASSUME NEW j \in jobs, j.at # "ready", Apply(Effect(j))
        PROVE  SpaceType' /\ clock' \in Nat \ {0} /\ clock <= clock'
    BY <1>1, <2>2, EffectType, EffectAt
  <2> QED
    BY <2>1, <2>2
<1>3. Grows /\ used'.faults > 0
  BY <1>2, FaultGrows
<1>4. SnapshotType(snapshot, clock') /\ SnapshotType(saved, clock')
  BY <1>1, <1>2, SnapshotTypeGrows DEF TypeOK
<1> QED
  BY <1>2, <1>3, <1>4

\* A failed request keeps the types.
LEMMA RequestType ==
    ASSUME TypeOK, OneJob, NEW j \in jobs, RequestFails(j)
    PROVE  Grows /\ TypeOK' /\ OneJob' /\ used'.faults > 0
<1>1. /\ FaultStep /\ Outcome(j, snapshot)
      /\ \/ UNCHANGED <<local, remote, clock>>
         \/ \E k \in jobs : k.at # "ready" /\ Apply(Effect(k))
  BY RequestSplits DEF ToServer
<1>2. /\ Grows /\ SpaceType' /\ used'.faults > 0
      /\ SnapshotType(snapshot, clock') /\ SnapshotType(saved, clock')
  BY <1>1, FaultType
<1>3. SnapshotType(snapshot', clock') /\ SnapshotType(saved', clock')
  BY <1>1, <1>2 DEF Outcome
<1>4. OneJob' /\ \A k \in jobs' : \E i \in jobs : Heir(k, i)
  BY <1>1, <1>2, EndedHeirs DEF Outcome, Grows
<1>5. accepted' \subseteq Pages
  BY <1>1 DEF FaultStep, TypeOK
<1> QED
  BY <1>2, <1>3, <1>4, <1>5, TypeStep

\* A restart keeps the types.
LEMMA RestartType ==
    ASSUME TypeOK, OneJob, Restart
    PROVE  Grows /\ TypeOK' /\ OneJob' /\ used'.faults > 0
<1>1. /\ FaultStep /\ snapshot' = saved /\ saved' = saved /\ jobs' = {}
      /\ \/ UNCHANGED <<local, remote, clock>>
         \/ \E k \in jobs : k.at # "ready" /\ Apply(Effect(k))
  BY RestartSplits
<1>2. /\ Grows /\ SpaceType' /\ used'.faults > 0
      /\ SnapshotType(snapshot, clock') /\ SnapshotType(saved, clock')
  BY <1>1, FaultType
<1>3. OneJob' /\ \A k \in jobs' : JobType(k)'
  BY <1>1 DEF OneJob
<1>4. accepted' \subseteq Pages
  BY <1>1 DEF FaultStep, TypeOK
<1> QED
  BY <1>1, <1>2, <1>3, <1>4, TypeStep

\* A change of what is synced keeps the types, and is counted.
LEMMA ConfigType ==
    ASSUME TypeOK, OneJob, NEW now \in SUBSET Pages, SetSyncConfig(now)
    PROVE  /\ Grows /\ TypeOK' /\ OneJob' /\ BackOK' /\ used'.configs > 0
           /\ UNCHANGED <<local, remote, clock, snapshot, saved, jobs, over, gone, exposed, crowded>>
<1>1. /\ UNCHANGED <<local, remote, clock, snapshot, saved, jobs, over, gone, exposed, crowded>>
      /\ accepted' \subseteq Pages
  BY DEF SetSyncConfig, files, ghosts
<1>2. used' \in Usage /\ used'.configs = used.configs + 1 /\ used'.faults = used.faults
  BY DEF SetSyncConfig, Trouble, Spend, TypeOK, Usage
<1>3. Grows /\ used'.configs > 0
  BY <1>1, <1>2, AloneSame DEF Grows, TypeOK, Usage
<1>4. SpaceType' /\ OneJob'
  BY <1>1, SpacesSame, AloneSame DEF OneJob
<1>5. SnapshotType(snapshot', clock') /\ SnapshotType(saved', clock')
  BY <1>1 DEF TypeOK
<1>6. \A k \in jobs' : \E i \in jobs : Heir(k, i)
  BY <1>1 DEF Heir
<1>7. TypeOK'
  BY <1>1, <1>3, <1>4, <1>5, <1>6, TypeStep
<1>8. BackOK'
  BY <1>3 DEF BackOK
<1> QED
  BY <1>1, <1>3, <1>4, <1>7, <1>8

\* A job that has just begun has what both sides have now.
Begun(k) ==
    /\ JobType(k) /\ k.at = "ready" /\ k.p = L(k.path) /\ k.s = R(k.path)
    /\ k.d = Absent /\ k.e = Absent

\* An operation begins beside the jobs an earlier one left.  Where one of its jobs is at
\* the page of one of these, the page is crowded from now on.
BeginCases ==
    /\ UNCHANGED <<local, remote, clock, snapshot, accepted, over, gone, exposed>>
    /\ saved' \in {saved, snapshot}
    /\ used' \in Usage /\ used'.configs = used.configs /\ used'.faults = used.faults
    /\ Alone' \subseteq Alone
    /\ jobs \subseteq jobs' /\ \A k \in jobs' : k \in jobs \/ Begun(k)
    /\ \A k \in jobs', i \in jobs : k.path[1] = i.path[1] /\ i.path \in Alone' => k \in jobs
    /\ OneJob'

\* A new job carries what is on both sides; one that will not pull back was configured so.
LEMMA NewJob ==
    ASSUME TypeOK, BackOK, NEW x \in Names, NEW back \in BOOLEAN, NEW single \in BOOLEAN,
           ~back => R(x) # Absent /\ accepted # Pages, NEW no \in Nat, no = used'.overlaps,
           NEW j, j = Job(x, back, single)
    PROVE  Begun(j) /\ j.path = x
<1>1. /\ L(x) \in Versions \cup {Absent} /\ R(x) \in Versions \cup {Absent}
      /\ Versions \cup {Absent} \subseteq [body : Nat, time : Nat]
  BY Present DEF TypeOK, Versions, Absent
<1>2. j = [path |-> x, back |-> back, single |-> single, left |-> FALSE, no |-> no,
           at |-> "ready", p |-> L(x), s |-> R(x), d |-> Absent, e |-> Absent]
  BY DEF Job, L, R
<1>3. ~back => used.configs > 0
  BY DEF BackOK, TypeOK, Usage
<1> HIDE DEF L, R
<1>4. j.path = x /\ j.at = "ready" /\ j.back = back /\ j.p = L(x) /\ j.s = R(x)
      /\ j.d = Absent /\ j.e = Absent
  BY <1>2
<1>5. j \in [path : Names, back : BOOLEAN, single : BOOLEAN, left : BOOLEAN, no : Nat, at : Ats,
             p : [body : Nat, time : Nat], s : [body : Nat, time : Nat],
             d : Versions \cup {Absent}, e : Versions \cup {Absent}]
  BY <1>1, <1>2 DEF Ats
<1>6. JobType(j)
  BY <1>1, <1>3, <1>4, <1>5 DEF JobType
<1> QED
  BY <1>4, <1>6 DEF Begun

\* The jobs of an operation, begun for all.
LEMMA BeginsFor ==
    ASSUME TypeOK, OneJob, BackOK, NEW all \in SUBSET Names, NEW back \in [all -> BOOLEAN],
           NEW single \in BOOLEAN, Begins(all),
           \A x \in all : ~back[x] => R(x) # Absent /\ accepted # Pages,
           jobs' = jobs \cup {Job(x, back[x], single) : x \in all},
           UNCHANGED <<local, remote, clock, snapshot, accepted>>, saved' \in {saved, snapshot}
    PROVE  BeginCases
<1>1. used' \in Usage /\ used'.configs = used.configs /\ used'.faults = used.faults
  <2>1. used' = used \/ used' = [used EXCEPT !.overlaps = @ + 1]
    BY DEF Begins, Spend
  <2> QED
    BY <2>1 DEF TypeOK, Usage
<1>2. PICK no \in Nat : no = used'.overlaps
  BY <1>1 DEF Usage
<1>3. ASSUME NEW x \in all, NEW k, k = Job(x, back[x], single) PROVE Begun(k) /\ k.path = x
  <2>1. x \in Names /\ back[x] \in BOOLEAN
    OBVIOUS
  <2> QED
    BY <1>2, <1>3, <2>1, NewJob
<1>4. \A k \in jobs' : k \in jobs \/ (k.path \in all /\ Begun(k) /\ k = Job(k.path, back[k.path], single))
  <2>1. ASSUME NEW k \in jobs', k \notin jobs
        PROVE  k.path \in all /\ Begun(k) /\ k = Job(k.path, back[k.path], single)
    <3>1. PICK x \in all : k = Job(x, back[x], single)
      BY <2>1
    <3>2. Begun(k) /\ k.path = x
      BY <1>3, <3>1
    <3> QED
      BY <3>1, <3>2
  <2> QED
    BY <2>1
<1>5. PICK met : met = crowded'
  OBVIOUS
<1>6. /\ crowded \subseteq met
      /\ \A i \in jobs, x \in all : x[1] = i.path[1] => i.path[1] \in met
  BY <1>5 DEF Begins
<1>7. /\ Alone' = {x \in Names : x[1] \notin met}
      /\ Alone = {x \in Names : x[1] \notin crowded}
  BY <1>5 DEF Alone, Crowded
<1>8. Alone' \subseteq Alone
  BY <1>6, <1>7
<1>9. ASSUME NEW k \in jobs', NEW i \in jobs, k.path[1] = i.path[1], i.path \in Alone'
      PROVE  k \in jobs
  BY <1>4, <1>6, <1>7, <1>9
<1>10. ASSUME NEW k \in jobs', NEW m \in jobs', k.path = m.path, k.path \in Alone' PROVE k = m
  <2>1. CASE k \in jobs /\ m \in jobs
    BY <1>8, <1>10, <2>1 DEF OneJob
  <2>2. CASE k \notin jobs /\ m \notin jobs
    BY <1>4, <1>10, <2>2, Zenon
  <2> QED
    BY <1>9, <1>10, <2>1, <2>2
<1>11. OneJob'
  BY <1>10 DEF OneJob
<1>12. UNCHANGED <<over, gone, exposed>>
  BY DEF Begins
<1>13. \A k \in jobs' : k \in jobs \/ Begun(k)
  BY <1>4
<1>14. \A k \in jobs', i \in jobs : k.path[1] = i.path[1] /\ i.path \in Alone' => k \in jobs
  BY <1>9
<1> QED
  BY <1>1, <1>8, <1>11, <1>12, <1>13, <1>14 DEF BeginCases

\* Every operation begins as BeginCases says.
LEMMA BeginSplits ==
    ASSUME TypeOK, OneJob, BackOK, SyncFiles \/ \E x \in Paths : SyncSingleFile(x)
    PROVE  BeginCases
<1>1. CASE SyncFiles
  <2> DEFINE all == DOMAIN snapshot.files \cup DOMAIN local \cup DOMAIN remote
             back == [x \in all |-> ~(x \in DOMAIN remote /\ ~IsSyncCandidate(x))]
  <2>1. all \in SUBSET Names
    BY DEF TypeOK, SnapshotType
  <2>2. back \in [all -> BOOLEAN]
    OBVIOUS
  <2>3. Begins(all) /\ jobs' = jobs \cup {Job(x, back[x], FALSE) : x \in all}
    BY <1>1 DEF SyncFiles
  <2>4. ASSUME NEW x \in all, ~back[x] PROVE R(x) # Absent /\ accepted # Pages
    <3>1. x \in DOMAIN remote /\ x[1] \notin accepted /\ x[1] \in Pages
      BY <2>1, <2>4 DEF IsSyncCandidate, Names
    <3> QED
      BY <3>1, Present
  <2>5. UNCHANGED <<local, remote, clock, snapshot, accepted>> /\ saved' \in {saved, snapshot}
    BY <1>1 DEF SyncFiles, files
  <2> HIDE DEF all, back
  <2> QED
    BY <2>3, <2>4, <2>5, <2>1, <2>2, BeginsFor
<1>2. ASSUME NEW x \in Paths, SyncSingleFile(x) PROVE BeginCases
  <2> DEFINE all == {x}
             back == [y \in all |-> TRUE]
  <2>1. all \in SUBSET Names
    BY PathNames
  <2>2. back \in [all -> BOOLEAN]
    OBVIOUS
  <2>3. Begins(all) /\ jobs' = jobs \cup {Job(y, back[y], TRUE) : y \in all}
    BY <1>2 DEF SyncSingleFile
  <2>4. \A y \in all : ~back[y] => R(y) # Absent /\ accepted # Pages
    OBVIOUS
  <2>5. UNCHANGED <<local, remote, clock, snapshot, accepted>> /\ saved' \in {saved, snapshot}
    BY <1>2 DEF SyncSingleFile, files
  <2> HIDE DEF all, back
  <2> QED
    BY <2>3, <2>4, <2>5, <2>1, <2>2, BeginsFor
<1> QED
  BY <1>1, <1>2

\* An operation that begins keeps the types.
LEMMA BeginType ==
    ASSUME TypeOK, BackOK, BeginCases
    PROVE  Grows /\ TypeOK' /\ OneJob' /\ BackOK'
<1>1. /\ UNCHANGED <<local, remote, clock, snapshot, accepted, over, gone, exposed>>
      /\ saved' \in {saved, snapshot} /\ OneJob' /\ Alone' \subseteq Alone
      /\ used' \in Usage /\ used'.configs = used.configs /\ used'.faults = used.faults
  BY DEF BeginCases
<1>2. Grows /\ SpaceType' /\ BackOK'
  BY <1>1, SpacesSame DEF Grows, TypeOK, BackOK, Usage
<1>3. SnapshotType(snapshot', clock') /\ SnapshotType(saved', clock') /\ accepted' \subseteq Pages
  BY <1>1 DEF TypeOK
<1>4. ASSUME NEW k \in jobs' PROVE JobType(k)'
  <2>1. JobType(k)
    BY DEF BeginCases, Begun, TypeOK
  <2> QED
    BY <1>2, <2>1, JobTypeGrows
<1>5. TypeOK'
  BY <1>1, <1>2, <1>3, <1>4 DEF TypeOK, SpaceType, Grows
<1> QED
  BY <1>1, <1>2, <1>5

\* A user writes x over old: a body of his own, which knows what he had before him, and
\* is noted where a job holds older metadata.
Wrote(x, old, silently) ==
    /\ clock' = clock + 1 /\ gone' = gone
    /\ over' = Stored(over, clock + 1, IF old = Absent THEN {} ELSE Over(old.body))
    /\ exposed \subseteq exposed'
    /\ silently \/ ~NoJobAt(x) => clock + 1 \in exposed'

\* A user deletes x.
Erased(x) ==
    /\ UNCHANGED <<clock, over, exposed>> /\ gone \subseteq gone'
    /\ x \in Deleted'

\* One file, x, changes on one side.
OneSide(x, there) ==
    \/ /\ there = "local" /\ remote' = remote
       /\ local' = Without(local, x) \/ \E f : f # Absent /\ local' = Stored(local, x, f)
    \/ /\ there = "remote" /\ local' = local
       /\ remote' = Without(remote, x) \/ \E f : f # Absent /\ remote' = Stored(remote, x, f)

\* A change on one side at one path is none elsewhere.
LEMMA OtherPaths ==
    ASSUME NEW x
    PROVE  /\ OneSide(x, "local") => (\A y : R(y)' = R(y)) /\ \A y : y # x => L(y)' = L(y)
           /\ OneSide(x, "remote") => (\A y : L(y)' = L(y)) /\ \A y : y # x => R(y)' = R(y)
<1>1. ASSUME OneSide(x, "local")
      PROVE  (\A y : R(y)' = R(y)) /\ \A y : y # x => L(y)' = L(y)
  <2>1. remote' = remote /\ (local' = Without(local, x) \/ \E f : local' = Stored(local, x, f))
    BY <1>1 DEF OneSide
  <2> QED
    BY <2>1, LocalStored, LocalWithout, RemoteSame
<1>2. ASSUME OneSide(x, "remote")
      PROVE  (\A y : L(y)' = L(y)) /\ \A y : y # x => R(y)' = R(y)
  <2>1. local' = local /\ (remote' = Without(remote, x) \/ \E f : remote' = Stored(remote, x, f))
    BY <1>2 DEF OneSide
  <2> QED
    BY <2>1, RemoteStored, RemoteWithout, LocalSame
<1> QED
  BY <1>1, <1>2

\* The file a user writes.
NewFile == [body |-> clock + 1, time |-> clock + 1]

\* What a user may do to x, in these terms.
UserCases(x) ==
    /\ UNCHANGED <<saved, accepted, jobs, crowded>>
    /\ used' \in Usage /\ used'.configs = used.configs /\ used'.faults = used.faults
    /\ snapshot' = [files |-> snapshot.files, nonSynced |-> snapshot'.nonSynced]
    /\ \A y \in snapshot.nonSynced \ snapshot'.nonSynced : y = x /\ x \in Deleted'
    /\ snapshot'.nonSynced \subseteq snapshot.nonSynced \cup {x}
    /\ \/ Wrote(x, L(x), FALSE) /\ OneSide(x, "local") /\ L(x)' = NewFile
       \/ Wrote(x, R(x), FALSE) /\ OneSide(x, "remote") /\ R(x)' = NewFile
       \/ /\ R(x) # Absent /\ Wrote(x, R(x), TRUE) /\ OneSide(x, "remote")
          /\ R(x)' = [body |-> clock + 1, time |-> R(x).time]
       \/ Erased(x) /\ OneSide(x, "local") /\ L(x)' = Absent
       \/ Erased(x) /\ OneSide(x, "remote") /\ R(x)' = Absent

\* Authored, in these terms.
LEMMA AuthoredWrote ==
    ASSUME NEW space, NEW x, NEW silently \in BOOLEAN, Authored(space, x, silently)
    PROVE  Wrote(x, At(space, x), silently)
BY DEF Authored, Wrote, NoJobAt, Over

\* A deletion, in these terms.
LEMMA ErasedDeleted ==
    ASSUME UNCHANGED <<clock, over, exposed>>, NEW x, NEW side, NEW body,
           gone' = gone \cup {[side |-> side, path |-> x, body |-> body]}
    PROVE  Erased(x)
<1>1. [side |-> side, path |-> x, body |-> body].path = x
  OBVIOUS
<1>2. x \in Deleted'
  BY <1>1 DEF Deleted
<1> QED
  BY <1>2 DEF Erased

\* What a user writes is typed, and remembers what he had before him.
LEMMA WroteType ==
    ASSUME TypeOK, NEW x \in Names, NEW old \in Versions \cup {Absent}, NEW silently, Wrote(x, old, silently)
    PROVE  /\ clock' \in Nat \ {0} /\ clock <= clock' /\ clock + 1 \in DOMAIN over'
           /\ over' \in [DOMAIN over' -> SUBSET Nat] /\ DOMAIN over' \subseteq 1 .. clock'
           /\ DOMAIN over \subseteq DOMAIN over' /\ \A b \in DOMAIN over : over'[b] = over[b]
           /\ over'[clock + 1] = IF old = Absent THEN {} ELSE Over(old.body)
<1>1. clock \in Nat \ {0} /\ DOMAIN over \subseteq 1 .. clock /\ clock' = clock + 1
  BY DEF TypeOK, Wrote
<1>2. old # Absent => Over(old.body) \in SUBSET Nat
  BY DEF TypeOK, Versions, Over
<1> DEFINE prior == IF old = Absent THEN {} ELSE Over(old.body)
<1>3. prior \in SUBSET Nat /\ over' = Stored(over, clock + 1, prior)
  BY <1>2 DEF Wrote
<1> HIDE DEF prior
<1>4. /\ over' \in [DOMAIN over' -> SUBSET Nat] /\ DOMAIN over' = DOMAIN over \cup {clock + 1}
      /\ over'[clock + 1] = prior
      /\ \A b \in DOMAIN over : b # clock + 1 => over'[b] = over[b]
  BY <1>3 DEF Stored, TypeOK
<1> QED
  BY <1>1, <1>4 DEF prior

\* An edit is counted as an edit, and as nothing that excuses a loss.
LEMMA UserFrame ==
    ASSUME TypeOK, Answers(TRUE) \/ Answers(FALSE) \/ Spend("edits", MaxEdits)
    PROVE  used' \in Usage /\ used'.configs = used.configs /\ used'.faults = used.faults
<1>1. used \in Usage
  BY DEF TypeOK, Usage
<1>2. ASSUME NEW offline \in BOOLEAN, Answers(offline)
      PROVE  used' \in Usage /\ used'.configs = used.configs /\ used'.faults = used.faults
  <2> DEFINE n == IF offline THEN used.offline + 1 ELSE used.offline
  <2>1. used' = [used EXCEPT !.edits = used.edits + 1, !.offline = n]
    BY <1>2 DEF Answers
  <2>2. n \in Nat /\ used.edits + 1 \in Nat
    BY <1>1 DEF Usage
  <2> HIDE DEF n
  <2> QED
    BY <1>1, <2>1, <2>2 DEF Usage
<1>3. CASE Spend("edits", MaxEdits)
  BY <1>1, <1>3 DEF Spend, Usage
<1> QED
  BY <1>2, <1>3

\* The snapshot is its two fields.
LEMMA SnapshotNow ==
    ASSUME TypeOK
    PROVE  snapshot = [files |-> snapshot.files, nonSynced |-> snapshot.nonSynced]
BY DEF TypeOK, SnapshotType

\* Every action of a user is one of UserCases.
LEMMA UserSplits ==
    ASSUME TypeOK, NEW p \in Pages, User(p)
    PROVE  UserCases(<<p>>)
<1> DEFINE x == <<p>>
<1>1. L(x) = At(local, x) /\ R(x) = At(remote, x) /\ x \in Names
  BY PathNames DEF L, R, Paths
<1>2. snapshot = [files |-> snapshot.files, nonSynced |-> snapshot.nonSynced]
  BY SnapshotNow
<1>10. \A t : [body |-> clock + 1, time |-> t] # Absent
  BY DEF Absent, TypeOK
<1> USE <1>1, <1>10 DEF Engine
<1>3. ASSUME NEW offline \in BOOLEAN, Put(p, offline) PROVE UserCases(x)
  <2>1. UNCHANGED <<remote, snapshot, saved, accepted, jobs, crowded>>
    BY <1>3 DEF Put, Authored
  <2>2. used' \in Usage /\ used'.configs = used.configs /\ used'.faults = used.faults
    BY <1>3, UserFrame DEF Put
  <2>3. Wrote(x, L(x), FALSE)
    BY <1>3, AuthoredWrote DEF Put
  <2>4. OneSide(x, "local") /\ L(x)' = NewFile
    BY <1>3, <2>1, LocalStored, RemoteSame DEF Put, OneSide, NewFile
  <2> QED
    BY <1>2, <2>1, <2>2, <2>3, <2>4 DEF UserCases
<1>4. ASSUME NEW offline \in BOOLEAN, Delete(p, offline) PROVE UserCases(x)
  <2>1. UNCHANGED <<remote, snapshot, saved, accepted, jobs, crowded>>
    BY <1>4 DEF Delete
  <2>2. used' \in Usage /\ used'.configs = used.configs /\ used'.faults = used.faults
    BY <1>4, UserFrame DEF Delete
  <2>3. Erased(x)
    BY <1>4, ErasedDeleted DEF Delete
  <2>4. OneSide(x, "local") /\ L(x)' = Absent
    BY <1>4, <2>1, LocalWithout, RemoteSame DEF Delete, OneSide
  <2> QED
    BY <1>2, <2>1, <2>2, <2>3, <2>4 DEF UserCases
<1>5. ASSUME PutProxied(p) PROVE UserCases(x)
  <2>1. UNCHANGED <<local, saved, accepted, jobs, crowded>>
    BY <1>5 DEF PutProxied, Authored
  <2>2. used' \in Usage /\ used'.configs = used.configs /\ used'.faults = used.faults
    BY <1>5, UserFrame DEF PutProxied
  <2>3. Wrote(x, R(x), FALSE)
    BY <1>5, AuthoredWrote DEF PutProxied
  <2>4. OneSide(x, "remote") /\ R(x)' = NewFile
    BY <1>5, <2>1, RemoteStored, LocalSame DEF PutProxied, OneSide, NewFile
  <2>5. /\ snapshot' = [files |-> snapshot.files, nonSynced |-> snapshot'.nonSynced]
        /\ snapshot'.nonSynced = snapshot.nonSynced \cup {x}
    BY <1>5, <1>2 DEF PutProxied, Marked
  <2> QED
    BY <2>3, <2>4, <2>5, <2>1, <2>2 DEF UserCases
<1>6. ASSUME DeleteProxied(p) PROVE UserCases(x)
  <2>1. UNCHANGED <<local, saved, accepted, jobs, crowded>>
    BY <1>6 DEF DeleteProxied
  <2>2. used' \in Usage /\ used'.configs = used.configs /\ used'.faults = used.faults
    BY <1>6, UserFrame DEF DeleteProxied
  <2>3. Erased(x)
    BY <1>6, ErasedDeleted DEF DeleteProxied
  <2>4. OneSide(x, "remote") /\ R(x)' = Absent
    BY <1>6, <2>1, RemoteWithout, LocalSame DEF DeleteProxied, OneSide
  <2>5. /\ snapshot' = [files |-> snapshot.files, nonSynced |-> snapshot'.nonSynced]
        /\ snapshot'.nonSynced = snapshot.nonSynced \ {x}
    BY <1>6, <1>2 DEF DeleteProxied
  <2> QED
    BY <2>3, <2>4, <2>5, <2>1, <2>2 DEF UserCases, Erased
<1>7. ASSUME RemotePut(p) PROVE UserCases(x)
  <2>1. UNCHANGED <<local, snapshot, saved, accepted, jobs, crowded>>
    BY <1>7 DEF RemotePut, Authored
  <2>2. used' \in Usage /\ used'.configs = used.configs /\ used'.faults = used.faults
    BY <1>7, UserFrame DEF RemotePut
  <2>3. Wrote(x, R(x), FALSE)
    BY <1>7, AuthoredWrote DEF RemotePut
  <2>4. OneSide(x, "remote") /\ R(x)' = NewFile
    BY <1>7, <2>1, RemoteStored, LocalSame DEF RemotePut, OneSide, NewFile
  <2> QED
    BY <1>2, <2>1, <2>2, <2>3, <2>4 DEF UserCases
<1>8. ASSUME RemoteDelete(p) PROVE UserCases(x)
  <2>1. UNCHANGED <<local, snapshot, saved, accepted, jobs, crowded>>
    BY <1>8 DEF RemoteDelete
  <2>2. used' \in Usage /\ used'.configs = used.configs /\ used'.faults = used.faults
    BY <1>8, UserFrame DEF RemoteDelete
  <2>3. Erased(x)
    BY <1>8, ErasedDeleted DEF RemoteDelete
  <2>4. OneSide(x, "remote") /\ R(x)' = Absent
    BY <1>8, <2>1, RemoteWithout, LocalSame DEF RemoteDelete, OneSide
  <2> QED
    BY <1>2, <2>1, <2>2, <2>3, <2>4 DEF UserCases
<1>9. ASSUME RemoteTruncate(p) PROVE UserCases(x)
  <2>1. UNCHANGED <<local, snapshot, saved, accepted, jobs, crowded>> /\ x \in DOMAIN remote
    BY <1>9 DEF RemoteTruncate, Authored
  <2>2. used' \in Usage /\ used'.configs = used.configs /\ used'.faults = used.faults
    BY <1>9, UserFrame DEF RemoteTruncate
  <2>3. Wrote(x, R(x), TRUE)
    BY <1>9, AuthoredWrote DEF RemoteTruncate
  <2>4. remote' = Stored(remote, x, [body |-> clock + 1, time |-> R(x).time])
    <3>1. remote[x] \in Versions /\ R(x) = remote[x] /\ remote \in [DOMAIN remote -> Versions]
      BY <2>1, Present DEF TypeOK
    <3>2. [remote[x] EXCEPT !.body = clock + 1] = [body |-> clock + 1, time |-> R(x).time]
      BY <3>1 DEF Versions
    <3>3. remote' = [remote EXCEPT ![x] = [remote[x] EXCEPT !.body = clock + 1]]
      BY <1>9 DEF RemoteTruncate
    <3> QED
      BY <2>1, <3>1, <3>2, <3>3 DEF Stored
  <2>5. OneSide(x, "remote") /\ R(x)' = [body |-> clock + 1, time |-> R(x).time]
    BY <2>1, <2>4, RemoteStored, LocalSame DEF OneSide
  <2>6. R(x) # Absent
    BY <2>1, Present
  <2> QED
    BY <1>2, <2>1, <2>2, <2>3, <2>5, <2>6 DEF UserCases
<1> QED
  BY <1>3, <1>4, <1>5, <1>6, <1>7, <1>8, <1>9 DEF User

\* What users do keeps the types.
LEMMA UserType ==
    ASSUME TypeOK, OneJob, NEW x \in Names, UserCases(x)
    PROVE  Grows /\ TypeOK' /\ OneJob'
<1>1. /\ UNCHANGED <<saved, accepted, jobs, crowded>> /\ x \in Names /\ clock \in Nat \ {0}
      /\ used' \in Usage /\ used'.configs = used.configs /\ used'.faults = used.faults
      /\ crowded' = crowded
  BY DEF UserCases, TypeOK
<1>2. L(x) \in Versions \cup {Absent} /\ R(x) \in Versions \cup {Absent}
  BY Present
<1>3. /\ clock' \in Nat \ {0} /\ clock <= clock'
      /\ over' \in [DOMAIN over' -> SUBSET Nat] /\ DOMAIN over' \subseteq 1 .. clock'
      /\ DOMAIN over \subseteq DOMAIN over' /\ \A b \in DOMAIN over : over'[b] = over[b]
      /\ Deleted \subseteq Deleted' /\ exposed \subseteq exposed'
      /\ gone \subseteq gone'
      /\ \/ L(x)' \in Versions' \cup {Absent} /\ OneSide(x, "local")
         \/ R(x)' \in Versions' \cup {Absent} /\ OneSide(x, "remote")
  <2>1. CASE Wrote(x, L(x), FALSE) /\ OneSide(x, "local") /\ L(x)' = NewFile
    <3>1. PICK old \in Versions \cup {Absent} : old = L(x)
      BY <1>2
    <3>2. Wrote(x, old, FALSE)
      BY <2>1, <3>1
    <3>3. /\ clock' \in Nat \ {0} /\ clock <= clock' /\ clock + 1 \in DOMAIN over'
          /\ clock' = clock + 1
      BY <1>1, <3>2, WroteType DEF Wrote
    <3>4. NewFile \in Versions'
      BY <1>1, <3>3 DEF NewFile, Versions
    <3> QED
      BY <1>1, <2>1, <3>2, <3>4, WroteType DEF Wrote, Deleted
  <2>2. CASE Wrote(x, R(x), FALSE) /\ OneSide(x, "remote") /\ R(x)' = NewFile
    <3>1. PICK old \in Versions \cup {Absent} : old = R(x)
      BY <1>2
    <3>2. Wrote(x, old, FALSE)
      BY <2>2, <3>1
    <3>3. /\ clock' \in Nat \ {0} /\ clock <= clock' /\ clock + 1 \in DOMAIN over'
          /\ clock' = clock + 1
      BY <1>1, <3>2, WroteType DEF Wrote
    <3>4. NewFile \in Versions'
      BY <1>1, <3>3 DEF NewFile, Versions
    <3> QED
      BY <1>1, <2>2, <3>2, <3>4, WroteType DEF Wrote, Deleted
  <2>3. CASE /\ R(x) # Absent /\ Wrote(x, R(x), TRUE) /\ OneSide(x, "remote")
             /\ R(x)' = [body |-> clock + 1, time |-> R(x).time]
    <3>1. PICK old \in Versions : old = R(x)
      BY <1>2, <2>3
    <3>2. Wrote(x, old, TRUE)
      BY <2>3, <3>1
    <3>3. /\ clock' \in Nat \ {0} /\ clock <= clock' /\ clock + 1 \in DOMAIN over'
          /\ clock' = clock + 1
      BY <1>1, <3>2, WroteType DEF Wrote
    <3>4. [body |-> clock + 1, time |-> old.time] \in Versions'
      BY <1>1, <3>3 DEF Versions
    <3> QED
      BY <1>1, <2>3, <3>1, <3>2, <3>4, WroteType DEF Wrote, Deleted
  <2>4. CASE /\ Erased(x)
             /\ \/ L(x)' = Absent /\ OneSide(x, "local")
                \/ R(x)' = Absent /\ OneSide(x, "remote")
    BY <1>1, <2>4 DEF Erased, TypeOK, Deleted
  <2> QED
    BY <2>1, <2>2, <2>3, <2>4 DEF UserCases
<1>4. Grows
  BY <1>1, <1>3, AloneSame DEF Grows, TypeOK, Usage
<1>5. /\ Versions \subseteq Versions'
      /\ local \in [DOMAIN local -> Versions'] /\ remote \in [DOMAIN remote -> Versions']
      /\ DOMAIN local \subseteq Names /\ DOMAIN remote \subseteq Names
  BY <1>1, <1>3, SpacesGrow DEF SpaceType, TypeOK
<1>6. SpaceType'
  <2>1. CASE L(x)' \in Versions' \cup {Absent} /\ OneSide(x, "local")
    <3>1. CASE local' = Without(local, x)
      BY <1>3, <1>5, <2>1, <3>1, WithoutType DEF OneSide, SpaceType
    <3>2. ASSUME NEW f, f # Absent, local' = Stored(local, x, f) PROVE SpaceType'
      <4>1. L(x)' = f
        BY <3>2, LocalStored
      <4>2. f \in Versions'
        BY <1>3, <2>1, <3>2, <4>1 DEF OneSide
      <4>3. DOMAIN local' \subseteq Names /\ local' \in [DOMAIN local' -> Versions']
        BY <1>1, <1>5, <3>2, <4>2, StoredType
      <4> QED
        BY <1>3, <1>5, <2>1, <4>3 DEF OneSide, SpaceType
    <3> QED
      BY <2>1, <3>1, <3>2 DEF OneSide
  <2>2. CASE R(x)' \in Versions' \cup {Absent} /\ OneSide(x, "remote")
    <3>1. CASE remote' = Without(remote, x)
      BY <1>3, <1>5, <2>2, <3>1, WithoutType DEF OneSide, SpaceType
    <3>2. ASSUME NEW f, f # Absent, remote' = Stored(remote, x, f) PROVE SpaceType'
      <4>1. R(x)' = f
        BY <3>2, RemoteStored
      <4>2. f \in Versions'
        BY <1>3, <2>2, <3>2, <4>1 DEF OneSide
      <4>3. DOMAIN remote' \subseteq Names /\ remote' \in [DOMAIN remote' -> Versions']
        BY <1>1, <1>5, <3>2, <4>2, StoredType
      <4> QED
        BY <1>3, <1>5, <2>2, <4>3 DEF OneSide, SpaceType
    <3> QED
      BY <2>2, <3>1, <3>2 DEF OneSide
  <2> QED
    BY <1>3, <2>1, <2>2
<1>7. SnapshotType(snapshot', clock') /\ SnapshotType(saved', clock')
  <2>1. SnapshotType(snapshot, clock') /\ SnapshotType(saved, clock')
    BY <1>1, <1>3, SnapshotTypeGrows DEF TypeOK
  <2>2. /\ snapshot' = [files |-> snapshot.files, nonSynced |-> snapshot'.nonSynced]
        /\ snapshot'.nonSynced \subseteq snapshot.nonSynced \cup {x}
    BY DEF UserCases
  <2> QED
    BY <1>1, <2>1, <2>2 DEF SnapshotType
<1>8. OneJob' /\ \A k \in jobs' : \E i \in jobs : Heir(k, i)
  BY <1>1, AloneSame DEF OneJob, Heir
<1>9. accepted' \subseteq Pages
  BY <1>1 DEF TypeOK
<1> QED
  BY <1>4, <1>6, <1>7, <1>8, <1>9, TypeStep

----------------------------------------
(* The pages: what a step leaves alone *)

\* Two snapshots have the same of x.
SameAt(S, T, x) ==
    /\ Known(S, x) <=> Known(T, x)
    /\ Known(T, x) => S.files[x] = T.files[x]
    /\ x \in S.nonSynced <=> x \in T.nonSynced

\* A page is sound after a step if it is so by the new records.
LEMMA PathJoin ==
    ASSUME NEW x, Equal(x)', Missing(x)',
           NEW S, S = snapshot', Honest(S, x)', Traced(S, x)',
           NEW T, T = saved', Honest(T, x)', used'.configs = 0 => Traced(T, x)'
    PROVE  PathOK(x)'
BY DEF PathOK, Honest, Traced

\* What grows, at one path.
LEMMA FilesGrow ==
    ASSUME TypeOK, Grows, NEW x
    PROVE  /\ L(x) # Absent => L(x).body \in DOMAIN over
           /\ R(x) # Absent => R(x).body \in DOMAIN over
           /\ \A b \in DOMAIN over : over'[b] = over[b]
           /\ exposed \subseteq exposed'
           /\ Excuse(x) => Excuse(x)'
<1>1. L(x) # Absent => L(x) \in Versions /\ L(x).body \in DOMAIN over
  BY Present DEF Versions
<1>2. R(x) # Absent => R(x) \in Versions /\ R(x).body \in DOMAIN over
  BY Present DEF Versions
<1>3. \A b \in DOMAIN over : over'[b] = over[b]
  BY DEF Grows
<1> QED
  BY <1>1, <1>2, <1>3, ExcuseGrows DEF Grows

\* A path where nothing happens stays traced.
LEMMA TracedStill ==
    ASSUME TypeOK, Grows, NEW x, L(x)' = L(x), R(x)' = R(x),
           NEW S, Traced(S, x), NEW T, SameAt(T, S, x)
    PROVE  Traced(T, x)'
<1>1. /\ L(x) # Absent => over'[L(x).body] = over[L(x).body]
      /\ R(x) # Absent => over'[R(x).body] = over[R(x).body]
      /\ exposed \subseteq exposed' /\ (Excuse(x) => Excuse(x)')
  BY FilesGrow
<1> QED
  BY <1>1 DEF Traced, SameAt, Known, Here, There, Covers, Over

\* A record of a path where nothing happens stays honest.
LEMMA HonestStill ==
    ASSUME NEW x, L(x)' = L(x), R(x)' = R(x), NEW S, Honest(S, x), NEW T, SameAt(T, S, x)
    PROVE  Honest(T, x)'
BY DEF Honest, SameAt, Known

\* With an excuse, or with both sides in step, any record of the file will do.
InStep(x) ==
    /\ L(x) = Absent => Excuse(x)
    /\ L(x) # Absent =>
          \/ R(x) # Absent /\ Covers(R(x), L(x))
          \/ L(x).body \in exposed \/ Excuse(x)
    /\ R(x) # Absent =>
          \/ L(x) # Absent /\ Covers(L(x), R(x))
          \/ R(x).body \in exposed \/ Excuse(x)

\* A path in step is traced by any record.
LEMMA InStepTraced == ASSUME NEW x, InStep(x)' PROVE \A T : Traced(T, x)'
BY DEF InStep, Traced

\* An excused path is in step.
LEMMA ExcuseInStep == ASSUME NEW x, Excuse(x)' PROVE InStep(x)' /\ Missing(x)'
BY DEF InStep, Missing

\* Nothing happens at x: the two files are as they were, and so is what is recorded, or
\* else the saved record becomes the record after a fault.
LEMMA PathStill ==
    ASSUME TypeOK, Grows, NEW x, PathOK(x), L(x)' = L(x), R(x)' = R(x),
           \/ SameAt(snapshot', snapshot, x)
           \/ SameAt(snapshot', saved, x) /\ used'.faults > 0,
           \/ SameAt(saved', saved, x)
           \/ SameAt(saved', snapshot, x)
    PROVE  PathOK(x)'
<1>1. PICK S : S = snapshot'
  OBVIOUS
<1>2. PICK T : T = saved'
  OBVIOUS
<1>3. used'.configs = 0 => used.configs = 0
  <2>1. used.configs \in Nat /\ used'.configs \in Nat /\ used.configs <= used'.configs
    BY DEF Grows, Usage
  <2> QED
    BY <2>1
<1>4. Equal(x)' /\ Missing(x)'
  BY ExcuseGrows DEF PathOK, Equal, Missing
<1>5. Honest(S, x)' /\ Honest(T, x)'
  BY <1>1, <1>2, HonestStill DEF PathOK
<1>6. used'.configs = 0 => Traced(T, x)'
  BY <1>2, <1>3, TracedStill DEF PathOK
<1>7. Traced(S, x)'
  <2>1. CASE SameAt(snapshot', snapshot, x)
    BY <1>1, <2>1, TracedStill DEF PathOK
  <2>2. CASE SameAt(snapshot', saved, x) /\ used'.faults > 0 /\ used'.configs = 0
    BY <1>1, <1>3, <2>2, TracedStill DEF PathOK
  <2>3. CASE used'.faults > 0 /\ used'.configs # 0
    <3>1. Excuse(x)'
      BY <2>3 DEF Excuse, Both, Grows, Usage
    <3> QED
      BY <3>1, ExcuseInStep, InStepTraced
  <2> QED
    BY <2>1, <2>2, <2>3
<1> QED
  BY <1>1, <1>2, <1>4, <1>5, <1>6, <1>7, PathJoin

\* A job at whose path nothing happens is as sound as it was.
LEMMA JobStill ==
    ASSUME TypeOK, Grows, NEW i \in jobs, NEW k, Heir(k, i), JobOK(i),
           L(i.path)' = L(i.path), R(i.path)' = R(i.path),
           SameAt(snapshot', snapshot, i.path),
           SameAt(saved', saved, i.path) \/ SameAt(saved', snapshot, i.path)
    PROVE  JobOK(k)'
<1> DEFINE x == i.path
<1>1. JobType(i) /\ JobType(k)
  BY HeirFields DEF TypeOK
<1>2. /\ k.path = x /\ k.back = i.back /\ k.at = i.at
      /\ k.p = i.p /\ k.s = i.s /\ k.d = i.d /\ k.e = i.e
  BY <1>1, HeirFields
<1>3. /\ L(x) # Absent => over'[L(x).body] = over[L(x).body]
      /\ R(x) # Absent => over'[R(x).body] = over[R(x).body]
      /\ exposed \subseteq exposed' /\ (Excuse(x) => Excuse(x)')
  BY FilesGrow
<1>4. ASSUME NEW v, SinceL(x, v) PROVE SinceL(x, v)'
  BY <1>3, <1>4 DEF SinceL, SameAt, Known, Here
<1>5. ASSUME NEW v, SinceR(x, v) PROVE SinceR(x, v)'
  BY <1>3, <1>5 DEF SinceR, SameAt, Known, There
<1>6. used.configs > 0 => used'.configs > 0
  <2>1. used.configs \in Nat /\ used'.configs \in Nat /\ used.configs <= used'.configs
    BY DEF Grows, Usage
  <2> QED
    BY <2>1
<1>7. i.d # Absent => i.d.body \in DOMAIN over /\ over'[i.d.body] = over[i.d.body]
  BY <1>1 DEF JobType, Versions, Grows
<1>8. i.e # Absent => i.e.body \in DOMAIN over /\ over'[i.e.body] = over[i.e.body]
  BY <1>1 DEF JobType, Versions, Grows
<1>9. (Known(snapshot, x)' <=> Known(snapshot, x)) /\ (x \in snapshot'.nonSynced <=> x \in snapshot.nonSynced)
  BY DEF SameAt, Known
<1>10. i.at = "push" => i.d # Absent
  BY <1>1 DEF JobType
<1>11. i.at = "pull" => i.e # Absent
  BY <1>1 DEF JobType
<1> HIDE DEF x
<1> QED
  BY <1>2, <1>3, <1>4, <1>5, <1>6, <1>7, <1>8, <1>9, <1>10, <1>11 DEF JobOK, Covers, Over, x

----------------------------------------
(* The pages: a decision *)

\* Recording a pair of times changes that record and no other.
LEMMA Updates ==
    ASSUME NEW S, NEW now, SnapshotType(S, now), NEW x, NEW a, NEW b
    PROVE  /\ \A y : y # x =>
                 SameAt(Recorded(S, x, a, b), S, y) /\ SameAt(Matched(S, x, a, b), S, y)
           /\ Known(Recorded(S, x, a, b), x) /\ Recorded(S, x, a, b).files[x] = <<a, b>>
           /\ Known(Matched(S, x, a, b), x) /\ Matched(S, x, a, b).files[x] = <<a, b>>
<1>1. S = [files |-> S.files, nonSynced |-> S.nonSynced]
  BY DEF SnapshotType
<1>2. ASSUME NEW f
      PROVE  /\ DOMAIN Stored(S.files, x, f) = DOMAIN S.files \cup {x}
             /\ Stored(S.files, x, f)[x] = f
             /\ \A y \in DOMAIN S.files : y # x => Stored(S.files, x, f)[y] = S.files[y]
  BY DEF Stored
<1>3. Matched(S, x, a, b) = [files |-> Stored(S.files, x, <<a, b>>), nonSynced |-> S.nonSynced]
  BY <1>1 DEF Matched
<1>4. /\ \A y : y # x => SameAt(Recorded(S, x, a, b), S, y)
      /\ Known(Recorded(S, x, a, b), x) /\ Recorded(S, x, a, b).files[x] = <<a, b>>
  BY <1>2 DEF Recorded, SameAt, Known
<1>5. /\ \A y : y # x => SameAt(Matched(S, x, a, b), S, y)
      /\ Known(Matched(S, x, a, b), x) /\ Matched(S, x, a, b).files[x] = <<a, b>>
  BY <1>2, <1>3 DEF SameAt, Known
<1> QED
  BY <1>4, <1>5

\* So does noting a file that is not kept here,
LEMMA NotedAt ==
    ASSUME NEW S, NEW x, NEW t
    PROVE  /\ \A y : y # x => SameAt(Noted(S, x, t), S, y)
           /\ Known(Noted(S, x, t), x) /\ Noted(S, x, t).files[x] = <<t, t>>
           /\ x \in Noted(S, x, t).nonSynced
BY DEF Noted, Stored, SameAt, Known

\* marking it,
LEMMA MarkedAt ==
    ASSUME NEW S, NEW now, SnapshotType(S, now), NEW x
    PROVE  /\ \A y : y # x => SameAt(Marked(S, x), S, y)
           /\ x \in Marked(S, x).nonSynced /\ (Known(Marked(S, x), x) <=> Known(S, x))
           /\ Known(S, x) => Marked(S, x).files[x] = S.files[x]
<1> DEFINE ns == S.nonSynced \cup {x}
<1>1. Marked(S, x) = [S EXCEPT !.nonSynced = ns]
  BY DEF Marked
<1> HIDE DEF ns
<1>2. [S EXCEPT !.nonSynced = ns] = [files |-> S.files, nonSynced |-> ns]
  BY DEF SnapshotType
<1>3. Marked(S, x) = [files |-> S.files, nonSynced |-> S.nonSynced \cup {x}]
  BY <1>1, <1>2 DEF ns
<1> QED
  BY <1>3 DEF SameAt, Known

\* and forgetting it.
LEMMA ForgottenAt ==
    ASSUME NEW S, NEW x
    PROVE  /\ \A y : y # x => SameAt(Forgotten(S, x), S, y)
           /\ ~Known(Forgotten(S, x), x)
BY DEF Forgotten, Without, Restrict, SameAt, Known

\* A snapshot is as it is.
LEMMA SameAtItself == \A S, x : SameAt(S, S, x)
BY DEF SameAt

\* What a decision does with the record of its file, told by what it is true of.
Decided(j, T) ==
    LET x == j.path IN
    \/ SameAt(T, snapshot, x)
    \/ /\ Known(T, x) /\ Here(T, x) = There(T, x) /\ T.files[x] = <<Here(T, x), There(T, x)>>
       /\ x \in T.nonSynced /\ j.s # Absent /\ Here(T, x) = j.s.time
       /\ j.p = Absent \/ (Known(snapshot, x) /\ j.p.time = Here(snapshot, x))
    \/ /\ Known(T, x) <=> Known(snapshot, x)
       /\ Known(T, x) => T.files[x] = snapshot.files[x]
       /\ x \in T.nonSynced /\ j.p = Absent
    \/ ~Known(T, x)
    \/ /\ L(x) # Absent /\ R(x) # Absent /\ L(x).body = R(x).body
       /\ T.files[x] = <<L(x).time, R(x).time>>

\* The record a decision leaves, and the other records.
LEMMA DecidedCases ==
    ASSUME TypeOK, NEW j \in jobs, j.at = "ready", DecideCases(j), NEW T, T = snapshot'
    PROVE  Decided(j, T) /\ \A y : y # j.path => SameAt(T, snapshot, y)
<1> DEFINE x == j.path
<1>1. SnapshotType(snapshot, clock) /\ JobType(j)
  BY DEF TypeOK
<1>2. CASE Plan(j) = "note" /\ Outcome(j, Noted(snapshot, x, j.s.time))
  <2>1. T = Noted(snapshot, x, j.s.time) /\ j.p = Absent /\ j.s # Absent
    BY <1>1, <1>2, PlanFacts DEF Outcome
  <2>2. /\ \A y : y # x => SameAt(T, snapshot, y)
        /\ Known(T, x) /\ T.files[x] = <<j.s.time, j.s.time>> /\ x \in T.nonSynced
    BY <1>1, <2>1, NotedAt
  <2> QED
    BY <2>1, <2>2 DEF Decided, Here, There
<1>3. CASE Plan(j) = "mark" /\ Outcome(j, Marked(snapshot, x))
  <2>1. T = Marked(snapshot, x) /\ j.p = Absent
    BY <1>1, <1>3, PlanFacts DEF Outcome
  <2>2. /\ \A y : y # x => SameAt(T, snapshot, y)
        /\ x \in T.nonSynced /\ (Known(T, x) <=> Known(snapshot, x))
        /\ Known(snapshot, x) => T.files[x] = snapshot.files[x]
    BY <1>1, <2>1, MarkedAt
  <2> QED
    BY <2>1, <2>2 DEF Decided
<1>4. CASE Plan(j) = "forget" /\ Outcome(j, Forgotten(snapshot, x))
  BY <1>1, <1>4, ForgottenAt DEF Decided, Outcome
<1>5. CASE /\ Plan(j) = "resolve" /\ L(x) # Absent /\ R(x) # Absent /\ L(x).body = R(x).body
           /\ Outcome(j, Matched(snapshot, x, L(x).time, R(x).time))
  BY <1>1, <1>5, Updates DEF Decided, Outcome
<1>6. CASE Plan(j) = "drop" /\ snapshot' = Forgotten(snapshot, x)
  BY <1>1, <1>6, ForgottenAt DEF Decided
<1>7. CASE Plan(j) = "outdate" /\ snapshot' = Noted(snapshot, x, j.s.time)
  <2>1. /\ T = Noted(snapshot, x, j.s.time) /\ j.s # Absent
        /\ Known(snapshot, x) /\ j.p.time = Here(snapshot, x)
    BY <1>1, <1>7, PlanFacts
  <2>2. /\ \A y : y # x => SameAt(T, snapshot, y)
        /\ Known(T, x) /\ T.files[x] = <<j.s.time, j.s.time>> /\ x \in T.nonSynced
    BY <1>1, <2>1, NotedAt
  <2> QED
    BY <2>1, <2>2 DEF Decided, Here, There
<1>8. CASE snapshot' = snapshot
  BY <1>8, SameAtItself DEF Decided
<1> QED
  BY <1>2, <1>3, <1>4, <1>5, <1>6, <1>7, <1>8 DEF DecideCases, GoingCases, Outcome

\* A decision leaves its page sound.
LEMMA DecidePath ==
    ASSUME TypeOK, Grows, NEW j \in jobs, j.at = "ready", DecideCases(j),
           UNCHANGED <<local, remote, clock, over, exposed, gone, used>>,
           PathOK(j.path), JobOK(j), saved' \in {saved, snapshot, snapshot'}
    PROVE  PathOK(j.path)'
<1> DEFINE x == j.path
<1>1. PICK T : T = snapshot'
  OBVIOUS
<1>2. Decided(j, T)
  BY <1>1, DecidedCases
<1>3. L(x)' = L(x) /\ R(x)' = R(x) /\ (Excuse(x) => Excuse(x)')
  BY LocalSame, RemoteSame, ExcuseGrows
<1>4. /\ SinceL(x, j.p) /\ SinceR(x, j.s)
      /\ Equal(x) /\ Honest(snapshot, x) /\ Missing(x) /\ Traced(snapshot, x)
  BY DEF PathOK, JobOK
<1> HIDE DEF x
<1>5. Honest(T, x)'
  <2>1. CASE SameAt(T, snapshot, x)
    BY <1>3, <1>4, <2>1, HonestStill
  <2>2. CASE T.files[x] = <<Here(T, x), There(T, x)>> /\ Here(T, x) = There(T, x)
    BY <1>3, <1>4, <2>2 DEF Honest, Equal
  <2>3. CASE /\ Known(T, x) <=> Known(snapshot, x)
             /\ Known(T, x) => T.files[x] = snapshot.files[x]
    BY <1>3, <1>4, <2>3 DEF Honest
  <2>4. CASE ~Known(T, x)
    BY <2>4 DEF Honest
  <2>5. CASE L(x) # Absent /\ R(x) # Absent /\ L(x).body = R(x).body
    BY <1>3, <2>5 DEF Honest
  <2> QED
    BY <1>2, <2>3, <2>4, <2>5, <2>1, <2>2 DEF Decided, x
<1>6. Traced(T, x)'
  <2>1. CASE SameAt(T, snapshot, x)
    BY <1>3, <1>4, <2>1, TracedStill
  <2>2. CASE /\ Known(T, x) /\ x \in T.nonSynced
             /\ L(x) # Absent /\ L(x).time = Here(T, x) =>
                   \/ R(x) # Absent /\ Covers(R(x), L(x))
                   \/ L(x).body \in exposed \/ Excuse(x)
    BY <1>3, <2>2 DEF Traced, Covers, Over
  <2>3. CASE ~Known(T, x)
    BY <2>3 DEF Traced
  <2>4. CASE L(x) # Absent /\ R(x) # Absent /\ L(x).body = R(x).body
    BY <1>3, <2>4 DEF Traced, Covers, Over
  <2>5. ASSUME \/ j.p = Absent
               \/ Known(snapshot, x) /\ j.p.time = Here(snapshot, x)
        PROVE  L(x) # Absent =>
                   \/ R(x) # Absent /\ Covers(R(x), L(x))
                   \/ L(x).body \in exposed \/ Excuse(x)
    BY <1>4, <2>5 DEF SinceL, Traced
  <2> QED
    BY <1>2, <2>3, <2>4, <2>5, <2>1, <2>2 DEF Decided, x
<1>7. PICK V : V = saved'
  OBVIOUS
<1>8. Honest(V, x)' /\ (used'.configs = 0 => Traced(V, x)')
  <2>1. CASE V = saved
    BY <1>3, <2>1, HonestStill, TracedStill, SameAtItself DEF PathOK, x
  <2>2. CASE V = snapshot
    BY <1>3, <1>4, <2>2, HonestStill, TracedStill, SameAtItself
  <2> QED
    BY <1>1, <1>5, <1>6, <1>7, <2>1, <2>2
<1>9. Equal(x)' /\ Missing(x)'
  BY <1>3, <1>4 DEF Equal, Missing
<1> QED
  BY <1>1, <1>5, <1>6, <1>7, <1>8, <1>9, PathJoin DEF x

\* The fields of the job that goes on.
LEMMA PlannedFields ==
    ASSUME NEW j, JobType(j), NEW n, n = Planned(j)
    PROVE  /\ n.path = j.path /\ n.back = j.back /\ n.at = Plan(j)
           /\ n.d = IF Plan(j) \in {"push", "resolve"} THEN L(j.path) ELSE Absent
           /\ n.e = IF Plan(j) \in {"pull", "theirs", "resolve"} THEN R(j.path) ELSE Absent
<1> DEFINE d == IF Plan(j) \in {"push", "resolve"} THEN L(j.path) ELSE Absent
           e == IF Plan(j) \in {"pull", "theirs", "resolve"} THEN R(j.path) ELSE Absent
<1>1. n = [j EXCEPT !.at = Plan(j), !.d = d, !.e = e, !.p = Absent, !.s = Absent]
  BY DEF Planned
<1> HIDE DEF d, e
<1>2. n.path = j.path /\ n.back = j.back /\ n.at = Plan(j) /\ n.d = d /\ n.e = e
  BY <1>1 DEF JobType
<1> QED
  BY <1>2 DEF d, e

\* The job that goes on knows the files it read, and why it may overwrite them.
LEMMA PlannedOK ==
    ASSUME TypeOK, Grows, NEW j \in jobs, j.at = "ready", GoingCases(j),
           UNCHANGED <<local, remote, clock, over, exposed, gone, used>>,
           PathOK(j.path), JobOK(j), NEW n, n = Planned(j)
    PROVE  JobOK(n)'
<1> DEFINE x == j.path
<1>1. JobType(j)
  BY DEF TypeOK
<1>2. /\ n.path = x /\ n.at = Plan(j)
      /\ n.d = IF Plan(j) \in {"push", "resolve"} THEN L(x) ELSE Absent
      /\ n.e = IF Plan(j) \in {"pull", "theirs", "resolve"} THEN R(x) ELSE Absent
  BY <1>1, PlannedFields
<1>3. L(x)' = L(x) /\ R(x)' = R(x) /\ (Excuse(x) => Excuse(x)')
  BY LocalSame, RemoteSame, ExcuseGrows
<1>4. /\ SinceL(x, j.p) /\ SinceR(x, j.s) /\ (j.s = Absent => Excuse(x))
      /\ j.p = Absent /\ Known(snapshot, x) /\ x \notin snapshot.nonSynced => Excuse(x)
      /\ Missing(x) /\ Traced(snapshot, x)
  BY DEF PathOK, JobOK
<1>5. ~j.back => used'.configs > 0
  BY <1>1 DEF JobType
<1> HIDE DEF x
<1>6. L(x)' = n.d => SinceL(x, n.d)'
  BY DEF SinceL
<1>7. R(x)' = n.e => SinceR(x, n.e)'
  BY DEF SinceR
<1>8. /\ n.at \in {"push", "resolve"} => SinceL(x, n.d)'
      /\ n.at \in {"pull", "theirs", "resolve"} => SinceR(x, n.e)'
  BY <1>2, <1>3, <1>6, <1>7
<1>9. \/ j.p = Absent
      \/ Known(snapshot, x) /\ j.p.time = Here(snapshot, x)
      => \/ L(x) = Absent
         \/ R(x) # Absent /\ Covers(R(x), L(x))
         \/ L(x).body \in exposed \/ Excuse(x)
  BY <1>4 DEF SinceL, Traced
<1>10. CASE n.at = "push"
  <2>1. \/ j.s = Absent
        \/ Known(snapshot, x) /\ j.s.time = There(snapshot, x)
    BY <1>1, <1>2, <1>10, PlanFacts DEF x
  <2>2. R(x) # Absent =>
            \/ L(x) # Absent /\ Covers(L(x), R(x))
            \/ R(x).body \in exposed \/ Excuse(x) \/ x \in snapshot.nonSynced
    BY <1>4, <2>1 DEF SinceR, Traced
  <2>3. snapshot' = snapshot
    BY <1>2, <1>10 DEF GoingCases
  <2> QED
    BY <1>2, <1>3, <1>8, <1>10, <2>2, <2>3 DEF JobOK, Covers, Over
<1>11. CASE n.at = "pull"
  <2>1. \/ j.p = Absent
        \/ Known(snapshot, x) /\ j.p.time = Here(snapshot, x)
    BY <1>1, <1>2, <1>11, PlanFacts DEF x
  <2> QED
    BY <1>2, <1>3, <1>8, <1>9, <1>11, <2>1 DEF JobOK, Covers, Over
<1>12. CASE n.at \in {"theirs", "resolve"}
  BY <1>2, <1>8, <1>12 DEF JobOK
<1>13. CASE n.at \in {"dropRemote", "drop"}
  <2>1. Excuse(x)
    BY <1>1, <1>2, <1>4, <1>13, PlanFacts DEF x
  <2> QED
    BY <1>2, <1>3, <1>13, <2>1 DEF JobOK
<1>14. CASE n.at \in {"outdate", "unsync"}
  <2>1. /\ ~j.back /\ Known(snapshot, x) /\ j.p.time = Here(snapshot, x)
    BY <1>1, <1>2, <1>14, PlanFacts DEF x
  <2>2. n.at = "outdate" => x \in snapshot'.nonSynced
    <3>1. n.at = "outdate" => snapshot' = Noted(snapshot, x, j.s.time)
      BY <1>2 DEF GoingCases, x
    <3> QED
      BY <3>1, NotedAt
  <2> QED
    BY <1>2, <1>3, <1>5, <1>9, <1>14, <2>1, <2>2 DEF JobOK, Covers, Over
<1>15. n.at \in {"push", "pull", "theirs", "resolve", "dropRemote", "drop", "outdate", "unsync"}
  BY <1>2 DEF GoingCases
<1> QED
  BY <1>10, <1>11, <1>12, <1>13, <1>14, <1>15

----------------------------------------
(* The pages: a write of a job *)

\* What one write leaves true of its file, for the records as they were.
LEMMA WritePath ==
    ASSUME TypeOK, Grows, NEW j \in jobs, j.at \notin {"ready", "resolve", "copy"},
           Apply(Effect(j)), UNCHANGED <<over, exposed, gone>>,
           PathOK(j.path), JobOK(j)
    PROVE  /\ Equal(j.path)' /\ Missing(j.path)'
           /\ \A T : SameAt(T, snapshot, j.path) \/ SameAt(T, saved, j.path) => Honest(T, j.path)'
           /\ j.at = "replace" =>
                 \A T : T.files[j.path] = <<j.d.time, clock + 1>> => Honest(T, j.path)'
           /\ j.at \notin {"outdate", "unsync"} => InStep(j.path)'
           /\ j.at \in {"outdate", "unsync"} =>
                 /\ used.configs > 0
                 /\ \A T : j.path \in T.nonSynced => Traced(T, j.path)'
                 /\ \A T : Honest(T, j.path)'
<1> DEFINE x == j.path
           l == L(x)
           r == R(x)
           d == j.d
           e == j.e
           now == clock
<1>1. JobType(j) /\ x # Copy(j) /\ x \in Names
  BY CopyName DEF TypeOK
<1>2. /\ L(x)' = NewL(j, x) /\ R(x)' = NewR(j, x)
  BY EffectAt
<1>3. /\ l \in Versions \cup {Absent} /\ r \in Versions \cup {Absent}
      /\ Absent \notin Versions
  BY Present
<1>4. /\ now \in Nat /\ \A f \in Versions : f.time \in 1 .. now /\ f.body \in DOMAIN over
  BY DEF TypeOK, Versions
<1>5. /\ over' = over /\ exposed' = exposed /\ (Excuse(x) => Excuse(x)')
  BY ExcuseGrows
<1>6. /\ Equal(x) /\ Honest(snapshot, x) /\ Honest(saved, x) /\ Missing(x)
  BY DEF PathOK
<1>7. /\ Known(snapshot, x) => Here(snapshot, x) \in 1 .. now /\ There(snapshot, x) \in 1 .. now
      /\ Known(saved, x) => Here(saved, x) \in 1 .. now /\ There(saved, x) \in 1 .. now
  BY DEF TypeOK, SnapshotType, Known, Here, There
<1>8. /\ d \in Versions \cup {Absent} /\ e \in Versions \cup {Absent}
      /\ j.at = "push" => d # Absent
      /\ j.at \in {"pull", "theirs"} => e # Absent
      /\ j.at = "replace" => d # Absent
  BY <1>1 DEF JobType
<1> USE <1>3, <1>4, <1>5, <1>6, <1>7, <1>8
<1> HIDE DEF l, r, d, e, now
<1>9. CASE j.at = "push"
  <2>1. L(x)' = l /\ R(x)' = d /\ SinceL(x, d)
    BY <1>2, <1>9 DEF NewL, NewR, JobOK, l, r, d
  <2>2. l # d => IF l = Absent THEN Excuse(x)
                 ELSE /\ l.body \in exposed /\ l.time # d.time
                      /\ d.body \in over[l.body] \/ Excuse(x)
                      /\ Known(snapshot, x) => l.time # Here(snapshot, x)
                      /\ Known(saved, x) => l.time # Here(saved, x)
    BY <1>9, <2>1 DEF SinceL, l
  <2>3. Equal(x)' /\ Missing(x)'
    BY <1>9, <2>1, <2>2 DEF Equal, Missing
  <2>4. \A T : SameAt(T, snapshot, x) \/ SameAt(T, saved, x) => Honest(T, x)'
    BY <1>9, <2>1, <2>2 DEF Honest, SameAt, Known, Here
  <2>5. InStep(x)'
    BY <1>9, <2>1, <2>2 DEF InStep, Covers, Over
  <2> QED
    BY <1>9, <2>3, <2>4, <2>5
<1>10. CASE j.at \in {"pull", "theirs"}
  <2>1. L(x)' = e /\ R(x)' = r /\ SinceR(x, e)
    BY <1>2, <1>10 DEF NewL, NewR, JobOK, l, r, e
  <2>2. r # e => IF r = Absent THEN Excuse(x)
                 ELSE /\ r.body \in exposed
                      /\ e.body \in over[r.body] \/ Excuse(x)
                      /\ \/ Silent(r)
                         \/ /\ r.time # e.time
                            /\ Known(snapshot, x) => r.time # There(snapshot, x)
                            /\ Known(saved, x) => r.time # There(saved, x)
    BY <1>10, <2>1 DEF SinceR, r
  <2>3. Equal(x)' /\ Missing(x)'
    BY <1>10, <2>1, <2>2 DEF Equal, Missing
  <2>4. \A T : SameAt(T, snapshot, x) \/ SameAt(T, saved, x) => Honest(T, x)'
    BY <1>10, <2>1, <2>2 DEF Honest, SameAt, Known, There
  <2>5. InStep(x)'
    BY <1>10, <2>1, <2>2 DEF InStep, Covers, Over
  <2> QED
    BY <1>10, <2>3, <2>4, <2>5
<1>11. CASE j.at = "replace"
  <2> DEFINE f == [body |-> d.body, time |-> now + 1]
  <2>1. L(x)' = l /\ R(x)' = f /\ SinceL(x, d)
    BY <1>1, <1>2, <1>11 DEF NewL, NewR, JobOK, l, r, d, now
  <2>2. l # d => IF l = Absent THEN Excuse(x)
                 ELSE /\ l.body \in exposed /\ l.time # d.time
                      /\ d.body \in over[l.body] \/ Excuse(x)
    BY <1>11, <2>1 DEF SinceL, l
  <2>3. f.body = d.body /\ f.time = now + 1 /\ f # Absent
    BY <1>11 DEF Absent
  <2> HIDE DEF f
  <2>4. Equal(x)' /\ Missing(x)'
    BY <1>11, <2>1, <2>3 DEF Equal, Missing
  <2>5. \A T : SameAt(T, snapshot, x) \/ SameAt(T, saved, x) => Honest(T, x)'
    BY <1>11, <2>1, <2>3 DEF Honest, SameAt, Known, There
  <2>6. \A T : T.files[x] = <<d.time, now + 1>> => Honest(T, x)'
    BY <1>11, <2>1, <2>2, <2>3 DEF Honest
  <2>7. InStep(x)'
    BY <1>11, <2>1, <2>2, <2>3 DEF InStep, Covers, Over
  <2> QED
    BY <1>11, <2>4, <2>5, <2>6, <2>7 DEF d, now
<1>12. CASE j.at \in {"drop", "dropRemote"}
  <2>1. \/ L(x)' = Absent \/ R(x)' = Absent
    BY <1>2, <1>12 DEF NewL, NewR
  <2>2. Excuse(x)'
    BY <1>12 DEF JobOK
  <2>3. Equal(x)' /\ \A T : Honest(T, x)'
    BY <2>1 DEF Equal, Honest
  <2> QED
    BY <1>12, <2>2, <2>3, ExcuseInStep
<1>13. CASE j.at \in {"outdate", "unsync"}
  <2>1. L(x)' = Absent /\ R(x)' = r
    BY <1>2, <1>13 DEF NewL, NewR, r
  <2>2. Equal(x)' /\ Missing(x)' /\ \A T : Honest(T, x)'
    BY <2>1 DEF Equal, Honest, Missing, r
  <2>3. used.configs > 0 /\ \A T : x \in T.nonSynced => Traced(T, x)'
    BY <1>13, <2>1 DEF Traced, JobOK
  <2> QED
    BY <1>13, <2>2, <2>3
<1>14. j.at \in Ats
  BY <1>1 DEF JobType
<1> QED
  BY <1>9, <1>10, <1>11, <1>12, <1>13, <1>14 DEF Ats

\* A pair of equal times is an honest record of any two files.
LEMMA EqualTimes ==
    ASSUME NEW x, Equal(x)', NEW T, NEW t, T.files[x] = <<t, t>>
    PROVE  Honest(T, x)'
BY DEF Equal, Honest

\* A write that is recorded.
LEMMA WorkPath ==
    ASSUME TypeOK, Grows, NEW j \in jobs, j.at # "ready", Apply(Effect(j)), WorkCases(j),
           UNCHANGED <<over, exposed, gone, used>>, PathOK(j.path), JobOK(j)
    PROVE  PathOK(j.path)'
<1> DEFINE x == j.path
<1>1. PICK T : T = snapshot'
  OBVIOUS
<1>2. PICK V : V = saved'
  OBVIOUS
<1>3. /\ SnapshotType(snapshot, clock) /\ JobType(j) /\ x # Copy(j)
      /\ L(x)' = NewL(j, x) /\ R(x)' = NewR(j, x)
  BY CopyName, EffectAt DEF TypeOK
<1>4. CASE j.at \in {"resolve", "copy"}
  <2>1. L(x)' = L(x) /\ R(x)' = R(x) /\ snapshot' = snapshot /\ saved' = saved
    BY <1>3, <1>4 DEF NewL, NewR, WorkCases, GoesOn
  <2> QED
    BY <2>1, PathStill, SameAtItself
<1>5. CASE j.at \notin {"resolve", "copy"}
  <2>1. /\ Equal(x)' /\ Missing(x)'
        /\ \A S : SameAt(S, snapshot, x) \/ SameAt(S, saved, x) => Honest(S, x)'
        /\ j.at = "replace" => \A S : S.files[x] = <<j.d.time, clock + 1>> => Honest(S, x)'
        /\ j.at \notin {"outdate", "unsync"} => InStep(x)'
        /\ j.at \in {"outdate", "unsync"} =>
              /\ used.configs > 0
              /\ \A S : x \in S.nonSynced => Traced(S, x)'
              /\ \A S : Honest(S, x)'
    BY <1>5, WritePath
  <2>2. V \in {saved, snapshot, T}
    BY <1>1, <1>2, <1>5 DEF WorkCases, Outcome
  <2> HIDE DEF x
  <2>3. Honest(T, x)'
    <3>1. CASE j.at = "push"
      <4>1. T = Recorded(snapshot, x, j.d.time, j.d.time)
        BY <1>1, <3>1 DEF WorkCases, Outcome, x
      <4> QED
        BY <1>3, <2>1, <4>1, Updates, EqualTimes
    <3>2. CASE j.at = "pull"
      <4>1. T = Recorded(snapshot, x, j.e.time, j.e.time)
        BY <1>1, <3>2 DEF WorkCases, Outcome, x
      <4> QED
        BY <1>3, <2>1, <4>1, Updates, EqualTimes
    <3>3. CASE j.at = "theirs"
      <4>1. T = Matched(snapshot, x, j.e.time, j.e.time)
        BY <1>1, <3>3 DEF WorkCases, Outcome, x
      <4> QED
        BY <1>3, <2>1, <4>1, Updates, EqualTimes
    <3>4. CASE j.at = "dropRemote"
      <4>1. ~Known(T, x)
        BY <1>1, <3>4, ForgottenAt DEF WorkCases, Outcome, x
      <4> QED
        BY <4>1 DEF Honest
    <3>5. CASE j.at = "replace"
      <4> DEFINE S == Matched(snapshot, Copy(j), j.s.time, j.p.time)
      <4>1. T = Matched(S, x, j.d.time, clock + 1)
        BY <1>1, <3>5 DEF WorkCases, Outcome, x
      <4>2. SnapshotType(S, clock)
        <5>1. /\ j.s.time \in 1 .. clock /\ j.p.time \in 1 .. clock /\ Copy(j) \in Names
              /\ clock \in Nat
          BY <1>3, <3>5, CopyName DEF JobType, TypeOK
        <5> QED
          BY <1>3, <5>1, SnapshotUpdates
      <4> HIDE DEF S
      <4>3. T.files[x] = <<j.d.time, clock + 1>>
        BY <4>1, <4>2, Updates
      <4> QED
        BY <2>1, <3>5, <4>3
    <3>6. CASE j.at \in {"unsync", "outdate"}
      BY <2>1, <3>6
    <3>7. CASE j.at = "drop"
      BY <1>1, <2>1, <3>7, SameAtItself DEF WorkCases, Outcome
    <3> QED
      BY <1>3, <1>5, <3>1, <3>2, <3>3, <3>4, <3>5, <3>6, <3>7 DEF WorkCases
  <2>4. Traced(T, x)'
    <3>1. CASE j.at = "unsync"
      <4>1. x \in T.nonSynced
        BY <1>1, <1>3, <3>1, MarkedAt DEF WorkCases, Outcome, x
      <4> QED
        BY <2>1, <3>1, <4>1
    <3>2. CASE j.at = "outdate"
      <4>1. T = snapshot /\ (x \in snapshot.nonSynced \/ Excuse(x))
        BY <1>1, <3>2 DEF WorkCases, Outcome, JobOK, x
      <4> QED
        BY <2>1, <3>2, <4>1, ExcuseGrows, ExcuseInStep, InStepTraced
    <3> QED
      BY <2>1, <3>1, <3>2, InStepTraced
  <2>5. Honest(V, x)' /\ (used'.configs = 0 => Traced(V, x)')
    <3>1. Honest(V, x)'
      BY <2>1, <2>2, <2>3, SameAtItself
    <3>2. CASE j.at \notin {"outdate", "unsync"}
      BY <2>1, <3>1, <3>2, InStepTraced
    <3>3. CASE j.at \in {"outdate", "unsync"}
      <4>1. used'.configs # 0
        BY <2>1, <3>3 DEF Grows
      <4> QED
        BY <3>1, <4>1
    <3> QED
      BY <3>2, <3>3
  <2> QED
    BY <1>1, <1>2, <2>1, <2>3, <2>4, <2>5, PathJoin DEF x
<1> QED
  BY <1>4, <1>5

\* A write that is not recorded: a fault.
LEMMA FaultPath ==
    ASSUME TypeOK, Grows, NEW j \in jobs, j.at # "ready", Apply(Effect(j)), FaultStep,
           used'.faults > 0, PathOK(j.path), JobOK(j),
           snapshot' \in {snapshot, saved}, saved' \in {snapshot, saved}
    PROVE  PathOK(j.path)'
<1> DEFINE x == j.path
<1>1. PICK T : T = snapshot'
  OBVIOUS
<1>2. PICK V : V = saved'
  OBVIOUS
<1>3. /\ x # Copy(j) /\ L(x)' = NewL(j, x) /\ R(x)' = NewR(j, x)
      /\ UNCHANGED <<over, exposed, gone>> /\ used'.configs = used.configs
      /\ used.configs \in Nat
  BY CopyName, EffectAt DEF FaultStep, TypeOK, Usage
<1>4. CASE j.at \in {"resolve", "copy"}
  <2>1. L(x)' = L(x) /\ R(x)' = R(x)
    BY <1>3, <1>4 DEF NewL, NewR
  <2> QED
    BY <2>1, PathStill, SameAtItself
<1>5. CASE j.at \notin {"resolve", "copy"}
  <2>1. /\ Equal(x)' /\ Missing(x)'
        /\ \A S : SameAt(S, snapshot, x) \/ SameAt(S, saved, x) => Honest(S, x)'
        /\ j.at \notin {"outdate", "unsync"} => InStep(x)'
        /\ j.at \in {"outdate", "unsync"} => used.configs > 0
    BY <1>3, <1>5, WritePath
  <2>2. Honest(T, x)' /\ Honest(V, x)'
    BY <1>1, <1>2, <2>1, SameAtItself
  <2>3. InStep(x)'
    <3>1. CASE used.configs > 0
      <4>1. Excuse(x)'
        BY <1>3, <3>1 DEF Excuse, Both
      <4> QED
        BY <4>1, ExcuseInStep
    <3> QED
      BY <2>1, <3>1
  <2> QED
    BY <1>1, <1>2, <2>1, <2>2, <2>3, InStepTraced, PathJoin
<1> QED
  BY <1>4, <1>5

----------------------------------------
(* The pages: a step of a job, all of them *)

\* A job's step leaves the other pages alone, and the jobs at them.
LEMMA OthersStill ==
    ASSUME TypeOK, OneJob, Grows, Pagewise, NEW j \in jobs,
           \A y \in Paths : y # j.path => L(y)' = L(y) /\ R(y)' = R(y),
           \A y \in Paths : y # j.path => SameAt(snapshot', snapshot, y),
           saved' \in {saved, snapshot, snapshot'},
           \A k \in jobs' :
              \/ \E i \in jobs \ {j} : Heir(k, i)
              \/ k.path = j.path /\ (j.path \in Paths \cap Alone => JobOK(k)'),
           j.path \in Paths \cap Alone => PathOK(j.path)'
    PROVE  Pagewise'
<1>1. ASSUME NEW y \in Paths, y # j.path
      PROVE  SameAt(saved', saved, y) \/ SameAt(saved', snapshot, y)
  BY <1>1, SameAtItself
<1>2. ASSUME NEW x \in Paths \cap Alone PROVE PathOK(x)'
  <2>1. CASE x = j.path
    BY <2>1
  <2>2. CASE x # j.path
    <3>1. /\ PathOK(x) /\ L(x)' = L(x) /\ R(x)' = R(x) /\ SameAt(snapshot', snapshot, x)
          /\ SameAt(saved', saved, x) \/ SameAt(saved', snapshot, x)
      BY <1>1, <1>2, <2>2 DEF Pagewise
    <3> QED
      BY <3>1, PathStill
  <2> QED
    BY <2>1, <2>2
<1>3. ASSUME NEW k \in jobs', k.path \in Paths \cap Alone PROVE JobOK(k)'
  <2>1. CASE k.path = j.path /\ (j.path \in Paths \cap Alone => JobOK(k)')
    BY <1>3, <2>1
  <2>2. ASSUME NEW i \in jobs \ {j}, Heir(k, i) PROVE JobOK(k)'
    <3>1. JobType(i) /\ i \in jobs
      BY <2>2 DEF TypeOK
    <3>2. k.path = i.path
      BY <2>2, <3>1, HeirFields
    <3>3. i.path \in Paths /\ i.path # j.path /\ JobOK(i)
      BY <1>3, <2>2, <3>1, <3>2 DEF Pagewise, OneJob
    <3>4. /\ L(i.path)' = L(i.path) /\ R(i.path)' = R(i.path)
          /\ SameAt(snapshot', snapshot, i.path)
          /\ SameAt(saved', saved, i.path) \/ SameAt(saved', snapshot, i.path)
      BY <1>1, <3>1, <3>3
    <3> QED
      BY <2>2, <3>1, <3>3, <3>4, JobStill
  <2> QED
    BY <1>3, <2>1, <2>2
<1> QED
  BY <1>2, <1>3 DEF Pagewise, Grows

\* A decision leaves every page sound.
LEMMA DecidePages ==
    ASSUME TypeOK, OneJob, Grows, Pagewise, NEW j \in jobs, j.at = "ready", DecideCases(j),
           UNCHANGED <<local, remote, clock, over, exposed, gone, used>>
    PROVE  Pagewise'
<1>1. PICK T : T = snapshot'
  OBVIOUS
<1>2. \A y : y # j.path => SameAt(T, snapshot, y)
  BY <1>1, DecidedCases
<1>3. \A y : L(y)' = L(y) /\ R(y)' = R(y)
  BY LocalSame, RemoteSame
<1>4. saved' \in {saved, snapshot, snapshot'}
  BY DEF DecideCases, GoingCases, GoesOn, Outcome
<1>5. j.path \in Paths \cap Alone => PathOK(j.path)'
  BY <1>4, DecidePath DEF Pagewise
<1>6. CASE GoingCases(j)
  <2>1. PICK n : n = Planned(j)
    OBVIOUS
  <2>2. j.path \in Paths \cap Alone => JobOK(n)'
    BY <1>6, <2>1, PlannedOK DEF Pagewise
  <2>3. GoesOn(j, n)
    BY <1>6, <2>1 DEF GoingCases
  <2>4. \A k \in jobs' : k = n \/ k \in jobs \ {j}
    BY <2>3, GoesOnHeirs
  <2>5. n.path = j.path
    BY <2>3 DEF GoesOn
  <2>6. \A k \in jobs' : \/ \E i \in jobs \ {j} : Heir(k, i)
                         \/ k.path = j.path /\ (j.path \in Paths \cap Alone => JobOK(k)')
    BY <2>2, <2>4, <2>5 DEF Heir
  <2> QED
    BY <1>1, <1>2, <1>3, <1>4, <1>5, <2>6, OthersStill
<1>7. CASE ~GoingCases(j)
  <2>1. Ended(j)
    BY <1>7 DEF DecideCases, Outcome
  <2>2. \A k \in jobs' : \E i \in jobs \ {j} : Heir(k, i)
    BY <2>1, EndedHeirs
  <2> QED
    BY <1>1, <1>2, <1>3, <1>4, <1>5, <2>2, OthersStill
<1> QED
  BY <1>6, <1>7

\* A job that wrote a copy of the server's version knows of its files what it knew.
LEMMA CopiedOK ==
    ASSUME TypeOK, Grows, NEW j \in jobs, j.at \in {"resolve", "copy"}, Apply(Effect(j)),
           UNCHANGED <<over, exposed, gone, used, snapshot, saved>>, JobOK(j),
           NEW n, n = Copied(j)
    PROVE  JobOK(n)'
<1> DEFINE x == j.path
<1>1. x # Copy(j) /\ L(x)' = L(x) /\ R(x)' = R(x)
  BY CopyName, EffectAt DEF NewL, NewR
<1>2. n.path = x /\ n.d = j.d /\ n.e = j.e /\ n.at \in {"copy", "replace"}
  BY CopiedFields
<1>3. SinceL(x, j.d) /\ SinceR(x, j.e)
  BY DEF JobOK
<1> HIDE DEF x
<1>4. SinceL(x, j.d)'
  BY <1>1, <1>3, ExcuseGrows DEF SinceL, Known, Here
<1>5. SinceR(x, j.e)'
  BY <1>1, <1>3, ExcuseGrows DEF SinceR, Known, There, Silent
<1> QED
  BY <1>2, <1>4, <1>5 DEF JobOK

\* A recorded write changes no record but its own and its copy's.
LEMMA WorkElsewhere ==
    ASSUME TypeOK, NEW j \in jobs, j.at # "ready", WorkCases(j), NEW T, T = snapshot'
    PROVE  \A y : y # j.path /\ (y # Copy(j) \/ j.at # "replace") => SameAt(T, snapshot, y)
<1>1. SnapshotType(snapshot, clock) /\ JobType(j) /\ clock \in Nat
  BY DEF TypeOK
<1>2. CASE j.at \in {"push", "pull", "theirs", "dropRemote", "unsync"}
  <2>1. \/ T = Recorded(snapshot, j.path, j.d.time, j.d.time)
        \/ T = Recorded(snapshot, j.path, j.e.time, j.e.time)
        \/ T = Matched(snapshot, j.path, j.e.time, j.e.time)
        \/ T = Forgotten(snapshot, j.path)
        \/ T = Marked(snapshot, j.path)
    BY <1>2 DEF WorkCases, Outcome
  <2> QED
    BY <1>1, <2>1, Updates, ForgottenAt, MarkedAt
<1>3. CASE j.at = "replace"
  <2> DEFINE S == Matched(snapshot, Copy(j), j.s.time, j.p.time)
  <2>1. T = Matched(S, j.path, j.d.time, clock + 1)
    BY <1>3 DEF WorkCases, Outcome
  <2>2. SnapshotType(S, clock)
    <3>1. /\ j.s.time \in 1 .. clock /\ j.p.time \in 1 .. clock /\ Copy(j) \in Names
      BY <1>1, <1>3, CopyName DEF JobType
    <3> QED
      BY <1>1, <3>1, SnapshotUpdates
  <2>3. \A y : y # Copy(j) => SameAt(S, snapshot, y)
    BY <1>1, Updates
  <2> HIDE DEF S
  <2>4. \A y : y # j.path => SameAt(T, S, y)
    BY <2>1, <2>2, Updates
  <2> QED
    BY <1>3, <2>3, <2>4 DEF SameAt
<1>4. CASE j.at \in {"drop", "outdate", "resolve", "copy"}
  <2>1. T = snapshot
    BY <1>4 DEF WorkCases, Outcome
  <2> QED
    BY <2>1, SameAtItself
<1> QED
  BY <1>1, <1>2, <1>3, <1>4 DEF JobType, Ats

\* A recorded write leaves every page sound.
LEMMA WorkPages ==
    ASSUME TypeOK, OneJob, Grows, Pagewise, NEW j \in jobs, j.at # "ready",
           Apply(Effect(j)), WorkCases(j), UNCHANGED <<over, exposed, gone, used>>
    PROVE  Pagewise'
<1>1. PICK T : T = snapshot'
  OBVIOUS
<1>2. Copy(j) \notin Paths
  BY CopyName
<1>3. \A y \in Paths : y # j.path => SameAt(T, snapshot, y)
  BY <1>1, <1>2, WorkElsewhere
<1>4. \A y \in Paths : y # j.path => L(y)' = L(y) /\ R(y)' = R(y)
  BY <1>2, EffectAt DEF NewL, NewR
<1>5. saved' \in {saved, snapshot, snapshot'}
  BY DEF WorkCases, GoesOn, Outcome
<1>6. j.path \in Paths \cap Alone => PathOK(j.path)'
  BY WorkPath DEF Pagewise
<1>7. CASE j.at \in {"resolve", "copy"}
  <2>1. PICK n : n = Copied(j)
    OBVIOUS
  <2>2. GoesOn(j, n) /\ snapshot' = snapshot /\ saved' = saved
    BY <1>7, <2>1 DEF WorkCases, GoesOn
  <2>3. j.path \in Paths \cap Alone => JobOK(n)'
    BY <1>7, <2>1, <2>2, CopiedOK DEF Pagewise
  <2>4. \A k \in jobs' : k = n \/ k \in jobs \ {j}
    BY <2>2, GoesOnHeirs
  <2>5. n.path = j.path
    BY <2>2 DEF GoesOn
  <2>6. \A k \in jobs' : \/ \E i \in jobs \ {j} : Heir(k, i)
                         \/ k.path = j.path /\ (j.path \in Paths \cap Alone => JobOK(k)')
    BY <2>3, <2>4, <2>5 DEF Heir
  <2> QED
    BY <1>1, <1>3, <1>4, <1>5, <1>6, <2>6, OthersStill
<1>8. CASE j.at \notin {"resolve", "copy"}
  <2>1. Ended(j)
    BY <1>8 DEF WorkCases, Outcome
  <2>2. \A k \in jobs' : \E i \in jobs \ {j} : Heir(k, i)
    BY <2>1, EndedHeirs
  <2> QED
    BY <1>1, <1>3, <1>4, <1>5, <1>6, <2>2, OthersStill
<1> QED
  BY <1>7, <1>8

\* A job that ends without having done anything.
LEMMA NothingPages ==
    ASSUME TypeOK, OneJob, Grows, Pagewise, NEW j \in jobs, Outcome(j, snapshot),
           UNCHANGED <<local, remote>>
    PROVE  Pagewise'
<1>1. \A y : L(y)' = L(y) /\ R(y)' = R(y)
  BY LocalSame, RemoteSame
<1>2. snapshot' = snapshot /\ saved' \in {saved, snapshot} /\ Ended(j)
  BY DEF Outcome
<1>3. \A y : SameAt(snapshot', snapshot, y) /\ (SameAt(saved', saved, y) \/ SameAt(saved', snapshot, y))
  BY <1>2, SameAtItself
<1>4. \A k \in jobs' : \E i \in jobs \ {j} : Heir(k, i)
  BY <1>2, EndedHeirs
<1>5. j.path \in Paths \cap Alone => PathOK(j.path)'
  BY <1>1, <1>3, PathStill DEF Pagewise
<1> QED
  BY <1>1, <1>2, <1>3, <1>4, <1>5, OthersStill

\* A failed request leaves every page sound.
LEMMA RequestPages ==
    ASSUME TypeOK, OneJob, Pagewise, NEW j \in jobs, RequestFails(j)
    PROVE  Pagewise'
<1>1. FaultStep /\ Outcome(j, snapshot) /\ Grows /\ used'.faults > 0
  BY RequestSplits, RequestType
<1>2. CASE UNCHANGED <<local, remote, clock>>
  BY <1>1, <1>2, NothingPages
<1>3. CASE Apply(Effect(j)) /\ j.at \in ToServer
  <2>1. j.at # "ready" /\ Copy(j) \notin Paths
    BY <1>3, CopyName DEF ToServer
  <2>2. snapshot' = snapshot /\ saved' \in {saved, snapshot} /\ Ended(j)
    BY <1>1 DEF Outcome
  <2>3. \A y \in Paths : y # j.path => L(y)' = L(y) /\ R(y)' = R(y)
    BY <1>3, <2>1, EffectAt DEF NewL, NewR
  <2>4. \A y : SameAt(snapshot', snapshot, y)
    BY <2>2, SameAtItself
  <2>5. j.path \in Paths \cap Alone => PathOK(j.path)'
    BY <1>1, <1>3, <2>1, <2>2, FaultPath DEF Pagewise
  <2>6. \A k \in jobs' : \E i \in jobs \ {j} : Heir(k, i)
    BY <2>2, EndedHeirs
  <2> QED
    BY <1>1, <2>4, <2>5, <2>6, <2>2, <2>3, OthersStill
<1> QED
  BY <1>2, <1>3, RequestSplits

\* A restart leaves every page sound.
LEMMA RestartPages ==
    ASSUME TypeOK, OneJob, Pagewise, Restart
    PROVE  Pagewise'
<1>1. /\ FaultStep /\ Grows /\ used'.faults > 0
      /\ snapshot' = saved /\ saved' = saved /\ jobs' = {}
  BY RestartSplits, RestartType
<1>2. \A y : SameAt(snapshot', saved, y) /\ SameAt(saved', saved, y)
  BY <1>1, SameAtItself
<1>3. ASSUME NEW x \in Paths \cap Alone, L(x)' = L(x), R(x)' = R(x)
      PROVE  PathOK(x)'
  BY <1>1, <1>2, <1>3, PathStill DEF Pagewise
<1>4. CASE UNCHANGED <<local, remote, clock>>
  BY <1>1, <1>3, <1>4, LocalSame, RemoteSame DEF Pagewise, Grows
<1>5. ASSUME NEW j \in jobs, j.at # "ready", Apply(Effect(j)) PROVE Pagewise'
  <2>1. Copy(j) \notin Paths
    BY CopyName
  <2>2. \A y \in Paths : y # j.path => L(y)' = L(y) /\ R(y)' = R(y)
    BY <1>5, <2>1, EffectAt DEF NewL, NewR
  <2>3. j.path \in Paths \cap Alone => PathOK(j.path)'
    BY <1>1, <1>5, FaultPath DEF Pagewise
  <2> QED
    BY <1>1, <1>3, <2>2, <2>3 DEF Pagewise, Grows
<1> QED
  BY <1>4, <1>5, RestartSplits

----------------------------------------
(* The pages: what users do *)

\* What a user does to the two files of x: the one he wrote knows what he had before him,
\* and a job at x has older metadata.
UserChange(x) ==
    /\ \A b \in DOMAIN over : over'[b] = over[b]
    /\ exposed \subseteq exposed' /\ (Excuse(x) => Excuse(x)')
    /\ \/ /\ Excuse(x)'
          /\ \/ L(x)' = Absent /\ R(x)' = R(x)
             \/ R(x)' = Absent /\ L(x)' = L(x)
       \/ /\ L(x)' = NewFile /\ R(x)' = R(x) /\ NewFile # Absent
          /\ \A b : L(x) # Absent /\ b \in Over(L(x).body) => b \in over'[clock + 1]
          /\ NoJobAt(x) \/ clock + 1 \in exposed'
       \/ /\ R(x)' = NewFile /\ L(x)' = L(x) /\ NewFile # Absent
          /\ \A b : R(x) # Absent /\ b \in Over(R(x).body) => b \in over'[clock + 1]
          /\ NoJobAt(x) \/ clock + 1 \in exposed'
       \/ /\ R(x)' = [body |-> clock + 1, time |-> R(x).time] /\ R(x)' # Absent
          /\ L(x)' = L(x) /\ R(x) # Absent /\ clock + 1 > R(x).time
          /\ \A b : b \in Over(R(x).body) => b \in over'[clock + 1]
          /\ clock + 1 \in exposed'

\* Every action of a user is such a change.
LEMMA UserChanges ==
    ASSUME TypeOK, Grows, NEW x \in Names, UserCases(x)
    PROVE  UserChange(x)
<1>1. /\ \A b \in DOMAIN over : over'[b] = over[b]
      /\ exposed \subseteq exposed' /\ (Excuse(x) => Excuse(x)') /\ clock \in Nat \ {0}
  BY FilesGrow DEF TypeOK
<1>2. L(x) \in Versions \cup {Absent} /\ R(x) \in Versions \cup {Absent}
  BY Present
<1>3. NewFile # Absent
  <2>1. clock + 1 # 0
    BY <1>1
  <2> QED
    BY <2>1 DEF NewFile, Absent
<1>4. ASSUME NEW old \in Versions \cup {Absent}, NEW silently, Wrote(x, old, silently)
      PROVE  /\ \A b : old # Absent /\ b \in Over(old.body) => b \in over'[clock + 1]
             /\ silently \/ ~NoJobAt(x) => clock + 1 \in exposed'
  BY <1>4, WroteType DEF Wrote
<1>5. CASE Wrote(x, L(x), FALSE) /\ OneSide(x, "local") /\ L(x)' = NewFile
  <2>1. PICK old \in Versions \cup {Absent} : old = L(x)
    BY <1>2
  <2>2. /\ \A b : old # Absent /\ b \in Over(old.body) => b \in over'[clock + 1]
        /\ NoJobAt(x) \/ clock + 1 \in exposed'
    BY <1>4, <1>5, <2>1
  <2>3. R(x)' = R(x)
    BY <1>5, OtherPaths
  <2> QED
    BY <1>1, <1>3, <1>5, <2>1, <2>2, <2>3 DEF UserChange
<1>6. CASE Wrote(x, R(x), FALSE) /\ OneSide(x, "remote") /\ R(x)' = NewFile
  <2>1. PICK old \in Versions \cup {Absent} : old = R(x)
    BY <1>2
  <2>2. /\ \A b : old # Absent /\ b \in Over(old.body) => b \in over'[clock + 1]
        /\ NoJobAt(x) \/ clock + 1 \in exposed'
    BY <1>4, <1>6, <2>1
  <2>3. L(x)' = L(x)
    BY <1>6, OtherPaths
  <2> QED
    BY <1>1, <1>3, <1>6, <2>1, <2>2, <2>3 DEF UserChange
<1>7. CASE /\ R(x) # Absent /\ Wrote(x, R(x), TRUE) /\ OneSide(x, "remote")
           /\ R(x)' = [body |-> clock + 1, time |-> R(x).time]
  <2>1. PICK old \in Versions \cup {Absent} : old = R(x)
    BY <1>2
  <2>2. /\ \A b : old # Absent /\ b \in Over(old.body) => b \in over'[clock + 1]
        /\ clock + 1 \in exposed'
    BY <1>4, <1>7, <2>1
  <2>3. L(x)' = L(x)
    BY <1>7, OtherPaths
  <2>4. R(x).time \in Nat /\ clock + 1 > R(x).time /\ clock + 1 # 0
    BY <1>1, <1>2, <1>7 DEF Versions
  <2>5. R(x)' # Absent
    BY <1>7, <2>4 DEF Absent
  <2> QED
    BY <1>1, <1>7, <2>3, <2>4, <2>5, <2>1, <2>2 DEF UserChange
<1>8. CASE /\ Erased(x)
           /\ \/ L(x)' = Absent /\ OneSide(x, "local")
              \/ R(x)' = Absent /\ OneSide(x, "remote")
  <2>1. Excuse(x)'
    BY <1>8 DEF Erased, Excuse
  <2> QED
    BY <1>1, <1>8, <2>1, OtherPaths DEF UserChange
<1> QED
  BY <1>5, <1>6, <1>7, <1>8 DEF UserCases

\* The records a user leaves: the same times, and nothing unmarked but what was deleted.
UserRecord(S, T, x) ==
    /\ Known(T, x) <=> Known(S, x)
    /\ Known(S, x) => /\ T.files[x] = S.files[x]
                      /\ Here(S, x) < clock + 1 /\ There(S, x) < clock + 1
                      /\ Here(S, x) \in Nat /\ There(S, x) \in Nat
    /\ x \in S.nonSynced => x \in T.nonSynced \/ Excuse(x)'

\* And leaves such records.
LEMMA UserRecords ==
    ASSUME TypeOK, NEW x, UserCases(x), NEW T, T = snapshot', NEW V, V = saved'
    PROVE  UserRecord(snapshot, T, x) /\ UserRecord(saved, V, x)
<1>1. /\ T.files = snapshot.files /\ V = saved /\ clock \in Nat
      /\ x \in snapshot.nonSynced => x \in T.nonSynced \/ Excuse(x)'
  BY DEF UserCases, TypeOK, Excuse
<1>2. ASSUME NEW S, SnapshotType(S, clock), Known(S, x)
      PROVE  /\ Here(S, x) < clock + 1 /\ There(S, x) < clock + 1
             /\ Here(S, x) \in Nat /\ There(S, x) \in Nat
  <2>1. Here(S, x) \in 1 .. clock /\ There(S, x) \in 1 .. clock
    BY <1>2 DEF SnapshotType, Known, Here, There
  <2> QED
    BY <1>1, <2>1
<1> QED
  BY <1>1, <1>2 DEF UserRecord, Known, TypeOK

\* A page stays traced under a user's hands.
LEMMA UserTraced ==
    ASSUME TypeOK, NEW x, UserChange(x), NEW S, NEW T, UserRecord(S, T, x), Traced(S, x)
    PROVE  Traced(T, x)'
<1>1. CASE Excuse(x)'
  BY <1>1, ExcuseInStep, InStepTraced
<1>2. CASE ~Excuse(x)' /\ Known(T, x)
  <2>1. /\ Known(S, x) /\ Here(T, x) = Here(S, x) /\ There(T, x) = There(S, x)
        /\ Here(S, x) < clock + 1 /\ There(S, x) < clock + 1
        /\ Here(S, x) \in Nat /\ There(S, x) \in Nat /\ clock \in Nat
        /\ x \in S.nonSynced => x \in T.nonSynced
    BY <1>2 DEF UserRecord, Here, There, TypeOK
  <2>2. /\ L(x) # Absent => over'[L(x).body] = over[L(x).body]
        /\ R(x) # Absent => over'[R(x).body] = over[R(x).body]
    BY Present DEF UserChange, Versions
  <2>3. /\ L(x)' = Absent /\ x \notin T.nonSynced => Excuse(x)'
    BY <1>2, <2>1 DEF UserChange, Traced
  <2>4. L(x)' # Absent /\ L(x)'.time = Here(T, x) =>
              \/ R(x)' # Absent /\ L(x)'.body \in over'[R(x)'.body] \cup {R(x)'.body}
              \/ L(x)'.body \in exposed'
    BY <1>2, <2>1, <2>2 DEF UserChange, Traced, Covers, Over, NewFile
  <2>5. R(x)' # Absent /\ R(x)'.time = There(T, x) =>
              \/ L(x)' # Absent /\ R(x)'.body \in over'[L(x)'.body] \cup {L(x)'.body}
              \/ R(x)'.body \in exposed' \/ x \in T.nonSynced
    BY <1>2, <2>1, <2>2 DEF UserChange, Traced, Covers, Over, NewFile
  <2> QED
    BY <2>3, <2>4, <2>5 DEF Traced, Covers, Over
<1>3. CASE ~Known(T, x)
  BY <1>3 DEF Traced, Known
<1> QED
  BY <1>1, <1>2, <1>3

\* A record stays honest under a user's hands.
LEMMA UserHonest ==
    ASSUME TypeOK, NEW x, UserChange(x), NEW S, NEW T, UserRecord(S, T, x), Honest(S, x)
    PROVE  Honest(T, x)'
<1>1. CASE Known(T, x) /\ L(x)' # Absent /\ R(x)' # Absent /\ T.files[x] = <<L(x)'.time, R(x)'.time>>
  <2>1. /\ Known(S, x) /\ T.files[x] = S.files[x]
        /\ Here(S, x) < clock + 1 /\ There(S, x) < clock + 1
        /\ Here(S, x) = L(x)'.time /\ There(S, x) = R(x)'.time
        /\ Here(S, x) \in Nat /\ There(S, x) \in Nat /\ clock \in Nat
    BY <1>1 DEF UserRecord, Here, There, TypeOK
  <2>2. CASE L(x)' = L(x) /\ R(x)' = R(x)
    BY <1>1, <2>1, <2>2 DEF Honest, Known
  <2>3. CASE R(x)' = [body |-> clock + 1, time |-> R(x).time] /\ clock + 1 > R(x).time
    BY <2>3 DEF Honest, Silent
  <2> QED
    BY <1>1, <2>1, <2>2, <2>3 DEF UserChange, NewFile
<1> QED
  BY <1>1 DEF Honest, Known

\* A page stays sound under a user's hands.
LEMMA UserPath ==
    ASSUME TypeOK, Grows, NEW x \in Names, UserCases(x), PathOK(x)
    PROVE  PathOK(x)'
<1>1. PICK T : T = snapshot'
  OBVIOUS
<1>2. PICK V : V = saved'
  OBVIOUS
<1>3. UserChange(x) /\ UserRecord(snapshot, T, x) /\ UserRecord(saved, V, x)
  BY <1>1, <1>2, UserChanges, UserRecords
<1>4. Honest(T, x)' /\ Honest(V, x)' /\ Traced(T, x)'
  BY <1>3, UserHonest, UserTraced DEF PathOK
<1>5. used'.configs = 0 => Traced(V, x)'
  <2>1. used'.configs = used.configs
    BY DEF UserCases
  <2> QED
    BY <1>3, <2>1, UserTraced DEF PathOK
<1>6. /\ L(x) # Absent => L(x).time \in Nat /\ L(x).time < clock + 1
      /\ R(x) # Absent => R(x).time \in Nat /\ R(x).time < clock + 1
      /\ clock \in Nat
  BY Present DEF Versions, TypeOK
<1>7. Equal(x)'
  BY <1>3, <1>6 DEF UserChange, PathOK, Equal, Silent, NewFile
<1>8. Missing(x)'
  BY <1>3 DEF UserChange, PathOK, Missing
<1> QED
  BY <1>1, <1>2, <1>4, <1>5, <1>7, <1>8, PathJoin

\* A job at x had older metadata: what was written is noted as written meanwhile.
LEMMA UserJob ==
    ASSUME TypeOK, Grows, NEW j \in jobs, UserCases(j.path), JobOK(j)
    PROVE  JobOK(j)'
<1> DEFINE x == j.path
<1>1. PICK T : T = snapshot'
  OBVIOUS
<1>2. PICK V : V = saved'
  OBVIOUS
<1>3. x \in Names /\ JobType(j) /\ ~NoJobAt(x)
  BY CopyName DEF TypeOK, NoJobAt
<1>4. UserChange(x) /\ UserRecord(snapshot, T, x) /\ UserRecord(saved, V, x)
  BY <1>1, <1>2, <1>3, UserChanges, UserRecords
<1>5. /\ j.p \in [body : Nat, time : Nat] /\ j.s \in [body : Nat, time : Nat]
      /\ j.d \in Versions \cup {Absent} /\ j.e \in Versions \cup {Absent}
      /\ j.at = "ready" => j.p \in Versions \cup {Absent} /\ j.s \in Versions \cup {Absent}
      /\ j.at = "push" => j.d # Absent
      /\ j.at = "pull" => j.e # Absent
  BY <1>3 DEF JobType
<1>6. /\ L(x) # Absent => over'[L(x).body] = over[L(x).body] /\ L(x) \in Versions
      /\ R(x) # Absent => over'[R(x).body] = over[R(x).body] /\ R(x) \in Versions
      /\ clock \in Nat
  BY <1>4, Present DEF UserChange, Versions, TypeOK
<1>15. NewFile # Absent /\ L(x) # NewFile /\ R(x) # NewFile
  <2>1. NewFile.time = clock + 1 /\ Absent.time = 0
    BY DEF NewFile, Absent
  <2>2. /\ L(x) # Absent => L(x).time \in 1 .. clock
        /\ R(x) # Absent => R(x).time \in 1 .. clock
    BY <1>6 DEF Versions
  <2>3. clock + 1 # 0 /\ clock + 1 \notin 1 .. clock
    BY <1>6
  <2> QED
    BY <2>1, <2>2, <2>3
<1> HIDE DEF x
<1>7. ASSUME NEW v \in Versions \cup {Absent}, SinceL(x, v) PROVE SinceL(x, v)'
  <2>1. v # Absent => v.time < clock + 1 /\ v.time \in Nat
    BY <1>6 DEF Versions
  <2>2. CASE L(x)' = L(x)
    BY <1>1, <1>2, <1>4, <1>6, <1>7, <2>2 DEF SinceL, UserChange, UserRecord, Known, Here
  <2>3. CASE Excuse(x)' /\ L(x)' = Absent
    BY <2>3 DEF SinceL
  <2>4. CASE L(x)' = NewFile
    <3>1. clock + 1 \in exposed'
      BY <1>3, <1>4, <1>15, <2>4 DEF UserChange
    <3>2. NewFile.time # v.time
      BY <1>6, <2>1 DEF NewFile, Absent
    <3>3. v = Absent \/ v.body \in over'[clock + 1] \/ Excuse(x)'
      BY <1>4, <1>6, <1>7, <2>4 DEF SinceL, UserChange, Over, Versions, NewFile
    <3>4. /\ Known(T, x) => clock + 1 # Here(T, x)
          /\ Known(V, x) => clock + 1 # Here(V, x)
      BY <1>4, <1>6 DEF UserRecord, Here
    <3> QED
      BY <1>1, <1>2, <1>15, <2>4, <3>1, <3>2, <3>3, <3>4 DEF SinceL, NewFile, Known, Here
  <2> QED
    BY <1>4, <2>2, <2>3, <2>4 DEF UserChange
<1>8. ASSUME NEW v \in Versions \cup {Absent}, SinceR(x, v) PROVE SinceR(x, v)'
  <2>1. v # Absent => v.time < clock + 1 /\ v.time \in Nat
    BY <1>6 DEF Versions
  <2>2. CASE R(x)' = R(x)
    BY <1>1, <1>2, <1>4, <1>6, <1>8, <2>2 DEF SinceR, UserChange, UserRecord, Known, There, Silent
  <2>3. CASE Excuse(x)' /\ R(x)' = Absent
    BY <2>3 DEF SinceR
  <2>4. CASE R(x)' = NewFile
    <3>1. clock + 1 \in exposed'
      BY <1>3, <1>4, <1>6, <1>15, <2>4 DEF UserChange, NewFile, Versions
    <3>2. NewFile.time # v.time
      BY <1>6, <2>1 DEF NewFile, Absent
    <3>3. v = Absent \/ v.body \in over'[clock + 1] \/ Excuse(x)'
      BY <1>4, <1>6, <1>8, <2>4 DEF SinceR, UserChange, Over, Versions, NewFile
    <3>4. /\ Known(T, x) => clock + 1 # There(T, x)
          /\ Known(V, x) => clock + 1 # There(V, x)
      BY <1>4, <1>6 DEF UserRecord, There
    <3> QED
      BY <1>1, <1>2, <1>15, <2>4, <3>1, <3>2, <3>3, <3>4 DEF SinceR, NewFile, Known, There
  <2>5. CASE /\ R(x)' = [body |-> clock + 1, time |-> R(x).time] /\ R(x)' # Absent
             /\ R(x) # Absent /\ clock + 1 > R(x).time
             /\ \A b : b \in Over(R(x).body) => b \in over'[clock + 1]
             /\ clock + 1 \in exposed'
    <3>1. v = Absent \/ v.body \in over'[clock + 1] \/ Excuse(x)'
      BY <1>4, <1>6, <1>8, <2>5 DEF SinceR, UserChange, Over
    <3> QED
      BY <2>5, <3>1 DEF SinceR, Silent
  <2> QED
    BY <1>4, <2>2, <2>3, <2>4, <2>5 DEF UserChange
<1>9. j.at = "ready" =>
        /\ j.s = Absent => Excuse(x)'
        /\ j.p = Absent /\ Known(T, x) /\ x \notin T.nonSynced => Excuse(x)'
  BY <1>4 DEF JobOK, UserRecord, UserChange, x
<1>10. j.at = "push" /\ R(x)' # Absent =>
          \/ R(x)'.body \in over'[j.d.body] \cup {j.d.body} \/ R(x)'.body \in exposed'
          \/ Excuse(x)' \/ x \in T.nonSynced
  <2>1. j.at = "push" => over'[j.d.body] = over[j.d.body]
    BY <1>4, <1>5 DEF UserChange, Versions
  <2>2. R(x)' # R(x) => R(x)' = Absent \/ R(x)'.body \in exposed'
    BY <1>3, <1>4, <1>6 DEF UserChange, NewFile
  <2> QED
    BY <1>4, <2>1, <2>2 DEF JobOK, UserRecord, UserChange, Covers, Over, x
<1>11. j.at = "pull" /\ L(x)' # Absent =>
          L(x)'.body \in over'[j.e.body] \cup {j.e.body} \/ L(x)'.body \in exposed' \/ Excuse(x)'
  <2>1. j.at = "pull" => over'[j.e.body] = over[j.e.body]
    BY <1>4, <1>5 DEF UserChange, Versions
  <2>2. L(x)' # L(x) => L(x)' = Absent \/ L(x)'.body \in exposed'
    BY <1>3, <1>4, <1>6 DEF UserChange, NewFile
  <2> QED
    BY <1>4, <2>1, <2>2 DEF JobOK, UserChange, Covers, Over, x
<1>12. j.at \in {"outdate", "unsync"} =>
          /\ used'.configs > 0
          /\ j.at = "outdate" => x \in T.nonSynced \/ Excuse(x)'
          /\ L(x)' # Absent =>
                \/ R(x)' # Absent /\ L(x)'.body \in over'[R(x)'.body] \cup {R(x)'.body}
                \/ L(x)'.body \in exposed' \/ Excuse(x)'
  <2>1. used'.configs = used.configs
    BY DEF UserCases
  <2>2. L(x)' # L(x) => L(x)' = Absent \/ L(x)'.body \in exposed'
    BY <1>3, <1>4, <1>6 DEF UserChange, NewFile
  <2>3. L(x)' = L(x) /\ R(x) # Absent /\ R(x)' # Absent /\ L(x).body \in over[R(x).body] \cup {R(x).body}
           => L(x)'.body \in over'[R(x)'.body] \cup {R(x)'.body}
    BY <1>4, <1>6 DEF UserChange, NewFile, Over
  <2> QED
    BY <1>4, <2>1, <2>2, <2>3 DEF JobOK, UserRecord, UserChange, Covers, Over, x
<1>13. j.at \in {"dropRemote", "drop"} => Excuse(x)'
  BY <1>4 DEF JobOK, UserChange, x
<1>14. /\ j.at = "ready" => SinceL(x, j.p)' /\ SinceR(x, j.s)'
       /\ j.at \in {"push", "resolve", "copy", "replace"} => SinceL(x, j.d)'
       /\ j.at \in {"pull", "theirs", "resolve", "copy", "replace"} => SinceR(x, j.e)'
  BY <1>5, <1>7, <1>8 DEF JobOK, x
<1> QED
  BY <1>1, <1>9, <1>10, <1>11, <1>12, <1>13, <1>14 DEF JobOK, Covers, Over, Known, x

\* So do all, and the jobs at them.
LEMMA UserPages ==
    ASSUME TypeOK, OneJob, Pagewise, NEW p \in Pages, User(p)
    PROVE  Pagewise'
<1> DEFINE x == <<p>>
<1>1. UserCases(x) /\ x \in Paths /\ x \in Names
  BY UserSplits, PathNames DEF Paths
<1> HIDE DEF x
<1>2. Grows
  BY <1>1, UserType
<1>3. PICK T : T = snapshot'
  OBVIOUS
<1>4. jobs' = jobs /\ saved' = saved /\ T.files = snapshot.files
  BY <1>1, <1>3 DEF UserCases
<1>5. \A y : y # x => L(y)' = L(y) /\ R(y)' = R(y)
  BY <1>1, OtherPaths DEF UserCases
<1>6. \A y : y # x => (y \in T.nonSynced <=> y \in snapshot.nonSynced)
  BY <1>1, <1>3 DEF UserCases
<1>7. \A y : y # x => SameAt(T, snapshot, y) /\ SameAt(saved', saved, y)
  BY <1>4, <1>6 DEF SameAt, Known
<1>8. ASSUME NEW y \in Paths \cap Alone PROVE PathOK(y)'
  BY <1>1, <1>2, <1>3, <1>5, <1>7, UserPath, PathStill DEF Pagewise
<1>9. ASSUME NEW k \in jobs', k.path \in Paths \cap Alone PROVE JobOK(k)'
  <2>1. k \in jobs /\ JobOK(k)
    BY <1>4, <1>9 DEF Pagewise
  <2>2. CASE k.path = x
    BY <1>1, <1>2, <2>1, <2>2, UserJob
  <2>3. CASE k.path # x
    BY <1>2, <1>3, <1>5, <1>7, <2>1, <2>3, JobStill DEF Heir
  <2> QED
    BY <2>2, <2>3
<1> QED
  BY <1>2, <1>8, <1>9 DEF Pagewise, Grows

----------------------------------------
(* The pages: an operation begins, the configuration changes *)

\* The jobs of an operation that begins know what is there, and those left know what they
\* knew.
LEMMA BeginPages ==
    ASSUME TypeOK, OneJob, BackOK, Pagewise, BeginCases
    PROVE  Pagewise'
<1>1. Grows
  BY BeginType
<1>2. /\ UNCHANGED <<local, remote, snapshot, over, gone, exposed>>
      /\ saved' \in {saved, snapshot} /\ used'.configs = used.configs
  BY DEF BeginCases
<1>3. \A y : /\ L(y)' = L(y) /\ R(y)' = R(y) /\ SameAt(snapshot', snapshot, y)
             /\ SameAt(saved', saved, y) \/ SameAt(saved', snapshot, y)
  BY <1>2, LocalSame, RemoteSame, SameAtItself
<1>4. ASSUME NEW y \in Paths \cap Alone PROVE PathOK(y)'
  BY <1>1, <1>3, PathStill DEF Pagewise
<1>5. ASSUME NEW k \in jobs', k.path \in Paths \cap Alone PROVE JobOK(k)'
  <2>1. CASE k \in jobs
    BY <1>1, <1>3, <1>5, <2>1, JobStill DEF Pagewise, Heir
  <2>2. CASE Begun(k)
    <3>1. PICK x \in Paths \cap Alone : x = k.path
      BY <1>5
    <3>2. k.path = x /\ k.at = "ready" /\ k.p = L(x) /\ k.s = R(x)
      BY <2>2, <3>1 DEF Begun
    <3>3. /\ R(x) = Absent => Excuse(x)
          /\ L(x) = Absent /\ Known(snapshot, x) /\ x \notin snapshot.nonSynced => Excuse(x)
      BY DEF Pagewise, PathOK, Missing, Traced
    <3>4. /\ k.s = Absent => Excuse(x)'
          /\ k.p = Absent /\ Known(snapshot, x)' /\ x \notin snapshot'.nonSynced => Excuse(x)'
      BY <1>1, <1>2, <3>2, <3>3, ExcuseGrows DEF Known
    <3>5. L(x)' = k.p /\ R(x)' = k.s
      BY <1>3, <3>2
    <3> QED
      BY <3>2, <3>4, <3>5 DEF JobOK, SinceL, SinceR
  <2> QED
    BY <2>1, <2>2 DEF BeginCases
<1> QED
  BY <1>1, <1>4, <1>5 DEF Pagewise, Grows

\* A step that leaves files, records and jobs alone.
LEMMA StillPages ==
    ASSUME TypeOK, Grows, Pagewise, UNCHANGED <<local, remote, snapshot, saved, jobs>>
    PROVE  Pagewise'
<1>1. \A y : /\ L(y)' = L(y) /\ R(y)' = R(y) /\ SameAt(snapshot', snapshot, y)
             /\ SameAt(saved', saved, y)
  BY LocalSame, RemoteSame, SameAtItself
<1>2. ASSUME NEW y \in Paths \cap Alone PROVE PathOK(y)'
  BY <1>1, PathStill DEF Pagewise
<1>3. ASSUME NEW k \in jobs', k.path \in Paths \cap Alone PROVE JobOK(k)'
  BY <1>1, <1>3, JobStill DEF Pagewise, Heir
<1> QED
  BY <1>2, <1>3 DEF Pagewise, Grows

----------------------------------------
(* Conflicting copies: their versions, and what is recorded of them *)

\* What is at a path, or in the hands of a job there, is seen.
LEMMA SeenHere ==
    ASSUME NEW z
    PROVE  /\ L(z) \in Seen(z) \cup {Absent} /\ R(z) \in Seen(z) \cup {Absent}
           /\ \A k \in jobs : k.path = z => k.d \in Seen(z) \cup {Absent} /\ k.e \in Seen(z) \cup {Absent}
BY DEF Seen

\* And nothing else is.
LEMMA SeenAfter ==
    ASSUME NEW z, NEW W, L(z)' \in W \cup {Absent}, R(z)' \in W \cup {Absent},
           \A k \in jobs' : k.path = z => k.d \in W \cup {Absent} /\ k.e \in W \cup {Absent}
    PROVE  Seen(z)' \subseteq W
BY DEF Seen

\* Every version seen is one written by now.
LEMMA SeenTimes ==
    ASSUME TypeOK, NEW z, NEW f \in Seen(z)
    PROVE  f \in Versions /\ f.time \in 1 .. clock /\ f # Absent
<1>1. \A k \in jobs : k.d \in Versions \cup {Absent} /\ k.e \in Versions \cup {Absent}
  BY DEF TypeOK, JobType
<1>2. f \in Versions
  BY <1>1, Present DEF Seen
<1> QED
  BY <1>2, Present DEF Versions

\* T has of x only what S has.
SameTimes(T, S, x) == Known(T, x) => Known(S, x) /\ T.files[x] = S.files[x]

\* What a step may show of the versions at z: those seen before, and new ones of one body.
LEMMA CopyStep ==
    ASSUME TypeOK, NEW z, CopyOK(z), NEW b,
           \A f \in Seen(z)' : f \in Seen(z) \/ (f.time = clock + 1 /\ f.body = b)
    PROVE  /\ Unique(z)'
           /\ \A T : SameTimes(T, snapshot, z) \/ SameTimes(T, saved, z) => Paired(T, z)'
           /\ \A T : Here(T, z) = There(T, z) => Paired(T, z)'
<1>1. PICK W : W = Seen(z)'
  OBVIOUS
<1>2. \A f \in W : f \in Seen(z) \/ (f.time = clock + 1 /\ f.body = b)
  BY <1>1
<1>3. \A f \in Seen(z) : f.time # clock + 1
  BY SeenTimes DEF TypeOK
<1>4. \A f, g \in W : f.time = g.time => f.body = g.body
  BY <1>2, <1>3 DEF CopyOK, Unique
<1>5. ASSUME NEW S, SnapshotType(S, clock), Paired(S, z), NEW T, SameTimes(T, S, z), Known(T, z)
      PROVE  \A f, g \in W : f.time = Here(T, z) /\ g.time = There(T, z) => f.body = g.body
  <2>1. /\ Known(S, z) /\ Here(T, z) = Here(S, z) /\ There(T, z) = There(S, z)
        /\ Here(S, z) \in 1 .. clock /\ There(S, z) \in 1 .. clock /\ clock \in Nat
    BY <1>5 DEF SameTimes, Known, Here, There, SnapshotType, TypeOK
  <2>2. Here(S, z) # clock + 1 /\ There(S, z) # clock + 1
    BY <2>1
  <2> QED
    BY <1>2, <1>5, <2>1, <2>2 DEF Paired
<1>6. \A T : SameTimes(T, snapshot, z) \/ SameTimes(T, saved, z) => Paired(T, z)'
  BY <1>1, <1>5 DEF CopyOK, TypeOK, Paired, Known, Here, There
<1>7. \A T : Here(T, z) = There(T, z) => Paired(T, z)'
  BY <1>1, <1>4 DEF Paired, Here, There
<1> QED
  BY <1>1, <1>4, <1>6, <1>7 DEF Unique

\* A copy is sound after a step if it is so by the new records.
LEMMA CopyJoin ==
    ASSUME NEW z, Unique(z)', NEW S, S = snapshot', Paired(S, z)', NEW T, T = saved', Paired(T, z)'
    PROVE  CopyOK(z)'
BY DEF CopyOK

\* A copying job that does nothing: a job at its copy writes there once, and ends.
LEMMA CopyingStill ==
    ASSUME TypeOK, NEW i \in jobs, NEW k, Heir(k, i), Copying(i), NEW z, z = Copy(i),
           \A f \in Seen(z)' : f \in Seen(z) \/ f.time = clock + 1,
           NoJobAt(z) => NoJobAt(z)',
           \/ L(z)' = L(z) /\ R(z)' = R(z)
           \/ NoJobAt(z)' /\ ~NoJobAt(z) /\ (L(z)' = L(z) \/ R(z)' = R(z))
    PROVE  Copying(k)'
<1>1. /\ k.at = i.at /\ k.s = i.s /\ k.p = i.p /\ k.e = i.e /\ Copy(k) = z
      /\ i.at \in {"copy", "replace"} => i.s.time \in 1 .. clock
      /\ i.at = "replace" => i.p.time \in 1 .. clock
      /\ clock \in Nat
  <2>1. JobType(i)
    BY DEF TypeOK
  <2> QED
    BY <2>1, HeirFields DEF JobType, TypeOK
<1>2. ASSUME NEW t \in 1 .. clock, \A f \in Seen(z) : f.time = t => f.body = i.e.body
      PROVE  \A f \in Seen(z)' : f.time = t => f.body = i.e.body
  BY <1>1, <1>2
<1>3. /\ i.at \in {"copy", "replace"} => \A f \in Seen(z)' : f.time = i.s.time => f.body = i.e.body
      /\ i.at = "replace" => \A f \in Seen(z)' : f.time = i.p.time => f.body = i.e.body
  BY <1>1, <1>2 DEF Copying
<1>4. i.at = "copy" => L(z)'.body = i.e.body \/ NoJobAt(z)'
  BY DEF Copying
<1>5. i.at = "replace" =>
         \/ L(z)'.body = i.e.body /\ R(z)'.body = i.e.body
         \/ NoJobAt(z)' /\ (L(z)'.body = i.e.body \/ R(z)'.body = i.e.body)
  BY DEF Copying
<1>6. Copy(k)' = z
  BY <1>1 DEF Copy
<1> QED
  BY <1>1, <1>3, <1>4, <1>5, <1>6 DEF Copying

\* A decision leaves the copies sound.
LEMMA DecideCopies ==
    ASSUME TypeOK, OneJob, Copies, Alone' \subseteq Alone, NEW j \in jobs, j.at = "ready", DecideCases(j),
           UNCHANGED <<local, remote, clock>>
    PROVE  Copies'
<1> DEFINE x == j.path
<1>1. PICK T : T = snapshot'
  OBVIOUS
<1>2. PICK V : V = saved'
  OBVIOUS
<1>3. PICK n : n = Planned(j)
  OBVIOUS
<1>4. JobType(j) /\ \A i \in jobs : JobType(i)
  BY DEF TypeOK
<1>5. \A y : L(y)' = L(y) /\ R(y)' = R(y)
  BY LocalSame, RemoteSame
<1>6. /\ n.path = x /\ n.d \in {L(x), Absent} /\ n.e \in {R(x), Absent}
      /\ n.at \notin {"copy", "replace"}
  <2>1. /\ n.path = x /\ n.at = Plan(j)
        /\ n.d = IF Plan(j) \in {"push", "resolve"} THEN L(x) ELSE Absent
        /\ n.e = IF Plan(j) \in {"pull", "theirs", "resolve"} THEN R(x) ELSE Absent
    BY <1>3, <1>4, PlannedFields
  <2>2. Plan(j) \notin {"copy", "replace"}
    BY <1>4, PlanFacts
  <2> QED
    BY <2>1, <2>2
<1>7. \A k \in jobs' : (k = n \/ \E i \in jobs : Heir(k, i))
  <2>1. CASE GoingCases(j)
    <3>1. GoesOn(j, n)
      BY <1>3, <2>1 DEF GoingCases
    <3> QED
      BY <3>1, GoesOnHeirs DEF Heir
  <2>2. CASE ~GoingCases(j)
    <3>1. Ended(j)
      BY <2>2 DEF DecideCases, Outcome
    <3> QED
      BY <3>1, EndedHeirs
  <2> QED
    BY <2>1, <2>2
<1>8. ASSUME NEW z PROVE Seen(z)' \subseteq Seen(z)
  <2>1. ASSUME NEW k \in jobs', k.path = z
        PROVE  k.d \in Seen(z) \cup {Absent} /\ k.e \in Seen(z) \cup {Absent}
    <3>1. CASE k = n
      BY <1>6, <2>1, <3>1, SeenHere
    <3>2. ASSUME NEW i \in jobs, Heir(k, i)
          PROVE  k.d \in Seen(z) \cup {Absent} /\ k.e \in Seen(z) \cup {Absent}
      <4>1. k.path = i.path /\ k.d = i.d /\ k.e = i.e
        BY <1>4, <3>2, HeirFields
      <4> QED
        BY <2>1, <4>1, SeenHere
    <3> QED
      BY <1>7, <2>1, <3>1, <3>2
  <2>2. L(z)' \in Seen(z) \cup {Absent} /\ R(z)' \in Seen(z) \cup {Absent}
    BY <1>5, SeenHere
  <2>3. PICK W : W = Seen(z)
    OBVIOUS
  <2> QED
    BY <2>1, <2>2, <2>3, SeenAfter
<1>9. ASSUME NEW z \in Alone \ Paths PROVE CopyOK(z)'
  <2>1. CopyOK(z)
    BY <1>9 DEF Copies
  <2>2. \A f \in Seen(z)' : f \in Seen(z)
    BY <1>8
  <2>3. /\ Unique(z)'
        /\ \A S : SameTimes(S, snapshot, z) \/ SameTimes(S, saved, z) => Paired(S, z)'
        /\ \A S : Here(S, z) = There(S, z) => Paired(S, z)'
    <3>1. \A f \in Seen(z)' : f \in Seen(z) \/ (f.time = clock + 1 /\ f.body = 0)
      BY <2>2
    <3> QED
      BY <2>1, <3>1, CopyStep
  <2>4. Paired(T, z)'
    <3>1. CASE SameTimes(T, snapshot, z)
      BY <2>3, <3>1
    <3>2. CASE Here(T, z) = There(T, z)
      BY <2>3, <3>2
    <3>3. CASE /\ L(z) # Absent /\ R(z) # Absent /\ L(z).body = R(z).body
               /\ T.files[z] = <<L(z).time, R(z).time>>
      <4>1. L(z) \in Seen(z) /\ R(z) \in Seen(z)
        BY <3>3, SeenHere
      <4>2. \A f, g \in Seen(z) : f.time = L(z).time /\ g.time = R(z).time => f.body = g.body
        BY <2>1, <3>3, <4>1 DEF CopyOK, Unique
      <4>3. Here(T, z) = L(z).time /\ There(T, z) = R(z).time
        BY <3>3 DEF Here, There
      <4>4. PICK W : W = Seen(z)'
        OBVIOUS
      <4>5. \A f, g \in W : f.time = Here(T, z) /\ g.time = There(T, z) => f.body = g.body
        BY <2>2, <4>2, <4>3, <4>4
      <4> QED
        BY <4>4, <4>5 DEF Paired, Here, There
    <3> QED
      <4>1. CASE z # x
        <5>1. SameAt(T, snapshot, z)
          BY <1>1, <4>1, DecidedCases
        <5> QED
          BY <3>1, <5>1 DEF SameAt, SameTimes
      <4>2. CASE z = x
        <5>1. Decided(j, T)
          BY <1>1, DecidedCases
        <5> QED
          BY <3>1, <3>2, <3>3, <4>2, <5>1 DEF Decided, SameAt, SameTimes
      <4> QED
        BY <4>1, <4>2
  <2>5. V \in {saved, snapshot, T}
    BY <1>1, <1>2 DEF DecideCases, GoingCases, GoesOn, Outcome
  <2>6. Paired(V, z)'
    BY <2>3, <2>4, <2>5 DEF SameTimes
  <2> QED
    BY <1>1, <1>2, <2>3, <2>4, <2>6, CopyJoin
<1>10. ASSUME NEW k \in jobs', k.path \in Alone PROVE Copying(k)'
  <2>1. CASE k = n
    BY <1>6, <2>1 DEF Copying
  <2>2. ASSUME NEW i \in jobs, Heir(k, i) PROVE Copying(k)'
    <3>1. PICK z : z = Copy(i)
      OBVIOUS
    <3>2. Copying(i)
      BY <1>4, <1>10, <2>2, HeirFields DEF Copies
    <3>3. NoJobAt(z) => NoJobAt(z)'
      <4>1. \A l \in jobs' : \E m \in jobs : l.path = m.path
        BY <1>4, <1>6, <1>7, HeirFields
      <4> QED
        BY <4>1 DEF NoJobAt
    <3> QED
      BY <1>5, <1>8, <2>2, <3>1, <3>2, <3>3, CopyingStill
  <2> QED
    BY <1>7, <2>1, <2>2
<1> QED
  BY <1>9, <1>10 DEF Copies

\* The body of the version a job's write makes at z.
Fresh(j, z) == IF z = j.path THEN j.d.body ELSE j.e.body

\* The versions seen after a write of a job: the old ones and the one it made.
LEMMA EffectSeen ==
    ASSUME TypeOK, NEW j \in jobs, j.at # "ready", Apply(Effect(j)), NEW z \in Alone \ Paths,
           \A k \in jobs' :
              \/ \E i \in jobs : Heir(k, i)
              \/ k.path = j.path /\ k.d = j.d /\ k.e = j.e
    PROVE  \A f \in Seen(z)' :
              \/ f \in Seen(z)
              \/ /\ f.time = clock + 1 /\ f.body = Fresh(j, z)
                 /\ \/ z = Copy(j) /\ j.at \in {"resolve", "copy"}
                    \/ z = j.path /\ j.at = "replace"
<1> DEFINE f0 == [body |-> Fresh(j, z), time |-> clock + 1]
           Made == \/ z = Copy(j) /\ j.at \in {"resolve", "copy"}
                   \/ z = j.path /\ j.at = "replace"
<1>1. Copy(j) # j.path /\ L(z)' = NewL(j, z) /\ R(z)' = NewR(j, z)
  BY CopyName, EffectAt
<1>2. \A i \in jobs : JobType(i)
  BY DEF TypeOK
<1>3. PICK W : W = {f \in Seen(z) \cup {f0} : f \in Seen(z) \/ (f = f0 /\ Made)}
  OBVIOUS
<1>4. /\ L(z) \in W \cup {Absent} /\ R(z) \in W \cup {Absent}
      /\ \A k \in jobs : k.path = z => k.d \in W \cup {Absent} /\ k.e \in W \cup {Absent}
      /\ Made => f0 \in W
  BY <1>3, SeenHere
<1>5. L(z)' \in W \cup {Absent} /\ R(z)' \in W \cup {Absent}
  BY <1>1, <1>4 DEF NewL, NewR, Fresh
<1>6. \A k \in jobs' : k.path = z => k.d \in W \cup {Absent} /\ k.e \in W \cup {Absent}
  BY <1>2, <1>4, HeirFields
<1>7. Seen(z)' \subseteq W
  BY <1>5, <1>6, SeenAfter
<1>8. f0.time = clock + 1 /\ f0.body = Fresh(j, z)
  OBVIOUS
<1> HIDE DEF f0
<1> QED
  BY <1>3, <1>7, <1>8

\* The copying jobs but the one that writes.
LEMMA EffectCopying ==
    ASSUME TypeOK, OneJob, Copies, NEW j \in jobs, j.at # "ready", Apply(Effect(j)),
           \A k \in jobs' :
              \/ \E i \in jobs \ {j} : Heir(k, i)
              \/ j.at \in {"resolve", "copy"} /\ k.path = j.path /\ k.d = j.d /\ k.e = j.e,
           NEW i \in jobs \ {j}, i.path \in Alone, NEW k \in jobs', Heir(k, i)
    PROVE  Copying(k)'
<1>1. PICK z : z = Copy(i)
  OBVIOUS
<1>2. Copying(i) /\ \A m \in jobs : JobType(m)
  BY DEF Copies, TypeOK
<1>3. z \in Alone \ Paths /\ z # Copy(j)
  BY <1>1, CopyName, CopyAlone DEF OneJob
<1>4. \A f \in Seen(z)' : f \in Seen(z) \/ f.time = clock + 1
  BY <1>3, EffectSeen
<1>5. L(z)' = NewL(j, z) /\ R(z)' = NewR(j, z)
  BY EffectAt
<1>6. \A l \in jobs' : \E m \in jobs : l.path = m.path
  BY <1>2, HeirFields
<1>7. NoJobAt(z) => NoJobAt(z)'
  BY <1>6 DEF NoJobAt
<1>8. CASE z # j.path \/ j.at \in {"resolve", "copy"}
  <2>1. L(z)' = L(z) /\ R(z)' = R(z)
    BY <1>3, <1>5, <1>8 DEF NewL, NewR
  <2> QED
    BY <1>1, <1>2, <1>4, <1>7, <2>1, CopyingStill
<1>9. CASE z = j.path /\ j.at \notin {"resolve", "copy"}
  <2>1. ~NoJobAt(z)
    BY <1>9 DEF NoJobAt
  <2>2. \A l \in jobs' : l.path # j.path
    <3>1. ASSUME NEW l \in jobs' PROVE l.path # j.path
      <4>1. PICK m \in jobs \ {j} : Heir(l, m)
        BY <1>9
      <4>2. l.path = m.path
        BY <1>2, <4>1, HeirFields
      <4> QED
        BY <1>3, <1>9, <4>2 DEF OneJob
    <3> QED
      BY <3>1
  <2>3. NoJobAt(z)'
    BY <1>9, <2>2 DEF NoJobAt
  <2>4. L(z)' = L(z) \/ R(z)' = R(z)
    BY <1>3, <1>5 DEF NewL, NewR
  <2> QED
    BY <1>1, <1>2, <1>4, <1>7, <2>1, <2>3, <2>4, CopyingStill
<1> QED
  BY <1>8, <1>9

\* The job that copies, after it wrote one.
LEMMA CopiedCopying ==
    ASSUME TypeOK, OneJob, Copies, NEW j \in jobs, j.path \in Alone, j.at \in {"resolve", "copy"},
           Apply(Effect(j)), NEW n, n = Copied(j), GoesOn(j, n)
    PROVE  Copying(n)'
<1>1. PICK z : z = Copy(j)
  OBVIOUS
<1>2. /\ n.path = j.path /\ n.d = j.d /\ n.e = j.e /\ Copy(n) = z
      /\ n.at = IF j.at = "resolve" THEN "copy" ELSE "replace"
      /\ n.s.time = IF j.at = "resolve" THEN clock + 1 ELSE j.s.time
      /\ j.at = "copy" => n.p.time = clock + 1
  BY <1>1, CopiedFields
<1>3. z \in Alone \ Paths /\ z # j.path /\ JobType(j) /\ clock \in Nat
  BY <1>1, CopyName, CopyAlone DEF TypeOK
<1>4. \A k \in jobs' : k = n \/ k \in jobs \ {j}
  BY GoesOnHeirs
<1>5. \A f \in Seen(z)' : f \in Seen(z) \/ (f.time = clock + 1 /\ f.body = j.e.body)
  <2>1. \A k \in jobs' : (\E i \in jobs : Heir(k, i)) \/ (k.path = j.path /\ k.d = j.d /\ k.e = j.e)
    BY <1>2, <1>4 DEF Heir
  <2> QED
    BY <1>3, <2>1, EffectSeen DEF Fresh
<1>6. \A f \in Seen(z) : f.time # clock + 1
  BY <1>3, SeenTimes
<1>7. \A f \in Seen(z)' : f.time = clock + 1 => f.body = j.e.body
  BY <1>5, <1>6
<1>8. L(z)' = NewL(j, z) /\ R(z)' = NewR(j, z)
  BY EffectAt
<1>9. Copy(n)' = z
  BY <1>2 DEF Copy
<1>10. CASE j.at = "resolve"
  <2>1. L(z)'.body = j.e.body
    BY <1>1, <1>3, <1>8, <1>10 DEF NewL
  <2> QED
    BY <1>2, <1>7, <1>9, <1>10, <2>1 DEF Copying
<1>11. CASE j.at = "copy"
  <2>1. R(z)'.body = j.e.body /\ L(z)' = L(z)
    BY <1>1, <1>3, <1>8, <1>11 DEF NewL, NewR
  <2>2. /\ \A f \in Seen(z) : f.time = j.s.time => f.body = j.e.body
        /\ L(z).body = j.e.body \/ NoJobAt(z)
    BY <1>1, <1>11 DEF Copies, Copying
  <2>3. NoJobAt(z) => NoJobAt(z)'
    BY <1>2, <1>3, <1>4 DEF NoJobAt
  <2>4. \A f \in Seen(z)' : f.time = j.s.time => f.body = j.e.body
    BY <1>5, <2>2
  <2> QED
    BY <1>2, <1>7, <1>9, <1>11, <2>1, <2>2, <2>3, <2>4 DEF Copying
<1> QED
  BY <1>10, <1>11

\* Nothing happens at the copies.
LEMMA StillCopies ==
    ASSUME TypeOK, Copies, Alone' \subseteq Alone, \A z \in Alone \ Paths : L(z)' = L(z) /\ R(z)' = R(z),
           \A k \in jobs' : \E i \in jobs : Heir(k, i),
           NEW T, T = snapshot', \A z : SameTimes(T, snapshot, z) \/ SameTimes(T, saved, z),
           NEW V, V = saved', \A z : SameTimes(V, snapshot, z) \/ SameTimes(V, saved, z)
    PROVE  Copies'
<1>1. \A i \in jobs : JobType(i)
  BY DEF TypeOK
<1>2. ASSUME NEW z \in Alone \ Paths PROVE Seen(z)' \subseteq Seen(z)
  <2>1. PICK W : W = Seen(z)
    OBVIOUS
  <2>2. \A k \in jobs' : k.path = z => k.d \in W \cup {Absent} /\ k.e \in W \cup {Absent}
    BY <1>1, <2>1, HeirFields, SeenHere
  <2>3. L(z)' \in W \cup {Absent} /\ R(z)' \in W \cup {Absent}
    BY <1>2, <2>1, SeenHere
  <2> QED
    BY <2>1, <2>2, <2>3, SeenAfter
<1>3. ASSUME NEW z \in Alone \ Paths PROVE CopyOK(z)'
  <2>1. CopyOK(z) /\ \A f \in Seen(z)' : f \in Seen(z) \/ (f.time = clock + 1 /\ f.body = 0)
    BY <1>2, <1>3 DEF Copies
  <2>2. /\ Unique(z)'
        /\ \A S : SameTimes(S, snapshot, z) \/ SameTimes(S, saved, z) => Paired(S, z)'
    BY <2>1, CopyStep
  <2>3. Paired(T, z)' /\ Paired(V, z)'
    BY <2>2
  <2> QED
    BY <2>2, <2>3, CopyJoin
<1>4. ASSUME NEW k \in jobs', k.path \in Alone PROVE Copying(k)'
  <2>1. PICK i \in jobs : Heir(k, i)
    BY <1>4
  <2>2. PICK z : z = Copy(i)
    OBVIOUS
  <2>3. i.path \in Alone
    BY <1>1, <1>4, <2>1, HeirFields
  <2>6. z \in Alone \ Paths /\ Copying(i)
    BY <2>2, <2>3, CopyName, CopyAlone DEF Copies
  <2>4. NoJobAt(z) => NoJobAt(z)'
    <3>1. \A l \in jobs' : \E m \in jobs : l.path = m.path
      BY <1>1, HeirFields
    <3> QED
      BY <3>1 DEF NoJobAt
  <2>5. (\A f \in Seen(z)' : f \in Seen(z)) /\ L(z)' = L(z) /\ R(z)' = R(z)
    BY <1>2, <2>6
  <2> QED
    BY <2>6, <2>4, <2>5, <2>1, <2>2, CopyingStill
<1> QED
  BY <1>3, <1>4 DEF Copies

\* Jobs that begin have seen nothing yet, and none begins at the copy of a job that is
\* alone.
LEMMA BeginCopies ==
    ASSUME TypeOK, Copies, BeginCases
    PROVE  Copies'
<1>1. /\ UNCHANGED <<local, remote, snapshot>> /\ saved' \in {saved, snapshot}
      /\ Alone' \subseteq Alone
  BY DEF BeginCases
<1>2. \A z : L(z)' = L(z) /\ R(z)' = R(z)
  BY <1>1, LocalSame, RemoteSame
<1>3. \A k \in jobs' : k \in jobs \/ (k.at = "ready" /\ k.d = Absent /\ k.e = Absent)
  BY DEF BeginCases, Begun
<1>4. ASSUME NEW z PROVE Seen(z)' \subseteq Seen(z)
  <2>1. PICK W : W = Seen(z)
    OBVIOUS
  <2>2. L(z)' \in W \cup {Absent} /\ R(z)' \in W \cup {Absent}
    BY <1>2, <2>1, SeenHere
  <2>3. \A k \in jobs' : k.path = z => k.d \in W \cup {Absent} /\ k.e \in W \cup {Absent}
    BY <1>3, <2>1, SeenHere
  <2> QED
    BY <2>1, <2>2, <2>3, SeenAfter
<1>5. ASSUME NEW z \in Alone \ Paths PROVE CopyOK(z)'
  <2>1. CopyOK(z) /\ \A f \in Seen(z)' : f \in Seen(z) \/ (f.time = clock + 1 /\ f.body = 0)
    BY <1>4, <1>5 DEF Copies
  <2>2. /\ Unique(z)'
        /\ \A S : SameTimes(S, snapshot, z) \/ SameTimes(S, saved, z) => Paired(S, z)'
    BY <2>1, CopyStep
  <2>3. PICK T : T = snapshot'
    OBVIOUS
  <2>4. PICK V : V = saved'
    OBVIOUS
  <2>5. Paired(T, z)' /\ Paired(V, z)'
    BY <1>1, <2>2, <2>3, <2>4 DEF SameTimes
  <2> QED
    BY <2>3, <2>4, <2>5, <2>2, CopyJoin
<1>6. ASSUME NEW k \in jobs', k.path \in Alone' PROVE Copying(k)'
  <2>1. CASE k.at = "ready"
    BY <2>1 DEF Copying
  <2>2. CASE k \in jobs
    <3>1. PICK z : z = Copy(k)
      OBVIOUS
    <3>2. z \in Names /\ z[1] = k.path[1] /\ Copying(k)
      BY <1>1, <1>6, <2>2, <3>1, CopyName, CopyAlone DEF Copies
    <3>3. ASSUME NEW l \in jobs', l.path = z PROVE l \in jobs
      BY <1>6, <2>2, <3>2, <3>3 DEF BeginCases
    <3>4. NoJobAt(z) => NoJobAt(z)'
      BY <3>3 DEF NoJobAt
    <3>5. /\ \A f \in Seen(z)' : f \in Seen(z) \/ f.time = clock + 1
          /\ L(z)' = L(z) /\ R(z)' = R(z)
      BY <1>2, <1>4
    <3> QED
      BY <2>2, <3>1, <3>2, <3>4, <3>5, CopyingStill DEF Heir
  <2> QED
    BY <1>3, <2>1, <2>2
<1> QED
  BY <1>1, <1>5, <1>6 DEF Copies

\* A write of a job leaves one body to each time, and old records paired.
LEMMA EffectCopyOK ==
    ASSUME TypeOK, Copies, NEW j \in jobs, j.at # "ready", Apply(Effect(j)),
           NEW z \in Alone \ Paths,
           \A k \in jobs' :
              \/ \E i \in jobs : Heir(k, i)
              \/ k.path = j.path /\ k.d = j.d /\ k.e = j.e
    PROVE  /\ Unique(z)'
           /\ \A T : SameTimes(T, snapshot, z) \/ SameTimes(T, saved, z) => Paired(T, z)'
           /\ \A T : Here(T, z) = There(T, z) => Paired(T, z)'
<1>1. \A f \in Seen(z)' : f \in Seen(z) \/ (f.time = clock + 1 /\ f.body = Fresh(j, z))
  BY EffectSeen
<1>2. CopyOK(z)
  BY DEF Copies
<1> QED
  BY <1>1, <1>2, CopyStep

\* A job that ends with a fault, and those that end with it.
LEMMA FaultCopies ==
    ASSUME TypeOK, OneJob, Copies, Alone' \subseteq Alone, NEW j \in jobs, j.at # "ready", Apply(Effect(j)),
           \A k \in jobs' : \E i \in jobs \ {j} : Heir(k, i),
           snapshot' \in {snapshot, saved}, saved' \in {snapshot, saved}
    PROVE  Copies'
<1>1. ASSUME NEW z \in Alone \ Paths PROVE CopyOK(z)'
  <2>1. /\ Unique(z)'
        /\ \A T : SameTimes(T, snapshot, z) \/ SameTimes(T, saved, z) => Paired(T, z)'
    BY EffectCopyOK
  <2>2. PICK T : T = snapshot'
    OBVIOUS
  <2>3. PICK V : V = saved'
    OBVIOUS
  <2>4. Paired(T, z)' /\ Paired(V, z)'
    BY <2>1, <2>2, <2>3 DEF SameTimes
  <2> QED
    BY <2>3, <2>4, <2>1, <2>2, CopyJoin
<1>2. ASSUME NEW k \in jobs', k.path \in Alone PROVE Copying(k)'
  <2>1. PICK i \in jobs \ {j} : Heir(k, i)
    BY <1>2
  <2>2. i.path \in Alone
    BY <1>2, <2>1, HeirFields DEF TypeOK
  <2> QED
    BY <2>1, <2>2, EffectCopying
<1> QED
  BY <1>1, <1>2 DEF Copies

\* What a job records of its file, which is a copy, or of the copy it made.
LEMMA WorkRecord ==
    ASSUME TypeOK, Copies, NEW j \in jobs, j.at # "ready", Apply(Effect(j)), WorkCases(j),
           NEW z \in Alone \ Paths,
           \A k \in jobs' :
              \/ \E i \in jobs : Heir(k, i)
              \/ k.path = j.path /\ k.d = j.d /\ k.e = j.e,
           NEW T, T = snapshot'
    PROVE  Paired(T, z)'
<1>1. /\ \A S : SameTimes(S, snapshot, z) \/ SameTimes(S, saved, z) => Paired(S, z)'
      /\ \A S : Here(S, z) = There(S, z) => Paired(S, z)'
  BY EffectCopyOK
<1>2. JobType(j) /\ SnapshotType(snapshot, clock) /\ clock \in Nat /\ j.path # Copy(j)
  BY CopyName DEF TypeOK
<1>3. CASE z # j.path /\ (z # Copy(j) \/ j.at # "replace")
  <2>1. SameAt(T, snapshot, z)
    BY <1>3, WorkElsewhere
  <2> QED
    BY <1>1, <2>1 DEF SameAt, SameTimes
<1>4. CASE z = j.path /\ j.at # "replace"
  <2>1. CASE j.at \in {"push", "pull", "theirs"}
    <3>1. \/ T = Recorded(snapshot, z, j.d.time, j.d.time)
          \/ T = Recorded(snapshot, z, j.e.time, j.e.time)
          \/ T = Matched(snapshot, z, j.e.time, j.e.time)
      BY <1>4, <2>1 DEF WorkCases, Outcome
    <3>2. T.files[z] = <<j.d.time, j.d.time>> \/ T.files[z] = <<j.e.time, j.e.time>>
      BY <1>2, <3>1, Updates
    <3> QED
      BY <1>1, <3>2 DEF Here, There
  <2>2. CASE j.at = "dropRemote"
    <3>1. T = Forgotten(snapshot, z)
      BY <1>4, <2>2 DEF WorkCases, Outcome
    <3> QED
      BY <1>1, <3>1, ForgottenAt DEF SameTimes
  <2>3. CASE j.at = "unsync"
    <3>1. T = Marked(snapshot, z)
      BY <1>4, <2>3 DEF WorkCases, Outcome
    <3> QED
      BY <1>1, <1>2, <3>1, MarkedAt DEF SameTimes
  <2>4. CASE j.at \in {"drop", "outdate", "resolve", "copy"}
    <3>1. T = snapshot
      BY <2>4 DEF WorkCases, Outcome
    <3> QED
      BY <1>1, <3>1 DEF SameTimes
  <2> QED
    BY <1>2, <1>4, <2>1, <2>2, <2>3, <2>4 DEF JobType, Ats
<1>5. CASE j.at = "replace" /\ (z = j.path \/ z = Copy(j))
  <2> DEFINE S == Matched(snapshot, Copy(j), j.s.time, j.p.time)
  <2>0. j.path \in Alone
    BY <1>5, CopyAlone
  <2>1. T = Matched(S, j.path, j.d.time, clock + 1)
    BY <1>5 DEF WorkCases, Outcome
  <2>2. SnapshotType(S, clock)
    <3>1. /\ j.s.time \in 1 .. clock /\ j.p.time \in 1 .. clock /\ Copy(j) \in Names
      BY <1>2, <1>5, CopyName DEF JobType
    <3> QED
      BY <1>2, <3>1, SnapshotUpdates
  <2>3. S.files[Copy(j)] = <<j.s.time, j.p.time>> /\ Known(S, Copy(j))
    BY <1>2, Updates
  <2> HIDE DEF S
  <2>4. /\ T.files[j.path] = <<j.d.time, clock + 1>>
        /\ SameAt(T, S, Copy(j))
    BY <1>2, <2>1, <2>2, Updates
  <2>5. PICK W : W = Seen(z)'
    OBVIOUS
  <2>6. \A f \in W :
            f \in Seen(z) \/ (f.time = clock + 1 /\ f.body = Fresh(j, z) /\ z = j.path)
    BY <1>5, <2>5, EffectSeen
  <2>7. \A f \in Seen(z) : f.time # clock + 1
    BY <1>2, SeenTimes
  <2>8. CASE z = j.path
    <3>1. j.d \in Seen(z) /\ j.d.time # clock + 1
      BY <1>2, <1>5, <2>7, <2>8, SeenHere DEF JobType
    <3>2. Unique(z)
      BY DEF Copies, CopyOK
    <3>3. \A f, g \in W : f.time = j.d.time /\ g.time = clock + 1 => f.body = g.body
      BY <2>6, <2>7, <2>8, <3>1, <3>2 DEF Unique, Fresh
    <3>4. Here(T, z) = j.d.time /\ There(T, z) = clock + 1
      BY <2>4, <2>8 DEF Here, There
    <3> QED
      BY <2>5, <3>3, <3>4 DEF Paired, Here, There
  <2>9. CASE z = Copy(j)
    <3>1. /\ \A f \in Seen(z) : f.time = j.s.time => f.body = j.e.body
          /\ \A f \in Seen(z) : f.time = j.p.time => f.body = j.e.body
      BY <1>5, <2>0, <2>9 DEF Copies, Copying
    <3>2. \A f, g \in W : f.time = j.s.time /\ g.time = j.p.time => f.body = g.body
      BY <1>2, <2>6, <2>9, <3>1
    <3>3. Here(T, z) = j.s.time /\ There(T, z) = j.p.time
      BY <2>3, <2>4, <2>9 DEF SameAt, Here, There
    <3> QED
      BY <2>5, <3>2, <3>3 DEF Paired, Here, There
  <2> QED
    BY <1>5, <2>8, <2>9
<1> QED
  BY <1>3, <1>4, <1>5

\* A recorded write leaves the copies sound.
LEMMA WorkCopies ==
    ASSUME TypeOK, OneJob, Copies, Alone' \subseteq Alone, NEW j \in jobs, j.at # "ready",
           Apply(Effect(j)), WorkCases(j)
    PROVE  Copies'
<1>1. PICK n : n = Copied(j)
  OBVIOUS
<1>2. \A k \in jobs' :
         \/ \E i \in jobs \ {j} : Heir(k, i)
         \/ j.at \in {"resolve", "copy"} /\ GoesOn(j, n) /\ k = n
  <2>1. CASE j.at \in {"resolve", "copy"}
    <3>1. GoesOn(j, n)
      BY <1>1, <2>1 DEF WorkCases
    <3> QED
      BY <2>1, <3>1, GoesOnHeirs DEF Heir
  <2>2. CASE j.at \notin {"resolve", "copy"}
    <3>1. Ended(j)
      BY <2>2 DEF WorkCases, Outcome
    <3> QED
      BY <3>1, EndedHeirs
  <2> QED
    BY <2>1, <2>2
<1>3. j.at \in {"resolve", "copy"} => n.path = j.path /\ n.d = j.d /\ n.e = j.e
  BY <1>1, CopiedFields
<1>4. \A k \in jobs' :
         \/ \E i \in jobs \ {j} : Heir(k, i)
         \/ j.at \in {"resolve", "copy"} /\ k.path = j.path /\ k.d = j.d /\ k.e = j.e
  BY <1>2, <1>3
<1>5. ASSUME NEW z \in Alone \ Paths PROVE CopyOK(z)'
  <2>1. PICK T : T = snapshot'
    OBVIOUS
  <2>2. PICK V : V = saved'
    OBVIOUS
  <2>3. \A k \in jobs' :
           (\E i \in jobs : Heir(k, i)) \/ (k.path = j.path /\ k.d = j.d /\ k.e = j.e)
    BY <1>4
  <2>4. /\ Unique(z)' /\ Paired(T, z)'
        /\ \A S : SameTimes(S, snapshot, z) \/ SameTimes(S, saved, z) => Paired(S, z)'
    BY <1>5, <2>1, <2>3, EffectCopyOK, WorkRecord
  <2>5. V \in {saved, snapshot, T}
    BY <2>1, <2>2 DEF WorkCases, GoesOn, Outcome
  <2>6. Paired(V, z)'
    BY <2>4, <2>5 DEF SameTimes
  <2> QED
    BY <2>1, <2>2, <2>4, <2>6, CopyJoin
<1>6. ASSUME NEW k \in jobs', k.path \in Alone PROVE Copying(k)'
  <2>1. ASSUME NEW i \in jobs \ {j}, Heir(k, i) PROVE Copying(k)'
    <3>1. i.path \in Alone
      BY <1>6, <2>1, HeirFields DEF TypeOK
    <3> QED
      BY <1>4, <2>1, <3>1, EffectCopying
  <2>2. CASE j.at \in {"resolve", "copy"} /\ GoesOn(j, n) /\ k = n
    <3>1. j.path \in Alone
      BY <1>3, <1>6, <2>2
    <3> QED
      BY <1>1, <2>2, <3>1, CopiedCopying
  <2> QED
    BY <1>2, <2>1, <2>2
<1> QED
  BY <1>5, <1>6 DEF Copies

----------------------------------------
(* The inductive invariant *)

\* A client in step, or one that just started, is sound.
LEMMA InitIInv == Init => IInv
<1> SUFFICES ASSUME Init PROVE IInv
  OBVIOUS
<1> DEFINE f1 == [body |-> 1, time |-> 1]
<1>1. /\ clock = 1 /\ over = [body \in {1} |-> {}] /\ jobs = {} /\ accepted = Pages
      /\ remote = [x \in Paths |-> f1] /\ saved = snapshot
      /\ used = [edits |-> 0, configs |-> 0, offline |-> 0, faults |-> 0, overlaps |-> 0]
  BY DEF Init, InitialFiles
<1>2. \/ local = remote /\ snapshot = [files |-> [x \in Paths |-> <<1, 1>>], nonSynced |-> {}]
      \/ local = <<>> /\ snapshot = [files |-> <<>>, nonSynced |-> {}]
  BY DEF Init, Empty
<1>3. f1 \in Versions /\ f1 # Absent
  BY <1>1 DEF Versions, Absent
<1>4. DOMAIN snapshot.files \subseteq Paths /\ \A x \in DOMAIN snapshot.files : snapshot.files[x] = <<1, 1>>
  BY <1>2
<1>5. /\ \A x \in Paths : R(x) = f1
      /\ \A x : L(x) \in {f1, Absent} /\ R(x) \in {f1, Absent}
      /\ \A x \in Paths : Known(snapshot, x) => L(x) = f1
  BY <1>1, <1>2 DEF L, R, At, Known
<1>6. TypeOK
  <2>0. \A V : DOMAIN <<>> = {} /\ <<>> \in [DOMAIN <<>> -> V]
    <3>1. ASSUME NEW V PROVE DOMAIN <<>> = {} /\ <<>> \in [DOMAIN <<>> -> V]
      <4>1. <<>> \in Seq(V) /\ Len(<<>>) = 0
        OBVIOUS
      <4>2. DOMAIN <<>> = 1 .. 0 /\ <<>> \in [1 .. 0 -> V]
        BY <4>1, LenProperties
      <4> QED
        BY <4>2
    <3> QED
      BY <3>1
  <2>1. /\ DOMAIN local \subseteq Names /\ local \in [DOMAIN local -> Versions]
        /\ DOMAIN remote \subseteq Names /\ remote \in [DOMAIN remote -> Versions]
    <3>1. DOMAIN remote = Paths /\ remote \in [Paths -> Versions]
      BY <1>1, <1>3
    <3> QED
      BY <1>2, <2>0, <3>1, PathNames
  <2>2. SnapshotType(snapshot, clock)
    <3> DEFINE V == (1 .. clock) \X (1 .. clock)
    <3>1. /\ DOMAIN snapshot.files \subseteq Names
          /\ snapshot.files \in [DOMAIN snapshot.files -> V]
      <4>1. CASE snapshot = [files |-> [x \in Paths |-> <<1, 1>>], nonSynced |-> {}]
        BY <1>1, <4>1, PathNames
      <4>2. CASE snapshot = [files |-> <<>>, nonSynced |-> {}]
        <5> HIDE DEF V
        <5>1. snapshot.files = <<>>
          BY <4>2
        <5> QED
          BY <2>0, <5>1
      <4> QED
        BY <1>2, <4>1, <4>2
    <3> QED
      BY <1>2, <3>1 DEF SnapshotType
  <2> QED
    BY <1>1, <2>1, <2>2 DEF TypeOK, Usage
<1>7. OneJob /\ BackOK
  BY <1>1 DEF OneJob, BackOK
<1> HIDE DEF f1
<1>8. Pagewise
  <2>1. ASSUME NEW x \in Paths PROVE PathOK(x)
    BY <1>1, <1>3, <1>5 DEF PathOK, Equal, Honest, Missing, Traced, Covers, Over
  <2> QED
    BY <1>1, <2>1 DEF Pagewise
<1>9. Copies
  <2>1. ASSUME NEW z PROVE Seen(z) \subseteq {f1}
    BY <1>1, <1>5 DEF Seen
  <2> QED
    BY <1>1, <2>1 DEF Copies, CopyOK, Unique, Paired
<1> QED
  BY <1>6, <1>7, <1>8, <1>9 DEF IInv

\* A job that ends without having done anything keeps the types.
LEMMA NothingType ==
    ASSUME TypeOK, OneJob, NEW j \in jobs, Outcome(j, snapshot),
           UNCHANGED <<local, remote, clock, accepted, used, over, gone, exposed, crowded>>
    PROVE  Grows /\ TypeOK' /\ OneJob'
<1>1. Grows /\ SpaceType'
  BY AloneSame DEF Grows, TypeOK, SpaceType, Versions, Usage
<1>2. SnapshotType(snapshot', clock') /\ SnapshotType(saved', clock') /\ accepted' \subseteq Pages
  BY DEF Outcome, TypeOK
<1>3. OneJob' /\ \A k \in jobs' : \E i \in jobs : Heir(k, i)
  BY <1>1, EndedHeirs DEF Outcome, Grows
<1> QED
  BY <1>1, <1>2, <1>3, TypeStep

\* And the copies sound.
LEMMA NothingCopies ==
    ASSUME TypeOK, OneJob, Copies, Alone' \subseteq Alone, NEW j \in jobs,
           Outcome(j, snapshot), UNCHANGED <<local, remote>>
    PROVE  Copies'
<1>1. \A z : L(z)' = L(z) /\ R(z)' = R(z)
  BY LocalSame, RemoteSame
<1>2. \A k \in jobs' : \E i \in jobs : Heir(k, i)
  BY EndedHeirs DEF Outcome
<1>3. PICK T : T = snapshot'
  OBVIOUS
<1>4. PICK V : V = saved'
  OBVIOUS
<1>5. T \in {snapshot, saved} /\ V \in {snapshot, saved}
  BY <1>3, <1>4 DEF Outcome
<1>6. \A z : /\ SameTimes(T, snapshot, z) \/ SameTimes(T, saved, z)
             /\ SameTimes(V, snapshot, z) \/ SameTimes(V, saved, z)
  BY <1>5 DEF SameTimes
<1> QED
  BY <1>1, <1>2, <1>3, <1>4, <1>6, StillCopies

\* The steps of a job.
LEMMA SyncFileIInv ==
    ASSUME IInv, NEW j \in jobs, SyncFile(j)
    PROVE  IInv'
<1>1. /\ TypeOK /\ OneJob /\ BackOK /\ Pagewise /\ Copies
      /\ UNCHANGED <<accepted, used, over, gone, exposed, crowded>>
  BY DEF IInv, SyncFile, ghosts
<1>2. BackOK'
  BY <1>1 DEF BackOK
<1>3. CASE Decide(j)
  <2>1. DecideCases(j) /\ j.at = "ready" /\ UNCHANGED <<local, remote, clock>>
    BY <1>1, <1>3, DecideSplits DEF files
  <2>2. Grows /\ TypeOK' /\ OneJob'
    BY <1>1, <1>3, DecideType DEF ghosts
  <2> QED
    BY <1>1, <1>2, <2>1, <2>2, DecidePages, DecideCopies DEF IInv, Grows
<1>4. CASE \/ PushFile(j) \/ PullFile(j) \/ DeleteRemote(j) \/ DeleteLocal(j)
           \/ WriteCopy(j) \/ Replace(j)
  <2>1. /\ j.at # "ready"
        /\ \/ UNCHANGED files /\ Outcome(j, snapshot)
           \/ Apply(Effect(j)) /\ WorkCases(j)
    BY <1>1, <1>4, WorkSplits
  <2>2. CASE UNCHANGED files /\ Outcome(j, snapshot)
    <3>1. UNCHANGED <<local, remote, clock>>
      BY <2>2 DEF files
    <3>2. Grows /\ TypeOK' /\ OneJob'
      BY <1>1, <2>2, <3>1, NothingType
    <3> QED
      BY <1>1, <1>2, <2>2, <3>1, <3>2, NothingPages, NothingCopies DEF IInv, Grows
  <2>3. CASE Apply(Effect(j)) /\ WorkCases(j)
    <3>1. Grows /\ TypeOK' /\ OneJob'
      BY <1>1, <2>1, <2>3, WorkType DEF ghosts
    <3> QED
      BY <1>1, <1>2, <2>1, <2>3, <3>1, WorkPages, WorkCopies DEF IInv, Grows
  <2> QED
    BY <2>1, <2>2, <2>3
<1> QED
  BY <1>3, <1>4 DEF SyncFile

\* A failed request.
LEMMA RequestIInv ==
    ASSUME IInv, NEW j \in jobs, RequestFails(j)
    PROVE  IInv'
<1>1. TypeOK /\ OneJob /\ BackOK /\ Pagewise /\ Copies
  BY DEF IInv
<1>2. /\ FaultStep /\ Outcome(j, snapshot) /\ TypeOK' /\ OneJob' /\ Alone' \subseteq Alone
      /\ \/ UNCHANGED <<local, remote, clock>>
         \/ Apply(Effect(j)) /\ j.at \in ToServer
  BY <1>1, RequestSplits, RequestType DEF Grows
<1>3. BackOK'
  BY <1>1, <1>2 DEF BackOK, FaultStep
<1>4. Copies'
  <2>1. CASE UNCHANGED <<local, remote, clock>>
    BY <1>1, <1>2, <2>1, NothingCopies
  <2>2. CASE Apply(Effect(j)) /\ j.at \in ToServer
    <3>1. j.at # "ready" /\ snapshot' \in {snapshot, saved} /\ saved' \in {snapshot, saved}
      BY <1>2, <2>2 DEF ToServer, Outcome
    <3>2. \A k \in jobs' : \E i \in jobs \ {j} : Heir(k, i)
      BY <1>1, <1>2, EndedHeirs DEF Outcome
    <3> QED
      BY <1>1, <1>2, <2>2, <3>1, <3>2, FaultCopies
  <2> QED
    BY <1>2, <2>1, <2>2
<1> QED
  BY <1>1, <1>2, <1>3, <1>4, RequestPages DEF IInv

\* A restart.
LEMMA RestartIInv ==
    ASSUME IInv, Restart
    PROVE  IInv'
<1>1. TypeOK /\ OneJob /\ BackOK /\ Pagewise /\ Copies
  BY DEF IInv
<1>2. /\ FaultStep /\ snapshot' = saved /\ saved' = saved /\ jobs' = {} /\ TypeOK' /\ OneJob'
      /\ Alone' \subseteq Alone
      /\ \/ UNCHANGED <<local, remote, clock>>
         \/ \E j \in jobs : j.at # "ready" /\ Apply(Effect(j))
  BY <1>1, RestartSplits, RestartType DEF Grows
<1>3. BackOK'
  BY <1>1, <1>2 DEF BackOK, FaultStep
<1>4. Copies'
  <2>1. CASE UNCHANGED <<local, remote, clock>>
    <3>1. \A z : L(z)' = L(z) /\ R(z)' = R(z)
      BY <2>1, LocalSame, RemoteSame
    <3>2. \A z : SameTimes(saved, saved, z)
      BY DEF SameTimes
    <3>3. PICK T : T = saved
      OBVIOUS
    <3> QED
      BY <1>1, <1>2, <3>1, <3>2, <3>3, StillCopies
  <2>2. ASSUME NEW j \in jobs, j.at # "ready", Apply(Effect(j)) PROVE Copies'
    BY <1>1, <1>2, <2>2, FaultCopies
  <2> QED
    BY <1>2, <2>1, <2>2
<1> QED
  BY <1>1, <1>2, <1>3, <1>4, RestartPages DEF IInv

\* The actions of users.
LEMMA UserIInv ==
    ASSUME IInv, NEW p \in Pages, User(p)
    PROVE  IInv'
<1> DEFINE x == <<p>>
<1>1. TypeOK /\ OneJob /\ BackOK /\ Pagewise /\ Copies
  BY DEF IInv
<1>2. UserCases(x) /\ x \in Paths /\ x \in Names
  BY <1>1, UserSplits, PathNames DEF Paths
<1> HIDE DEF x
<1>3. TypeOK' /\ OneJob' /\ Alone' \subseteq Alone
  BY <1>1, <1>2, UserType DEF Grows
<1>4. BackOK'
  BY <1>1, <1>2 DEF BackOK, UserCases
<1>5. \A z \in Alone \ Paths : L(z)' = L(z) /\ R(z)' = R(z)
  BY <1>2, OtherPaths DEF UserCases
<1>6. PICK T : T = snapshot'
  OBVIOUS
<1>7. PICK V : V = saved'
  OBVIOUS
<1>8. T.files = snapshot.files /\ V = saved /\ jobs' = jobs
  BY <1>2, <1>6, <1>7 DEF UserCases
<1>9. Copies'
  <2>1. \A z : SameTimes(T, snapshot, z) /\ SameTimes(V, saved, z)
    BY <1>8 DEF SameTimes, Known
  <2>2. \A k \in jobs' : Heir(k, k) /\ k \in jobs
    BY <1>8 DEF Heir
  <2> QED
    BY <1>1, <1>3, <1>5, <1>6, <1>7, <2>1, <2>2, StillCopies
<1> QED
  BY <1>1, <1>3, <1>4, <1>9, UserPages DEF IInv

\* A change of what is synced.
LEMMA ConfigIInv ==
    ASSUME IInv, NEW now \in SUBSET Pages, SetSyncConfig(now)
    PROVE  IInv'
<1>1. TypeOK /\ OneJob /\ BackOK /\ Pagewise /\ Copies
  BY DEF IInv
<1>2. /\ Grows /\ TypeOK' /\ OneJob' /\ BackOK'
      /\ UNCHANGED <<local, remote, snapshot, saved, jobs>>
  BY <1>1, ConfigType
<1>3. Copies'
  <2>1. \A z : L(z)' = L(z) /\ R(z)' = R(z)
    BY <1>2, LocalSame, RemoteSame
  <2>2. \A z : SameTimes(snapshot, snapshot, z) /\ SameTimes(saved, saved, z)
    BY DEF SameTimes
  <2>3. \A k \in jobs' : Heir(k, k) /\ k \in jobs
    BY <1>2 DEF Heir
  <2>4. PICK T : T = snapshot
    OBVIOUS
  <2>5. PICK V : V = saved
    OBVIOUS
  <2> QED
    BY <1>1, <1>2, <2>3, <2>4, <2>5, <2>1, <2>2, StillCopies DEF Grows
<1> QED
  BY <1>1, <1>2, <1>3, StillPages DEF IInv

\* A step of nothing.
LEMMA StutterIInv ==
    ASSUME IInv, UNCHANGED vars
    PROVE  IInv'
<1>1. /\ TypeOK /\ OneJob /\ BackOK /\ Pagewise /\ Copies
      /\ UNCHANGED <<local, remote, clock, snapshot, saved, accepted, jobs, used, over, gone, exposed, crowded>>
  BY DEF IInv, vars, files, ghosts
<1>2. Grows /\ SpaceType'
  BY <1>1, AloneSame DEF Grows, TypeOK, SpaceType, Versions, Usage
<1>3. OneJob' /\ BackOK'
  BY <1>1, AloneSame DEF OneJob, BackOK
<1>4. \A k \in jobs' : Heir(k, k) /\ k \in jobs
  BY <1>1 DEF Heir
<1>5. TypeOK'
  BY <1>1, <1>2, <1>4, TypeStep DEF TypeOK
<1>6. Copies'
  <2>1. \A z : L(z)' = L(z) /\ R(z)' = R(z)
    BY <1>1, LocalSame, RemoteSame
  <2>2. \A z : SameTimes(snapshot, snapshot, z) /\ SameTimes(saved, saved, z)
    BY DEF SameTimes
  <2>3. PICK T : T = snapshot
    OBVIOUS
  <2>4. PICK V : V = saved
    OBVIOUS
  <2> QED
    BY <1>1, <1>2, <1>4, <2>1, <2>2, <2>3, <2>4, StillCopies DEF Grows
<1> QED
  BY <1>1, <1>2, <1>3, <1>5, <1>6, StillPages DEF IInv

\* Every step keeps the invariant.
LEMMA NextIInv == IInv /\ [Next]_vars => IInv'
<1> SUFFICES ASSUME IInv, [Next]_vars PROVE IInv'
  OBVIOUS
<1>1. CASE SyncFiles \/ \E x \in Paths : SyncSingleFile(x)
  <2>1. TypeOK /\ OneJob /\ BackOK /\ Pagewise /\ Copies
    BY DEF IInv
  <2>2. BeginCases
    BY <1>1, <2>1, BeginSplits
  <2> QED
    BY <2>1, <2>2, BeginType, BeginPages, BeginCopies DEF IInv
<1>2. ASSUME NEW j \in jobs, SyncFile(j) \/ RequestFails(j) PROVE IInv'
  BY <1>2, SyncFileIInv, RequestIInv
<1>3. ASSUME NEW p \in Pages, User(p) PROVE IInv'
  BY <1>3, UserIInv
<1>4. ASSUME NEW now \in SUBSET Pages, SetSyncConfig(now) PROVE IInv'
  BY <1>4, ConfigIInv
<1>5. CASE Restart
  BY <1>5, RestartIInv
<1>6. CASE UNCHANGED vars
  BY <1>6, StutterIInv
<1> QED
  BY <1>1, <1>2, <1>3, <1>4, <1>5, <1>6 DEF Next

----------------------------------------
(* What the invariant says *)

\* The invariant makes the snapshot honest, at pages and at copies.
LEMMA Honesty == IInv => SnapshotIsHonest
<1> SUFFICES ASSUME IInv,
                    NEW x \in DOMAIN snapshot.files \cap DOMAIN local \cap DOMAIN remote,
                    snapshot.files[x] = <<local[x].time, remote[x].time>>
             PROVE  local[x].body = remote[x].body \/ Silent(remote[x]) \/ Crowded(x)
  BY DEF SnapshotIsHonest
<1>1. TypeOK /\ Pagewise /\ Copies
  BY DEF IInv
<1>2. /\ L(x) = local[x] /\ R(x) = remote[x] /\ L(x) # Absent /\ R(x) # Absent
      /\ Known(snapshot, x) /\ x \in Names
  BY <1>1, Present DEF Known, TypeOK, SnapshotType
<1>5. CASE x \notin Alone
  BY <1>2, <1>5 DEF Alone
<1>3. CASE x \in Paths \cap Alone
  BY <1>1, <1>2, <1>3 DEF Pagewise, PathOK, Honest
<1>4. CASE x \in Alone \ Paths
  <2>1. Paired(snapshot, x)
    BY <1>1, <1>2, <1>4 DEF Copies, CopyOK
  <2>2. L(x) \in Seen(x) /\ R(x) \in Seen(x)
    BY <1>2, SeenHere
  <2>3. Here(snapshot, x) = L(x).time /\ There(snapshot, x) = R(x).time
    BY <1>2 DEF Here, There
  <2> QED
    BY <1>2, <2>1, <2>2, <2>3 DEF Paired
<1> QED
  BY <1>3, <1>4, <1>5

\* A step of the engine leaves the files alone or is a write of a job, done or cut short.
LEMMA BySyncSplits ==
    ASSUME TypeOK, [Next]_vars, BySync
    PROVE  /\ ~Both /\ over' = over
           /\ \/ local' = local /\ remote' = remote
              \/ \E j \in jobs : j.at # "ready" /\ Apply(Effect(j))
<1>1. ~Both
  BY DEF BySync, Both, TypeOK
<1>2. CASE SyncFiles \/ \E x \in Paths : SyncSingleFile(x)
  BY <1>1, <1>2 DEF SyncFiles, SyncSingleFile, Begins, files
<1>3. ASSUME NEW j \in jobs, SyncFile(j)
      PROVE  /\ over' = over
             /\ \/ local' = local /\ remote' = remote
                \/ j.at # "ready" /\ Apply(Effect(j))
  <2>1. over' = over
    BY <1>3 DEF SyncFile, ghosts
  <2>2. CASE Decide(j)
    BY <2>1, <2>2 DEF Decide, files
  <2>3. CASE \/ PushFile(j) \/ PullFile(j) \/ DeleteRemote(j) \/ DeleteLocal(j)
             \/ WriteCopy(j) \/ Replace(j)
    BY <2>1, <2>3, WorkSplits DEF files
  <2> QED
    BY <1>3, <2>2, <2>3 DEF SyncFile
<1>4. ASSUME NEW j \in jobs, RequestFails(j)
      PROVE  /\ over' = over
             /\ \/ local' = local /\ remote' = remote
                \/ j.at # "ready" /\ Apply(Effect(j))
  <2>1. over' = over
    BY <1>4 DEF RequestFails, ghosts
  <2> QED
    BY <1>4, <2>1, RequestSplits DEF ToServer
<1>5. CASE Restart
  <2>1. over' = over
    BY <1>5 DEF Restart, ghosts
  <2> QED
    BY <1>1, <1>5, <2>1, RestartSplits
<1>6. ASSUME NEW p \in Pages, User(p) PROVE FALSE
  <2>1. used.edits \in Nat /\ used \in Usage
    BY DEF TypeOK, Usage
  <2>2. used'.edits = used.edits + 1
    BY <1>6, <2>1 DEF User, Put, PutProxied, Delete, DeleteProxied, RemotePut, RemoteDelete,
       RemoteTruncate, Answers, Spend, Usage
  <2> QED
    BY <2>1, <2>2 DEF BySync
<1>7. ASSUME NEW now \in SUBSET Pages, SetSyncConfig(now)
      PROVE  over' = over /\ local' = local /\ remote' = remote
  BY <1>7 DEF SetSyncConfig, files, ghosts
<1>8. CASE UNCHANGED vars
  BY <1>1, <1>8 DEF vars, files, ghosts
<1> QED
  BY <1>1, <1>2, <1>3, <1>4, <1>5, <1>6, <1>7, <1>8 DEF Next

\* A body is kept by any file that has it or was written over it.
LEMMA KeptAt ==
    ASSUME NEW w, NEW y, NEW f, f # Absent, L(y)' = f \/ R(y)' = f, f.body = w \/ w \in over[f.body]
    PROVE  Kept(w, local', remote')
<1>1. /\ \A x \in DOMAIN local' : L(x)' = local'[x]
      /\ \A x : x \notin DOMAIN local' => L(x)' = Absent
      /\ \A x \in DOMAIN remote' : R(x)' = remote'[x]
      /\ \A x : x \notin DOMAIN remote' => R(x)' = Absent
  BY DEF L, R, At
<1>2. f \in Range(local') \cup Range(remote')
  BY <1>1 DEF Range
<1> QED
  BY <1>2 DEF Kept

\* What EditsSurvive asks of a page.
Surviving(x) ==
    /\ Discards(x, local, remote) =>
          local[x].body \in exposed \/ x \in Deleted \/ x[1] \in StdPages
    /\ Discards(x, remote, local) =>
          remote[x].body \in exposed \/ x \in Deleted \/ x \in snapshot.nonSynced

\* A side that is left alone discards nothing.
LEMMA KeptWhereItWas ==
    ASSUME TypeOK, NEW x
    PROVE  /\ L(x)' = L(x) => ~Discards(x, local, remote)
           /\ R(x)' = R(x) => ~Discards(x, remote, local)
<1>1. ASSUME x \in DOMAIN local, L(x)' = L(x) PROVE Kept(local[x].body, local', remote')
  <2>1. L(x) = local[x] /\ L(x) # Absent
    BY <1>1, Present
  <2> QED
    BY <1>1, <2>1, KeptAt
<1>2. ASSUME x \in DOMAIN remote, R(x)' = R(x) PROVE Kept(remote[x].body, local', remote')
  <2>1. R(x) = remote[x] /\ R(x) # Absent
    BY <1>2, Present
  <2> QED
    BY <1>2, <2>1, KeptAt
<1> QED
  BY <1>1, <1>2 DEF Discards

\* What a job's write takes away was written over, is in the copy, or is excused.
LEMMA WritesSurvive ==
    ASSUME IInv, NEW j \in jobs, j.at # "ready", Apply(Effect(j)), ~Both,
           NEW x \in Paths \cap Alone
    PROVE  /\ Surviving(x)
           /\ x \in DOMAIN remote /\ x \notin DOMAIN remote' => x \in Deleted
<1>1. TypeOK /\ OneJob /\ Pagewise /\ Copies /\ JobType(j)
  BY DEF IInv, TypeOK
<1>2. /\ x # Copy(j) /\ j.path # Copy(j) /\ Copy(j) \in Names \ Paths
      /\ L(x)' = NewL(j, x) /\ R(x)' = NewR(j, x)
      /\ L(Copy(j))' = NewL(j, Copy(j)) /\ R(Copy(j))' = NewR(j, Copy(j))
  BY <1>1, CopyName, EffectAt
<1>3. Excuse(x) => x \in Deleted
  BY DEF Excuse
<1>4. /\ L(x)' = L(x) => ~Discards(x, local, remote)
      /\ R(x)' = R(x) => ~Discards(x, remote, local)
      /\ R(x)' # Absent => x \in DOMAIN remote'
  BY <1>1, KeptWhereItWas DEF R, At
<1>5. /\ x \in DOMAIN local <=> L(x) # Absent
      /\ x \in DOMAIN remote <=> R(x) # Absent
      /\ x \in DOMAIN local => local[x] = L(x)
      /\ x \in DOMAIN remote => remote[x] = R(x)
  BY <1>1, Present
<1>6. CASE x # j.path \/ j.at \in {"resolve", "copy"}
  <2>1. L(x)' = L(x) /\ R(x)' = R(x)
    BY <1>2, <1>6 DEF NewL, NewR
  <2> QED
    BY <1>4, <1>5, <2>1 DEF Surviving
<1>7. CASE x = j.path /\ j.at \notin {"resolve", "copy"}
  <2>1. JobOK(j)
    BY <1>1, <1>7 DEF Pagewise
  <2>2. CASE j.at = "push"
    <3>1. L(x)' = L(x) /\ R(x)' = j.d /\ j.d # Absent
      BY <1>1, <1>2, <1>7, <2>2 DEF NewL, NewR, JobType
    <3>2. R(x) # Absent =>
             \/ R(x).body \in over[j.d.body] \cup {j.d.body} \/ R(x).body \in exposed
             \/ x \in Deleted \/ x \in snapshot.nonSynced
      BY <1>3, <1>7, <2>1, <2>2 DEF JobOK, Covers, Over
    <3>3. ASSUME R(x).body \in over[j.d.body] \cup {j.d.body}
          PROVE  Kept(R(x).body, local', remote')
      BY <3>1, <3>3, KeptAt
    <3> QED
      BY <1>4, <1>5, <3>1, <3>2, <3>3 DEF Surviving, Discards
  <2>3. CASE j.at \in {"pull", "theirs"}
    <3>1. R(x)' = R(x) /\ L(x)' = j.e /\ j.e # Absent
      BY <1>1, <1>2, <1>7, <2>3 DEF NewL, NewR, JobType
    <3>2. L(x) # Absent =>
             \/ L(x).body \in over[j.e.body] \cup {j.e.body} \/ L(x).body \in exposed
             \/ x \in Deleted \/ x[1] \in StdPages
      BY <1>1, <1>3, <1>7, <2>1, <2>3 DEF JobOK, JobType, Covers, Over
    <3>3. ASSUME L(x).body \in over[j.e.body] \cup {j.e.body}
          PROVE  Kept(L(x).body, local', remote')
      BY <3>1, <3>3, KeptAt
    <3> QED
      BY <1>4, <1>5, <3>1, <3>2, <3>3 DEF Surviving, Discards
  <2>4. CASE j.at \in {"dropRemote", "drop"}
    BY <1>3, <1>7, <2>1, <2>4 DEF JobOK, Surviving
  <2>5. CASE j.at \in {"outdate", "unsync"}
    <3>1. R(x)' = R(x)
      BY <1>2, <1>7, <2>5 DEF NewR
    <3>2. L(x) # Absent =>
             \/ R(x) # Absent /\ L(x).body \in over[R(x).body] \cup {R(x).body}
             \/ L(x).body \in exposed \/ x \in Deleted
      BY <1>3, <1>7, <2>1, <2>5 DEF JobOK, Covers, Over
    <3>3. ASSUME R(x) # Absent, L(x).body \in over[R(x).body] \cup {R(x).body}
          PROVE  Kept(L(x).body, local', remote')
      BY <3>1, <3>3, KeptAt
    <3> QED
      BY <1>4, <1>5, <3>1, <3>2, <3>3 DEF Surviving, Discards
  <2>6. CASE j.at = "replace"
    <3> DEFINE z == Copy(j)
    <3>1. L(x)' = L(x) /\ L(z)' = L(z) /\ R(z)' = R(z) /\ j.e \in Versions
      BY <1>1, <1>2, <1>7, <2>6 DEF NewL, NewR, JobType
    <3>2. R(x)' # Absent
      <4>1. R(x)' = [body |-> j.d.body, time |-> clock + 1] /\ j.d \in Versions
        BY <1>1, <1>2, <1>7, <2>6 DEF NewR, JobType
      <4>2. j.d.body # 0
        BY <1>1, <4>1 DEF Versions, TypeOK
      <4> QED
        BY <4>1, <4>2 DEF Absent
    <3>3. L(z).body = j.e.body \/ R(z).body = j.e.body
      BY <1>1, <1>7, <2>6 DEF Copies, Copying
    <3> HIDE DEF z
    <3>4. Kept(j.e.body, local', remote')
      <4>1. j.e.body # 0
        BY <1>1, <3>1 DEF Versions, TypeOK
      <4>2. CASE L(z).body = j.e.body
        <5>1. L(z) # Absent
          BY <4>1, <4>2 DEF Absent
        <5> QED
          BY <3>1, <4>2, <5>1, KeptAt
      <4>3. CASE R(z).body = j.e.body
        <5>1. R(z) # Absent
          BY <4>1, <4>3 DEF Absent
        <5> QED
          BY <3>1, <4>3, <5>1, KeptAt
      <4> QED
        BY <3>3, <4>2, <4>3
    <3>5. R(x) = j.e \/ R(x) = Absent \/ R(x).body \in exposed
      BY <1>7, <2>1, <2>6 DEF JobOK, SinceR
    <3> QED
      BY <1>4, <1>5, <3>1, <3>2, <3>4, <3>5 DEF Surviving, Discards
  <2> QED
    BY <1>1, <1>7, <2>2, <2>3, <2>4, <2>5, <2>6 DEF JobType, Ats
<1> QED
  BY <1>6, <1>7

\* A step of the engine discards nothing but what is excused.
LEMMA BySyncSurvives ==
    ASSUME IInv, [Next]_vars, BySync, NEW x \in Paths \cap Alone
    PROVE  /\ Surviving(x)
           /\ x \in DOMAIN remote /\ x \notin DOMAIN remote' => x \in Deleted
<1>1. /\ TypeOK /\ ~Both
      /\ \/ local' = local /\ remote' = remote
         \/ \E j \in jobs : j.at # "ready" /\ Apply(Effect(j))
  BY BySyncSplits DEF IInv
<1>2. CASE local' = local /\ remote' = remote
  <2>1. ~Discards(x, local, remote) /\ ~Discards(x, remote, local)
    BY <1>1, <1>2, KeptWhereItWas, LocalSame, RemoteSame
  <2> QED
    BY <1>2, <2>1 DEF Surviving
<1>3. ASSUME NEW j \in jobs, j.at # "ready", Apply(Effect(j))
      PROVE  /\ Surviving(x)
             /\ x \in DOMAIN remote /\ x \notin DOMAIN remote' => x \in Deleted
  BY <1>1, <1>3, WritesSurvive
<1> QED
  BY <1>1, <1>2, <1>3

\* Where the snapshot says a file is as it was last synced, both sides have the same
\* content, but for one truncated without a change of its time, and for pages on which a
\* new operation met the calls a failed one left behind.
THEOREM SyncedRecordsAreHonest == Spec => []SnapshotIsHonest
BY InitIInv, NextIInv, Honesty, PTL DEF Spec

\* Of any other page no step of the engine takes the last trace of a version away,
\* unless a user deleted the file, the version was written while a sync held older
\* metadata of it, the page is of Library/Std, or the file is not kept here.
THEOREM VersionsSurvive == Spec => EditsSurvive
<1>1. ASSUME IInv, [Next]_vars, BySync
      PROVE  \A x \in {y \in Paths : ~Crowded(y)} :
                /\ Discards(x, local, remote) =>
                      local[x].body \in exposed \/ x \in Deleted \/ x[1] \in StdPages
                /\ Discards(x, remote, local) =>
                      remote[x].body \in exposed \/ x \in Deleted \/ x \in snapshot.nonSynced
  BY <1>1, BySyncSurvives, PathNames DEF Surviving, Alone
<1>2. IInv /\ [Next]_vars =>
        [BySync => \A x \in {y \in Paths : ~Crowded(y)} :
            /\ Discards(x, local, remote) =>
                  local[x].body \in exposed \/ x \in Deleted \/ x[1] \in StdPages
            /\ Discards(x, remote, local) =>
                  remote[x].body \in exposed \/ x \in Deleted \/ x \in snapshot.nonSynced]_vars
  BY <1>1
<1> QED
  BY <1>2, InitIInv, NextIInv, PTL DEF Spec, EditsSurvive

\* The engine deletes a page of the server only if a user deleted it, or a new operation
\* met, at the page, the calls a failed one left behind.
THEOREM DeletionsWereAsked == Spec => DeletesWereAsked
<1>1. ASSUME IInv, [Next]_vars, BySync
      PROVE  \A x \in Paths \cap (DOMAIN remote \ DOMAIN remote') : x \in Deleted \/ Crowded(x)
  BY <1>1, BySyncSurvives, PathNames DEF Alone
<1>2. IInv /\ [Next]_vars =>
        [BySync => \A x \in Paths \cap (DOMAIN remote \ DOMAIN remote') :
                      x \in Deleted \/ Crowded(x)]_vars
  BY <1>1
<1> QED
  BY <1>2, InitIInv, NextIInv, PTL DEF Spec, DeletesWereAsked
========================================
