------------------------------ MODULE SpaceSync ------------------------------
(***************************************************************************)
(* The sync engine of the SilverBullet client: a service worker keeps the   *)
(* browser's copy of a space (the primary) and the server's (the secondary) *)
(* in step by comparing the last-modified times of every file with those of *)
(* a snapshot (spaces/sync.ts, service_worker/sync_engine.ts), while it     *)
(* answers the editor's own requests from the local copy                    *)
(* (service_worker/proxy_router.ts).                                        *)
(*                                                                          *)
(* A file is [body, time].  Every write by a user makes a body nobody wrote *)
(* before; the metadata of a file (time and size) is the file itself, two   *)
(* different bodies having different sizes.  A path is <<page>>, and        *)
(* <<page, t>> is the conflicting copy made of the version of time t.  The   *)
(* limit of three paths handled at once is left out: any may be.            *)
(***************************************************************************)
EXTENDS Naturals, FiniteSets, Sequences, Functions

CONSTANTS
    Pages,        \* the pages users edit
    StdPages,     \* the ones under Library/Std, whose conflicts the server wins
    MaxEdits,     \* bound: writes, truncations and deletions by users
    MaxTroubles,  \* bound: changes of what is synced, edits made offline, failed requests
                  \* to the server and deaths of the worker, together
    MaxOverlaps   \* bound: operations begun while calls of a failed one go on

ASSUME SyncAssumption ==
    /\ StdPages \subseteq Pages
    /\ {MaxEdits, MaxTroubles, MaxOverlaps} \subseteq Nat

VARIABLES
    local,     \* the files of the browser's database, by path
    remote,    \* the files of the server, by path
    snapshot,  \* the engine's snapshot: files (a pair of times by path), nonSynced
    saved,     \* the snapshot in the browser's database
    accepted,  \* the pages the configuration says are synced
    syncing,   \* isSyncing
    jobs,      \* the calls of syncFile under way
    confirmed, \* fullSyncConfirmed: requests are answered from the local copy
    clock,     \* the last time, and the last body, used
    used,      \* how much of each bound is used
    over,      \* of each body, the bodies its writer had before him (ghost)
    gone,      \* the bodies a user deleted (ghost)
    exposed,   \* the bodies written while a job held older metadata, or without a
               \* change of time (ghost)
    crowded    \* the pages an operation began on while a call of an earlier one that
               \* failed was still at them or at copies of them (ghost)

files == <<local, remote, clock>>
ghosts == <<over, gone, exposed, crowded>>
vars == <<files, snapshot, saved, accepted, syncing, jobs, confirmed, used, ghosts>>

Absent == [body |-> 0, time |-> 0]
At(space, x) == IF x \in DOMAIN space THEN space[x] ELSE Absent
Stored(space, x, f) == [y \in DOMAIN space \cup {x} |-> IF y = x THEN f ELSE space[y]]
Without(space, x) == Restrict(space, DOMAIN space \ {x})
Empty == [files |-> <<>>, nonSynced |-> {}]

Spend(what, max) == used[what] < max /\ used' = [used EXCEPT ![what] = @ + 1]

Calm == used.configs + used.offline + used.faults < MaxTroubles
Trouble(what) == Calm /\ Spend(what, MaxTroubles)

Paths == {<<p>> : p \in Pages}
IsSyncCandidate(x) == x[1] \in accepted

(***************************************************************************)
(* The snapshot                                                            *)
(***************************************************************************)
RecordedNot(snap, x, a, b) == snap \* mutant: a pair is never recorded
Recorded(snap, x, a, b) ==
    [files |-> Stored(snap.files, x, <<a, b>>), nonSynced |-> snap.nonSynced \ {x}]

\* The resolver records a pair without touching nonSyncedFiles.
Matched(snap, x, a, b) == [snap EXCEPT !.files = Stored(@, x, <<a, b>>)]

Noted(snap, x, t) ==
    [files |-> Stored(snap.files, x, <<t, t>>), nonSynced |-> snap.nonSynced \cup {x}]

MarkedNot(snap, x) == snap \* mutant: a copy dropped here is not noted
Marked(snap, x) == [snap EXCEPT !.nonSynced = @ \cup {x}]

Forgotten(snap, x) ==
    [files |-> Without(snap.files, x), nonSynced |-> snap.nonSynced \ {x}]

(***************************************************************************)
(* What syncFile does with a path, from the metadata it was handed and the  *)
(* snapshot as it is then.                                                 *)
(***************************************************************************)
Plan(j) ==
    LET here   == j.p # Absent
        there  == j.s # Absent
        known  == j.path \in DOMAIN snapshot.files
        unsynced == j.path \in snapshot.nonSynced
        edited == known /\ j.p.time # snapshot.files[j.path][1]
        moved  == known /\ j.s.time # snapshot.files[j.path][2]
    IN  IF ~here
        THEN CASE there /\ (~known \/ (unsynced /\ j.back)) ->
                      IF j.back THEN "pull" ELSE "note"
               [] there /\ known /\ ~unsynced /\ j.back -> "dropRemote"
               [] there /\ known /\ ~j.back -> "mark"
               [] ~there /\ known -> "forget"
               [] OTHER -> "rest"
        ELSE IF ~there
        THEN CASE ~known -> "push"
               [] known /\ ~j.back -> "dropQuietly"
               [] known /\ j.back /\ unsynced -> "forget"
               [] OTHER -> "drop"
        ELSE CASE edited /\ ~moved -> "push"
               [] moved /\ ~edited -> IF j.back THEN "pull" ELSE "outdate"
               [] ~known \/ (edited /\ moved) ->
                      IF j.path[1] \in StdPages THEN "theirs" ELSE "resolve"
               [] OTHER -> IF ~j.back THEN "unsync"
                           ELSE IF j.p.body # j.s.body
                           THEN IF j.path[1] \in StdPages THEN "theirs" ELSE "resolve"
                           ELSE "rest"

(***************************************************************************)
(* Ending a job.  syncProgress saves the snapshot after every path that     *)
(* took an operation, snapshotUpdated when the whole cycle ends, well or    *)
(* not; a single-file sync saves only when it did something.                *)
(***************************************************************************)
Mine(j) == {k \in jobs \ {j} : ~k.left}

Finish(j, snap, worked) ==
    /\ snapshot' = snap
    /\ jobs' = jobs \ {j}
    /\ syncing' = IF j.left THEN syncing ELSE Mine(j) # {}
    /\ confirmed' = (confirmed \/ (~j.single /\ ~j.left /\ ~syncing'))
    /\ saved' = IF worked \/ (~j.single /\ ~syncing' /\ ~j.left) THEN snap ELSE saved

\* Mutant: an error leaves the mutex taken.
FailLocked(j) ==
    /\ jobs' = IF j.left THEN jobs \ {j} ELSE {[k EXCEPT !.left = TRUE] : k \in jobs \ {j}}
    /\ saved' = IF j.single \/ j.left THEN saved ELSE snapshot
    /\ UNCHANGED <<snapshot, syncing, confirmed>>

\* An error ends the whole operation; the calls already under way go on.
Fail(j) ==
    /\ jobs' = IF j.left THEN jobs \ {j} ELSE {[k EXCEPT !.left = TRUE] : k \in jobs \ {j}}
    /\ syncing' = (j.left /\ syncing)
    /\ saved' = IF j.single \/ j.left THEN saved ELSE snapshot
    /\ UNCHANGED <<snapshot, confirmed>>

Move(j, next) ==
    /\ jobs' = (jobs \ {j}) \cup {next}
    /\ UNCHANGED <<saved, syncing, confirmed>>

(***************************************************************************)
(* The calls a job makes.  Decide runs up to the first write: the branch,   *)
(* the reads, and what syncFile changes in the snapshot beforehand.  Effect *)
(* is what the next write does to the two spaces.                          *)
(***************************************************************************)
Copy(j) == Append(j.path, j.e.time)

Effect(j) ==
    LET copied == [body |-> j.e.body, time |-> clock + 1]
        ours   == [body |-> j.d.body, time |-> clock + 1]
    IN  CASE j.at = "push"       -> <<local, Stored(remote, j.path, j.d), clock>>
          [] j.at \in {"pull", "theirs"} -> <<Stored(local, j.path, j.e), remote, clock>>
          [] j.at = "dropRemote" -> <<local, Without(remote, j.path), clock>>
          [] j.at = "resolve"    -> <<Stored(local, Copy(j), copied), remote, clock + 1>>
          [] j.at = "copy"       -> <<local, Stored(remote, Copy(j), copied), clock + 1>>
          [] j.at = "replace"    -> <<local, Stored(remote, j.path, ours), clock + 1>>
          [] OTHER               -> <<Without(local, j.path), remote, clock>>

Apply(to) == local' = to[1] /\ remote' = to[2] /\ clock' = to[3]

Reads(plan) ==
    CASE plan = "push" -> {"local"}
      [] plan \in {"pull", "theirs"} -> {"remote"}
      [] plan = "resolve" -> {"local", "remote"}
      [] OTHER -> {}

ReadFails(j, plan) ==
    \/ "local" \in Reads(plan) /\ j.path \notin DOMAIN local
    \/ "remote" \in Reads(plan) /\ j.path \notin DOMAIN remote

Decide(j) ==
    LET plan == Plan(j)
        d == At(local, j.path)
        e == At(remote, j.path)
        next == [j EXCEPT !.at = plan,
                          !.d = IF "local" \in Reads(plan) THEN d ELSE Absent,
                          !.e = IF "remote" \in Reads(plan) THEN e ELSE Absent,
                          !.p = Absent, !.s = Absent]
    IN  /\ j.at = "ready"
        /\ \/ plan = "rest" /\ Finish(j, snapshot, FALSE)
           \/ plan = "note" /\ Finish(j, Noted(snapshot, j.path, j.s.time), FALSE)
           \/ plan = "mark" /\ Finish(j, Marked(snapshot, j.path), FALSE)
           \/ plan = "forget" /\ Finish(j, Forgotten(snapshot, j.path), TRUE)
           \/ plan = "drop" /\ snapshot' = Forgotten(snapshot, j.path) /\ Move(j, next)
           \/ plan = "outdate" /\ snapshot' = Noted(snapshot, j.path, j.s.time) /\ Move(j, next)
           \/ ReadFails(j, plan) /\ Fail(j)
           \/ /\ plan = "resolve" /\ ~ReadFails(j, plan) /\ d.body = e.body
              /\ Finish(j, Matched(snapshot, j.path, d.time, e.time), FALSE)
           \/ /\ plan \in {"push", "pull", "theirs", "resolve", "dropRemote", "dropQuietly", "unsync"}
              /\ ~ReadFails(j, plan)
              /\ plan = "resolve" => d.body # e.body
              /\ Move(j, next) /\ UNCHANGED snapshot
        /\ UNCHANGED files

\* Mutant: the times recorded are the ones the two files have after the write.
PushFileThenStat(j) ==
    /\ j.at = "push"
    /\ Apply(Effect(j))
    /\ Finish(j, Recorded(snapshot, j.path, At(local, j.path).time, j.d.time), TRUE)

PushFile(j) ==
    /\ j.at = "push"
    /\ Apply(Effect(j))
    /\ Finish(j, Recorded(snapshot, j.path, j.d.time, j.d.time), TRUE)

PullFile(j) ==
    /\ j.at \in {"pull", "theirs"}
    /\ Apply(Effect(j))
    /\ Finish(j, IF j.at = "pull" THEN Recorded(snapshot, j.path, j.e.time, j.e.time)
                 ELSE Matched(snapshot, j.path, j.e.time, j.e.time), TRUE)

\* deleteFile throws when there is no such file.
DeleteRemote(j) ==
    /\ j.at = "dropRemote"
    /\ IF j.path \in DOMAIN remote
       THEN Apply(Effect(j)) /\ Finish(j, Forgotten(snapshot, j.path), TRUE)
       ELSE Fail(j) /\ UNCHANGED files

DeleteLocal(j) ==
    LET here == j.path \in DOMAIN local
        after == CASE j.at = "dropQuietly" -> Forgotten(snapshot, j.path)
                   [] j.at = "unsync" -> Marked(snapshot, j.path)
                   [] OTHER -> snapshot
    IN  /\ j.at \in {"drop", "dropQuietly", "outdate", "unsync"}
        /\ IF here \/ j.at \in {"dropQuietly", "outdate"}
           THEN Apply(Effect(j)) /\ Finish(j, after, here)
           ELSE Fail(j) /\ UNCHANGED files

\* Mutant: the local version replaces the other without a copy.
WriteCopyNone(j) ==
    /\ j.at \in {"resolve", "copy"}
    /\ Move(j, [j EXCEPT !.at = "replace", !.s.time = clock, !.p.time = clock])
    /\ UNCHANGED <<files, snapshot>>

\* primaryConflictResolver: the server's version into a conflicting copy, here
\* and there, then the local version over it.
WriteCopy(j) ==
    /\ j.at \in {"resolve", "copy"}
    /\ Apply(Effect(j))
    /\ Move(j, IF j.at = "resolve" THEN [j EXCEPT !.at = "copy", !.s.time = clock + 1]
               ELSE [j EXCEPT !.at = "replace", !.p.time = clock + 1])
    /\ UNCHANGED snapshot

Replace(j) ==
    /\ j.at = "replace"
    /\ Apply(Effect(j))
    /\ Finish(j, Matched(Matched(snapshot, Copy(j), j.s.time, j.p.time),
                         j.path, j.d.time, clock + 1), TRUE)

(***************************************************************************)
(* Starting an operation                                                   *)
(***************************************************************************)
Job(x, back, single) ==
    [path |-> x, back |-> back, single |-> single, left |-> FALSE, no |-> used'.overlaps,
     at |-> "ready",
     p |-> At(local, x), s |-> At(remote, x), d |-> Absent, e |-> Absent]

\* The mutex is free.  A failed operation frees it before its calls have ended, and
\* the next one may come to the pages these are at.
Begins(paths) ==
    /\ ~syncing
    /\ IF jobs = {} THEN UNCHANGED used ELSE Spend("overlaps", MaxOverlaps)
    /\ crowded' = crowded \cup ({j.path[1] : j \in jobs} \cap {x[1] : x \in paths})
    /\ UNCHANGED <<over, gone, exposed>>

SyncFiles ==
    /\ LET all == DOMAIN snapshot.files \cup DOMAIN local \cup DOMAIN remote
           back(x) == ~(x \in DOMAIN remote /\ ~IsSyncCandidate(x))
       IN  /\ Begins(all)
           /\ jobs' = jobs \cup {Job(x, back(x), FALSE) : x \in all}
           /\ syncing' = (all # {})
           /\ saved' = IF all = {} THEN snapshot ELSE saved
           /\ confirmed' = (confirmed \/ all = {})
    /\ UNCHANGED <<files, snapshot, accepted>>

\* After every write of the editor, for the file it watches, and on request.
SyncSingleFile(x) ==
    /\ Begins({x})
    /\ x \notin snapshot.nonSynced
    /\ jobs' = jobs \cup {Job(x, TRUE, TRUE)}
    /\ syncing' = TRUE
    /\ UNCHANGED <<files, snapshot, saved, accepted, confirmed>>

SyncFile(j) ==
    /\ \/ Decide(j) \/ PushFile(j) \/ PullFile(j) \/ DeleteRemote(j) \/ DeleteLocal(j)
       \/ WriteCopy(j) \/ Replace(j)
    /\ UNCHANGED <<accepted, used, ghosts>>

(***************************************************************************)
(* Users                                                                   *)
(***************************************************************************)
\* A user writes x on one side, over what is there.
Authored(space, x, silently) ==
    LET old == At(space, x)
    IN  /\ clock' = clock + 1
        /\ over' = Stored(over, clock + 1,
                          IF old = Absent THEN {} ELSE over[old.body] \cup {old.body})
        /\ exposed' = IF silently \/ \E j \in jobs : j.path = x
                       THEN exposed \cup {clock + 1} ELSE exposed
        /\ UNCHANGED <<gone, crowded>>

Engine == <<snapshot, saved, accepted, syncing, jobs, confirmed>>

\* The local copy answers once a full sync was confirmed, or while offline.
Answers(offline) ==
    /\ offline \/ confirmed
    /\ offline => Calm
    /\ used.edits < MaxEdits
    /\ used' = [used EXCEPT !.edits = @ + 1, !.offline = IF offline THEN @ + 1 ELSE @]

\* handlePut, the local branch: a synced file, or any file while offline.
Put(p, offline) ==
    /\ Answers(offline)
    /\ offline \/ IsSyncCandidate(<<p>>)
    /\ Authored(local, <<p>>, FALSE)
    /\ local' = Stored(local, <<p>>, [body |-> clock + 1, time |-> clock + 1])
    /\ UNCHANGED <<remote, Engine>>

\* handlePut, the branch of a file that is not synced: straight to the server.
PutProxied(p) ==
    /\ Answers(FALSE)
    /\ ~IsSyncCandidate(<<p>>)
    /\ Authored(remote, <<p>>, FALSE)
    /\ remote' = Stored(remote, <<p>>, [body |-> clock + 1, time |-> clock + 1])
    /\ snapshot' = Marked(snapshot, <<p>>)
    /\ UNCHANGED <<local, saved, accepted, syncing, jobs, confirmed>>

\* handleDelete.
Delete(p, offline) ==
    /\ Answers(offline)
    /\ IsSyncCandidate(<<p>>) /\ <<p>> \in DOMAIN local
    /\ local' = Without(local, <<p>>)
    /\ gone' = gone \cup {[side |-> "local", path |-> <<p>>, body |-> local[<<p>>].body]}
    /\ UNCHANGED <<remote, Engine, clock, over, exposed, crowded>>

DeleteProxied(p) ==
    /\ Answers(FALSE)
    /\ ~IsSyncCandidate(<<p>>) /\ <<p>> \in DOMAIN remote
    /\ remote' = Without(remote, <<p>>)
    /\ snapshot' = [snapshot EXCEPT !.nonSynced = @ \ {<<p>>}]
    /\ gone' = gone \cup {[side |-> "remote", path |-> <<p>>, body |-> remote[<<p>>].body]}
    /\ UNCHANGED <<local, saved, accepted, syncing, jobs, confirmed, clock, over, exposed, crowded>>

\* Another client, or this one before its first full sync.
RemotePut(p) ==
    /\ Spend("edits", MaxEdits)
    /\ Authored(remote, <<p>>, FALSE)
    /\ remote' = Stored(remote, <<p>>, [body |-> clock + 1, time |-> clock + 1])
    /\ UNCHANGED <<local, Engine>>

RemoteDelete(p) ==
    /\ <<p>> \in DOMAIN remote
    /\ Spend("edits", MaxEdits)
    /\ remote' = Without(remote, <<p>>)
    /\ gone' = gone \cup {[side |-> "remote", path |-> <<p>>, body |-> remote[<<p>>].body]}
    /\ UNCHANGED <<local, Engine, clock, over, exposed, crowded>>

\* The content changes and the time does not.
RemoteTruncate(p) ==
    /\ <<p>> \in DOMAIN remote
    /\ Spend("edits", MaxEdits)
    /\ Authored(remote, <<p>>, TRUE)
    /\ remote' = [remote EXCEPT ![<<p>>].body = clock + 1]
    /\ UNCHANGED <<local, Engine>>

(***************************************************************************)
(* Configuration, failures, restarts                                       *)
(***************************************************************************)
SetSyncConfig(now) ==
    /\ now # accepted
    /\ Trouble("configs")
    /\ accepted' = now
    /\ UNCHANGED <<files, snapshot, saved, syncing, jobs, confirmed, ghosts>>

ToServer == {"push", "dropRemote", "copy", "replace"}

\* A request of a job fails, before or after the server acted on it.
RequestFails(j) ==
    /\ Trouble("faults")
    /\ \/ j.at \in ToServer /\ \E to \in {files, Effect(j)} : Apply(to)
       \/ j.at = "ready" /\ "remote" \in Reads(Plan(j)) /\ UNCHANGED files
    /\ Fail(j)
    /\ UNCHANGED <<accepted, ghosts>>

\* The worker dies, perhaps with a write done and not recorded; the next one
\* starts from the saved snapshot (start, configure).
Restart ==
    /\ Trouble("faults")
    /\ \E to \in {files} \cup {Effect(j) : j \in {k \in jobs : k.at # "ready"}} : Apply(to)
    /\ snapshot' = saved
    /\ jobs' = {} /\ syncing' = FALSE
    /\ confirmed' = (DOMAIN saved.files # {})
    /\ UNCHANGED <<saved, accepted, ghosts>>

(***************************************************************************)
(* A client already in step with the server, or one that just started.     *)
(***************************************************************************)
InitialFiles == [x \in Paths |-> [body |-> 1, time |-> 1]]

Init ==
    /\ remote = InitialFiles
    /\ \/ local = remote /\ snapshot = [files |-> [x \in Paths |-> <<1, 1>>], nonSynced |-> {}]
       \/ local = <<>> /\ snapshot = Empty
    /\ saved = snapshot
    /\ accepted = Pages
    /\ confirmed = (local # <<>>)
    /\ syncing = FALSE /\ jobs = {}
    /\ clock = 1
    /\ used = [edits |-> 0, configs |-> 0, offline |-> 0, faults |-> 0, overlaps |-> 0]
    /\ over = [body \in {1} |-> {}] /\ gone = {} /\ exposed = {} /\ crowded = {}

User(p) ==
    \/ \E offline \in BOOLEAN : Put(p, offline) \/ Delete(p, offline)
    \/ PutProxied(p) \/ DeleteProxied(p)
    \/ RemotePut(p) \/ RemoteDelete(p) \/ RemoteTruncate(p)

Next ==
    \/ SyncFiles
    \/ \E x \in Paths : SyncSingleFile(x)
    \/ \E j \in jobs : SyncFile(j) \/ RequestFails(j)
    \/ \E p \in Pages : User(p)
    \/ \E now \in SUBSET Pages : SetSyncConfig(now)
    \/ Restart

\* run() starts a cycle forever; single syncs are short and far apart, so it
\* finds the mutex free again and again, and takes it.  The calls of an operation
\* go on, and so do those a failed one left behind.
Spec ==
    /\ Init /\ [][Next]_vars
    /\ SF_vars(SyncFiles)
    /\ WF_vars(\E j \in jobs : ~j.left /\ SyncFile(j))
    /\ WF_vars(\E j \in jobs : j.left /\ SyncFile(j))

(***************************************************************************)
(* Properties                                                              *)
(***************************************************************************)
\* A step of the engine.  A worker that dies between deleting a local copy that
\* is no longer to be kept and recording it is left out (see the README): what is
\* synced changes, or a fault happens, not both.
BySync ==
    /\ used.faults = 0 \/ used.configs = 0
    /\ used'.edits = used.edits

\* Body w is somewhere, or somebody who had it wrote over it.
Kept(w, L, R) ==
    \E f \in Range(L) \cup Range(R) : f.body = w \/ w \in over[f.body]

Discards(x, mine, theirs) ==
    x \in DOMAIN mine /\ ~Kept(mine[x].body, local', remote')

\* A file truncated without a change of its time.
Silent(f) == f.body > f.time

Deleted == {g.path : g \in gone}
Crowded(x) == x[1] \in crowded

\* A version somebody wrote leaves a space only for one written over it, unless
\* the file was deleted by a user, or the version was written while a
\* sync already held the metadata of the file, the page is of Library/Std,
\* or the file is not kept here and was written offline, unseen.  Not so of a
\* page that is crowded: calls of two operations were at it at a time.
EditsSurvive ==
    [][BySync => \A x \in {y \in Paths : ~Crowded(y)} :
        /\ Discards(x, local, remote) =>
              local[x].body \in exposed \/ x \in Deleted \/ x[1] \in StdPages
        /\ Discards(x, remote, local) =>
              remote[x].body \in exposed \/ x \in Deleted \/ x \in snapshot.nonSynced]_vars

\* The same without the allowance for edits made during a sync.
ConflictKeepsBoth ==
    [][BySync => \A x \in Paths \ {<<p>> : p \in StdPages} :
        /\ Discards(x, local, remote) => x \in Deleted
        /\ Discards(x, remote, local) => x \in Deleted \/ Silent(remote[x])]_vars

\* Sync deletes a file of the server only if a user deleted the file, or the
\* page is crowded.
DeletesWereAsked ==
    [][BySync => \A x \in Paths \cap (DOMAIN remote \ DOMAIN remote') :
                    x \in Deleted \/ Crowded(x)]_vars

\* The same of every page, as a mutex that lets one operation in at a time would have it.
AllDeletesWereAsked ==
    [][BySync => Paths \cap (DOMAIN remote \ DOMAIN remote') \subseteq Deleted]_vars

\* Where the snapshot says a file is as it was last synced, both sides have the
\* same content, but for one truncated without a change of its time, and for
\* crowded pages.
SnapshotIsHonest ==
    \A x \in DOMAIN snapshot.files \cap DOMAIN local \cap DOMAIN remote :
        snapshot.files[x] = <<local[x].time, remote[x].time>> =>
            \/ local[x].body = remote[x].body
            \/ Silent(remote[x])
            \/ Crowded(x)

\* Once edits stop, every local file is the server's, every synced file of the server
\* is here, and the listing the editor gets names all of them.
Converged ==
    /\ \A x \in DOMAIN local : At(remote, x).body = local[x].body
    /\ \A x \in DOMAIN remote : IsSyncCandidate(x) => x \in DOMAIN local
    /\ DOMAIN remote \subseteq DOMAIN local \cup snapshot.nonSynced
Converges == <>[]Converged

\* What a user deleted does not come back, unless a request of a sync or the worker failed,
\* what is synced was changed, or the page is crowded.
DeletionsStick ==
    <>[](used.faults = 0 /\ used.configs = 0 =>
           \A g \in {h \in gone : ~Crowded(h.path)} :
               g.body \notin {At(local, g.path).body, At(remote, g.path).body})
=============================================================================
