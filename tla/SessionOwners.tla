----------------------------- MODULE SessionOwners -----------------------------
(***************************************************************************)
(* How the session service (src/agentplatform) gets, keeps and gives up    *)
(* the owner of a native session: selectSession resumes one, createSession *)
(* makes one, Close ends them all.  Each request that gets past its first  *)
(* section under Server.mu is an attempt with an owner object of its own;  *)
(* the provider calls in between run without any lock.  SessionService     *)
(* takes the result (a session has one owner until the process ends) as    *)
(* its SelectSession step, but for the race of a creation with a selection *)
(* that the properties below describe.                                     *)
(***************************************************************************)
EXTENDS Naturals, FiniteSets

CONSTANTS
    Sessions,        \* native session identifiers
    Initial,         \* the sessions that exist when the service starts
    Owners,          \* attempts, each with its `managed' object and client
    NoOwner, NoSession,
    Limit            \* 32 in the code

ASSUME OwnersAssumption ==
    /\ Initial \subseteq Sessions
    /\ Sessions \cap Owners = {}   \* the keys of Server.opening do not collide
    /\ NoOwner \notin Owners
    /\ NoSession \notin Sessions
    /\ Limit \in Nat

VARIABLES
    closed,      \* Server.closed
    closeDone,   \* Close has returned
    toClose,     \* the owners Close has still to close
    sessions,    \* Server.sessions
    opening,     \* Server.opening: sessions being selected, attempts creating
    attempt,     \* where the request of each owner object stands
    client,      \* the provider client of each owner object
    busy,        \* owner objects with a turn (managed.busy, counted in wg)
    native,      \* sessions the provider knows
    known        \* sessions a client of the service can name

vars == <<closed, closeDone, toClose, sessions, opening, attempt, client, busy, native, known>>

\* "started": the provider call is under way; "opened": it has returned a
\* client; "leaving": only the deferred removal of the reservation is left.
Attempt ==
    [kind : {"select", "create"}, session : Sessions \cup {NoSession},
     stage : {"unused", "started", "opened", "leaving", "done"}]

TypeOK ==
    /\ closed \in BOOLEAN
    /\ closeDone \in BOOLEAN
    /\ toClose \in SUBSET Owners
    /\ sessions \in [Sessions -> Owners \cup {NoOwner}]
    /\ opening \in SUBSET (Sessions \cup Owners)
    /\ attempt \in [Owners -> Attempt]
    /\ client \in [Owners -> {"none", "open", "closed"}]
    /\ busy \in SUBSET Owners
    /\ native \in SUBSET Sessions
    /\ known \in SUBSET Sessions

Init ==
    /\ closed = FALSE
    /\ closeDone = FALSE
    /\ toClose = {}
    /\ sessions = [s \in Sessions |-> NoOwner]
    /\ opening = {}
    /\ attempt = [o \in Owners |->
                    [kind |-> "select", session |-> NoSession, stage |-> "unused"]]
    /\ client = [o \in Owners |-> "none"]
    /\ busy = {}
    /\ native = Initial
    /\ known = Initial

Registered == {s \in Sessions : sessions[s] # NoOwner}

\* Mutant: only what is registered counts against the limit.
HasRoomForRegistered == Cardinality(Registered) < Limit

HasRoom == Cardinality(Registered) + Cardinality(opening) < Limit

Reservation(o) == IF attempt[o].kind = "select" THEN attempt[o].session ELSE o

MoveTo(o, stage) == attempt' = [attempt EXCEPT ![o] = [@ EXCEPT !.stage = stage]]

--------------------------------------------------------------------------------
(* selectSession.  A session that has an owner is answered at once. *)

\* Mutant: a selection under way is not noticed.
BeginSelectTwice(o, s) ==
    /\ ~closed
    /\ attempt[o].stage = "unused"
    /\ s \in known
    /\ sessions[s] = NoOwner
    /\ HasRoom
    /\ opening' = opening \cup {s}
    /\ attempt' = [attempt EXCEPT ![o] = [kind |-> "select", session |-> s, stage |-> "started"]]
    /\ UNCHANGED <<closed, closeDone, toClose, sessions, client, busy, native, known>>

BeginSelect(o, s) ==
    /\ ~closed
    /\ attempt[o].stage = "unused"
    /\ s \in known
    /\ sessions[s] = NoOwner
    /\ s \notin opening
    /\ HasRoom
    /\ opening' = opening \cup {s}
    /\ attempt' = [attempt EXCEPT ![o] = [kind |-> "select", session |-> s, stage |-> "started"]]
    /\ UNCHANGED <<closed, closeDone, toClose, sessions, client, busy, native, known>>

\* Open and the restored model: a client, or an error that leaves none open.
OpenReturns(o) ==
    /\ attempt[o].kind = "select"
    /\ attempt[o].stage = "started"
    /\ \/ /\ attempt[o].session \in native
          /\ client' = [client EXCEPT ![o] = "open"]
          /\ MoveTo(o, "opened")
       \/ client' \in {client, [client EXCEPT ![o] = "closed"]} /\ MoveTo(o, "leaving")
    /\ UNCHANGED <<closed, closeDone, toClose, sessions, opening, busy, native, known>>

\* Mutant: the service is not asked again whether it was closed meanwhile.
FinishSelectUnchecked(o) ==
    /\ attempt[o].kind = "select"
    /\ attempt[o].stage = "opened"
    /\ MoveTo(o, "leaving")
    /\ sessions' = [sessions EXCEPT ![attempt[o].session] = o]
    /\ UNCHANGED <<closed, closeDone, toClose, opening, client, busy, native, known>>

\* The owner is registered without another look at what is there: it may be
\* the one that createSession exposed since the selection began.
FinishSelect(o) ==
    /\ attempt[o].kind = "select"
    /\ attempt[o].stage = "opened"
    /\ MoveTo(o, "leaving")
    /\ \/ /\ closed
          /\ client' = [client EXCEPT ![o] = "closed"]
          /\ UNCHANGED sessions
       \/ /\ ~closed
          /\ sessions' = [sessions EXCEPT ![attempt[o].session] = o]
          /\ UNCHANGED client
    /\ UNCHANGED <<closed, closeDone, toClose, opening, busy, native, known>>

--------------------------------------------------------------------------------
(* createSession. *)

BeginCreate(o) ==
    /\ ~closed
    /\ attempt[o].stage = "unused"
    /\ HasRoom
    /\ opening' = opening \cup {o}
    /\ attempt' = [attempt EXCEPT ![o] =
                      [kind |-> "create", session |-> NoSession, stage |-> "started"]]
    /\ UNCHANGED <<closed, closeDone, toClose, sessions, client, busy, native, known>>

\* The provider makes the session.  Its catalogue, which clients read through
\* the service, may list it at once, or only when its owner is exposed.
ProviderCreates(o, s) ==
    /\ attempt[o].kind = "create"
    /\ attempt[o].stage = "started"
    /\ attempt[o].session = NoSession
    /\ s \notin native
    /\ native' = native \cup {s}
    /\ known' \in {known, known \cup {s}}
    /\ attempt' = [attempt EXCEPT ![o] = [@ EXCEPT !.session = s]]
    /\ UNCHANGED <<closed, closeDone, toClose, sessions, opening, client, busy>>

\* Create returns the new session's client, or an error (whatever was made).
CreateReturns(o) ==
    /\ attempt[o].kind = "create"
    /\ attempt[o].stage = "started"
    /\ \/ /\ attempt[o].session # NoSession
          /\ client' = [client EXCEPT ![o] = "open"]
          /\ MoveTo(o, "opened")
       \/ client' \in {client, [client EXCEPT ![o] = "closed"]} /\ MoveTo(o, "leaving")
    /\ UNCHANGED <<closed, closeDone, toClose, sessions, opening, busy, native, known>>

\* Refused after Close, on a conflict, or when the identity cannot be stored.
FinishCreate(o) ==
    LET s == attempt[o].session IN
    /\ attempt[o].kind = "create"
    /\ attempt[o].stage = "opened"
    /\ MoveTo(o, "leaving")
    /\ \/ /\ client' = [client EXCEPT ![o] = "closed"]
          /\ UNCHANGED <<sessions, known>>
       \/ /\ ~closed
          /\ sessions[s] = NoOwner
          /\ sessions' = [sessions EXCEPT ![s] = o]
          /\ known' = known \cup {s}
          /\ UNCHANGED client
    /\ UNCHANGED <<closed, closeDone, toClose, opening, busy, native>>

\* Mutant: an attempt that failed returns past its deferred calls.
LeaveWhenOpened(o) ==
    /\ attempt[o].stage = "leaving"
    /\ client[o] = "open"
    /\ opening' = opening \ {Reservation(o)}
    /\ MoveTo(o, "done")
    /\ UNCHANGED <<closed, closeDone, toClose, sessions, client, busy, native, known>>

\* The deferred end of either request: the reservation, then wg.Done.
Leave(o) ==
    /\ attempt[o].stage = "leaving"
    /\ opening' = opening \ {Reservation(o)}
    /\ MoveTo(o, "done")
    /\ UNCHANGED <<closed, closeDone, toClose, sessions, client, busy, native, known>>

--------------------------------------------------------------------------------
(* Turns and closing. *)

BeginTurn(o) ==
    /\ ~closed
    /\ \E s \in Sessions : sessions[s] = o
    /\ o \notin busy
    /\ busy' = busy \cup {o}
    /\ UNCHANGED <<closed, closeDone, toClose, sessions, opening, attempt, client, native, known>>

EndTurn(o) ==
    /\ o \in busy
    /\ busy' = busy \ {o}
    /\ UNCHANGED <<closed, closeDone, toClose, sessions, opening, attempt, client, native, known>>

\* The owners to close are those registered when the flag is set.
Close ==
    /\ ~closed
    /\ closed' = TRUE
    /\ toClose' = {sessions[s] : s \in Registered}
    /\ UNCHANGED <<closeDone, sessions, opening, attempt, client, busy, native, known>>

CloseOwner(o) ==
    /\ o \in toClose
    /\ toClose' = toClose \ {o}
    /\ client' = [client EXCEPT ![o] = "closed"]
    /\ UNCHANGED <<closed, closeDone, sessions, opening, attempt, busy, native, known>>

\* wg.Wait: no turn and no attempt is left.
CloseReturns ==
    /\ closed /\ ~closeDone
    /\ toClose = {} /\ busy = {}
    /\ \A o \in Owners : attempt[o].stage \in {"unused", "done"}
    /\ closeDone' = TRUE
    /\ UNCHANGED <<closed, toClose, sessions, opening, attempt, client, busy, native, known>>

--------------------------------------------------------------------------------
Proceed(o) ==
    \/ OpenReturns(o) \/ FinishSelect(o)
    \/ CreateReturns(o) \/ FinishCreate(o)
    \/ Leave(o)

Next ==
    \/ \E o \in Owners, s \in Sessions : BeginSelect(o, s) \/ ProviderCreates(o, s)
    \/ \E o \in Owners :
          BeginCreate(o) \/ Proceed(o) \/ BeginTurn(o) \/ EndTurn(o) \/ CloseOwner(o)
    \/ Close
    \/ CloseReturns

Spec == Init /\ [][Next]_vars

\* Provider calls run under the service context, which Close cancels, and carry
\* timeouts: they return.  Handlers and Close then run on.
Fairness ==
    /\ \A o \in Owners : WF_vars(Proceed(o)) /\ WF_vars(EndTurn(o)) /\ WF_vars(CloseOwner(o))
    /\ WF_vars(CloseReturns)

FairSpec == Spec /\ Fairness

--------------------------------------------------------------------------------
(* Properties. *)

\* The owner object of a creation whose session has passed to a selection that
\* was under way: its client goes on, and the service no longer knows of it.
Replaced(o) ==
    /\ client[o] = "open"
    /\ attempt[o].kind = "create"
    /\ attempt[o].stage \in {"leaving", "done"}
    /\ \E p \in Owners : sessions[attempt[o].session] = p /\ attempt[p].kind = "select"

\* The clients that are open, registered or not, never exceed the owner limit,
\* replaced ones apart: a reservation is held until its client is registered.
ClientsBounded == Cardinality({o \in Owners : client[o] = "open" /\ ~Replaced(o)}) <= Limit

\* Two clients that are open for one native session are that of its creation and
\* that of one selection: no two selections, whatever fails, and no second
\* creation.  Once both requests have got past their last section one of the two
\* is registered and the other is replaced.
OneClientPerRoute ==
    \A o, p \in Owners :
        /\ client[o] = "open" /\ client[p] = "open"
        /\ attempt[o].session = attempt[p].session
        /\ o # p
        => /\ attempt[o].kind # attempt[p].kind
           /\ \/ "opened" \in {attempt[o].stage, attempt[p].stage}
              \/ Replaced(o) /\ sessions[attempt[o].session] = p
              \/ Replaced(p) /\ sessions[attempt[p].session] = o

\* "Reject concurrent writers": no two turns run in one native session.
OneWriterPerSession ==
    \A o, p \in busy : attempt[o].session = attempt[p].session => o = p

\* When Close has returned no client is open but replaced ones: also none that an
\* attempt under way during Close was about to register.
NothingOpenAfterClose == closeDone => \A o \in Owners : client[o] = "open" => Replaced(o)

\* The clients are within the limit, one for a session, and none survives Close,
\* except that a creation and a selection of what it created may overlap.
ClientsAreSound == TypeOK /\ ClientsBounded /\ OneClientPerRoute /\ NothingOpenAfterClose

\* A selection never stays "opening": whatever fails, the next one may try.
OpeningEnds == \A r \in Sessions \cup Owners : r \in opening ~> r \notin opening

\* Close ends.
CloseEnds == closed ~> closeDone

\* Whatever fails, requests do not block each other, nor Close.
EverythingEnds == OpeningEnds /\ CloseEnds
================================================================================
