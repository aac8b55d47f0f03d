---------------------------- MODULE Managed_proofs ----------------------------
(***************************************************************************)
(* Theorems about what one owner of a session is and keeps (managed of      *)
(* src/agentplatform/server.go): the owners themselves (SessionOwners), for  *)
(* any sessions, attempts and limit; their questions (Approvals), for any    *)
(* questions, contents, commands and limit; and their events (EventRing),    *)
(* for any size of the ring and any number of events and restarts.           *)
(***************************************************************************)
EXTENDS SessionOwners, Approvals, EventRing, FiniteSetTheorems, SequenceTheorems, TLAPS

----------------------------------------
(* Owners.  Type correctness. *)

LEMMA StageType ==
    ASSUME TypeOK, NEW o \in Owners,
           NEW to \in {"unused", "started", "opened", "leaving", "done"},
           MoveTo(o, to)
    PROVE  attempt' \in [Owners -> Attempt]
<1>1. [attempt[o] EXCEPT !.stage = to] \in Attempt
  BY DEF TypeOK, Attempt
<1> QED
  BY <1>1 DEF MoveTo, TypeOK

LEMMA InitType == Init => TypeOK
<1> SUFFICES ASSUME Init PROVE TypeOK
  OBVIOUS
<1>1. attempt \in [Owners -> Attempt]
  BY DEF Init, Attempt
<1>2. Initial \subseteq Sessions
  BY OwnersAssumption
<1>3. closed \in BOOLEAN /\ closeDone \in BOOLEAN
  BY DEF Init
<1> QED
  BY <1>1, <1>2, <1>3 DEF Init, TypeOK

----------------------------------------
(* The inductive invariant: what a request may meet at the session it is about to *)
(* register, a selection the owner that a creation exposed meanwhile.            *)

\* The request of o holds its reservation.
Active(o) == attempt[o].stage \in {"started", "opened", "leaving"}

Owns(o) == \E s \in Sessions : sessions[s] = o

\* What is asked for exists, and each session was created by one request at most.
Named ==
    /\ known \subseteq native
    /\ \A o \in Owners :
          /\ attempt[o].session # NoSession => attempt[o].session \in native
          /\ attempt[o].kind = "select" /\ attempt[o].stage # "unused"
                => attempt[o].session \in known
          /\ attempt[o].stage = "opened" => attempt[o].session # NoSession
    /\ \A o, p \in Owners :
          /\ attempt[o].kind = "create" /\ attempt[p].kind = "create"
          /\ attempt[o].session # NoSession /\ attempt[o].session = attempt[p].session
          => o = p

\* A reservation belongs to one request, for as long as that runs.
Reserved ==
    /\ \A o \in Owners : Active(o) => Reservation(o) \in opening
    /\ \A o, p \in Owners :
          Active(o) /\ Active(p) /\ Reservation(o) = Reservation(p) => o = p

\* An open client is about to be registered, or is the owner of its session, or has
\* been replaced; what a selection may replace is the owner that a creation exposed.
Owned ==
    /\ \A s \in Sessions, o \in Owners :
          sessions[s] = o =>
             attempt[o].session = s /\ attempt[o].stage \in {"leaving", "done"}
    /\ \A o \in Owners :
          /\ attempt[o].kind = "select" /\ attempt[o].stage \in {"started", "opened"}
                => \A p \in Owners :
                      sessions[attempt[o].session] = p => attempt[p].kind = "create"
          /\ attempt[o].stage \in {"unused", "started"} => client[o] = "none"
          /\ client[o] = "open" =>
                /\ attempt[o].session # NoSession
                /\ attempt[o].stage = "opened" \/ Owns(o) \/ Replaced(o)

\* Close reaches every registered client that is open.
Closing ==
    /\ ~closed => toClose = {}
    /\ \A o \in toClose : Owns(o)
    /\ closed => \A o \in Owners : client[o] = "open" /\ Owns(o) => o \in toClose
    /\ closeDone =>
          closed /\ toClose = {} /\ \A o \in Owners : attempt[o].stage \in {"unused", "done"}

\* The owners that have a client or may get one.
Held == {o \in Owners : attempt[o].stage \in {"started", "opened"} \/ Owns(o)}

Counted ==
    /\ IsFiniteSet(Registered) /\ IsFiniteSet(opening)
    /\ IsFiniteSet(Held) /\ Cardinality(Held) <= Limit

Links == Named /\ Reserved /\ Owned

IInv == TypeOK /\ Links /\ Closing /\ Counted

LEMMA NextType == TypeOK /\ Named /\ [Next]_vars => TypeOK'
<1> SUFFICES ASSUME TypeOK, Named, [Next]_vars PROVE TypeOK'
  OBVIOUS
<1>1. ASSUME NEW o \in Owners, NEW s \in Sessions, BeginSelect(o, s) PROVE TypeOK'
  BY <1>1 DEF BeginSelect, TypeOK, Attempt
<1>2. ASSUME NEW o \in Owners, NEW s \in Sessions, ProviderCreates(o, s) PROVE TypeOK'
  <2>1. [attempt[o] EXCEPT !.session = s] \in Attempt
    BY DEF TypeOK, Attempt
  <2> QED
    BY <1>2, <2>1 DEF ProviderCreates, TypeOK
<1>3. ASSUME NEW o \in Owners, BeginCreate(o) PROVE TypeOK'
  BY <1>3 DEF BeginCreate, TypeOK, Attempt
<1>4. ASSUME NEW o \in Owners, OpenReturns(o) PROVE TypeOK'
  BY <1>4, StageType DEF OpenReturns, TypeOK
<1>5. ASSUME NEW o \in Owners, FinishSelect(o) PROVE TypeOK'
  BY <1>5, StageType DEF FinishSelect, TypeOK
<1>6. ASSUME NEW o \in Owners, CreateReturns(o) PROVE TypeOK'
  BY <1>6, StageType DEF CreateReturns, TypeOK
<1>7. ASSUME NEW o \in Owners, FinishCreate(o) PROVE TypeOK'
  <2>1. attempt' \in [Owners -> Attempt] /\ client' \in [Owners -> {"none", "open", "closed"}]
    BY <1>7, StageType DEF FinishCreate, TypeOK
  <2>2. sessions' \in [Sessions -> Owners \cup {NoOwner}]
    BY <1>7 DEF FinishCreate, TypeOK
  <2>3. attempt[o].session \in Sessions
    BY <1>7 DEF FinishCreate, Named, TypeOK, Attempt
  <2> QED
    BY <1>7, <2>1, <2>2, <2>3 DEF FinishCreate, TypeOK
<1>8. ASSUME NEW o \in Owners, Leave(o) PROVE TypeOK'
  BY <1>8, StageType DEF Leave, TypeOK
<1>9. ASSUME NEW o \in Owners, BeginTurn(o) \/ EndTurn(o) \/ CloseOwner(o) PROVE TypeOK'
  BY <1>9 DEF BeginTurn, EndTurn, CloseOwner, TypeOK
<1>10. CASE Close
  BY <1>10 DEF Close, Registered, TypeOK
<1>11. CASE CloseReturns
  BY <1>11 DEF CloseReturns, TypeOK
<1>12. CASE UNCHANGED vars
  BY <1>12 DEF vars, TypeOK
<1> QED
  BY <1>1, <1>2, <1>3, <1>4, <1>5, <1>6, <1>7, <1>8, <1>9, <1>10, <1>11, <1>12
  DEF Next, Proceed

----------------------------------------
(* One lemma for each part. *)

\* How an action that moves o on changes the attempts.
LEMMA Moved ==
    ASSUME TypeOK, NEW o \in Owners, NEW to, MoveTo(o, to)
    PROVE  /\ attempt'[o].kind = attempt[o].kind
           /\ attempt'[o].session = attempt[o].session
           /\ attempt'[o].stage = to
           /\ \A p \in Owners \ {o} : attempt'[p] = attempt[p]
<1>1. attempt[o] = [kind |-> attempt[o].kind, session |-> attempt[o].session,
                    stage |-> attempt[o].stage]
  BY DEF TypeOK, Attempt
<1> QED
  BY <1>1 DEF MoveTo, TypeOK

LEMMA NextNamed == TypeOK /\ Links /\ [Next]_vars => Named'
<1> SUFFICES ASSUME TypeOK, Named, [Next]_vars PROVE Named'
  BY DEF Links
<1> USE DEF Named
<1>1. ASSUME NEW o \in Owners, NEW s \in Sessions, BeginSelect(o, s) PROVE Named'
  <2>1. /\ attempt'[o] = [kind |-> "select", session |-> s, stage |-> "started"]
        /\ \A p \in Owners \ {o} : attempt'[p] = attempt[p]
    BY <1>1 DEF BeginSelect, TypeOK
  <2>2. s \in known /\ UNCHANGED <<known, native>>
    BY <1>1 DEF BeginSelect
  <2> QED
    BY <2>1, <2>2
<1>2. ASSUME NEW o \in Owners, NEW s \in Sessions, ProviderCreates(o, s) PROVE Named'
  <2>1. /\ attempt[o].kind = "create" /\ attempt[o].stage = "started"
        /\ attempt'[o].kind = "create" /\ attempt'[o].stage = "started"
        /\ attempt'[o].session = s
        /\ \A p \in Owners \ {o} : attempt'[p] = attempt[p]
    BY <1>2 DEF ProviderCreates, TypeOK, Attempt
  <2>2. /\ s \notin native /\ native' = native \cup {s}
        /\ known' \subseteq known \cup {s} /\ known \subseteq known'
    BY <1>2 DEF ProviderCreates
  <2> QED
    BY <2>1, <2>2
<1>3. ASSUME NEW o \in Owners, BeginCreate(o) PROVE Named'
  <2>1. /\ attempt'[o] = [kind |-> "create", session |-> NoSession, stage |-> "started"]
        /\ \A p \in Owners \ {o} : attempt'[p] = attempt[p]
    BY <1>3 DEF BeginCreate, TypeOK
  <2>2. UNCHANGED <<known, native>>
    BY <1>3 DEF BeginCreate
  <2> QED
    BY <2>1, <2>2
<1>4. ASSUME NEW o \in Owners, Proceed(o) PROVE Named'
  <2>1. PICK to \in {"opened", "leaving", "done"} : MoveTo(o, to)
    BY <1>4 DEF Proceed, OpenReturns, CreateReturns, FinishSelect, FinishCreate, Leave
  <2>2. attempt[o].stage # "unused"
    BY <1>4 DEF Proceed, OpenReturns, CreateReturns, FinishSelect, FinishCreate, Leave
  <2>3. to = "opened" => attempt[o].session # NoSession
    BY <1>4, <2>1, Moved, OwnersAssumption
    DEF Proceed, OpenReturns, CreateReturns, FinishSelect, FinishCreate, Leave, TypeOK
  <2>4. native' = native /\ known' \in {known, known \cup {attempt[o].session}}
    BY <1>4 DEF Proceed, OpenReturns, CreateReturns, FinishSelect, FinishCreate, Leave
  <2>5. known' \subseteq native /\ known \subseteq known'
    <3>1. CASE known' = known
      BY <3>1
    <3>2. CASE FinishCreate(o)
      BY <3>2, <2>4 DEF FinishCreate
    <3> QED
      BY <1>4, <3>1, <3>2 DEF Proceed, OpenReturns, CreateReturns, FinishSelect, Leave
  <2>6. \A p \in Owners : /\ attempt'[p].kind = attempt[p].kind
                           /\ attempt'[p].session = attempt[p].session
                           /\ attempt'[p].stage = (IF p = o THEN to ELSE attempt[p].stage)
    BY <2>1, Moved
  <2> QED
    BY <2>2, <2>3, <2>4, <2>5, <2>6
<1>5. CASE UNCHANGED <<attempt, known, native>>
  BY <1>5
<1> QED
  BY <1>1, <1>2, <1>3, <1>4, <1>5
  DEF Next, BeginTurn, EndTurn, CloseOwner, Close, CloseReturns, vars

LEMMA NextReserved == TypeOK /\ Links /\ [Next]_vars => Reserved'
<1> SUFFICES ASSUME TypeOK, Named, Reserved, [Next]_vars PROVE Reserved'
  BY DEF Links
<1> USE DEF Reserved, Active, Reservation
<1>1. ASSUME NEW o \in Owners, NEW s \in Sessions, BeginSelect(o, s) PROVE Reserved'
  <2>1. /\ attempt'[o] = [kind |-> "select", session |-> s, stage |-> "started"]
        /\ \A p \in Owners \ {o} : attempt'[p] = attempt[p]
    BY <1>1 DEF BeginSelect, TypeOK
  <2>2. s \notin opening /\ opening' = opening \cup {s}
    BY <1>1 DEF BeginSelect
  <2> QED
    BY <2>1, <2>2
<1>2. ASSUME NEW o \in Owners, NEW s \in Sessions, ProviderCreates(o, s) PROVE Reserved'
  <2>1. /\ attempt[o].kind = "create" /\ attempt[o].stage = "started"
        /\ attempt'[o].kind = "create" /\ attempt'[o].stage = "started"
        /\ \A p \in Owners \ {o} : attempt'[p] = attempt[p]
        /\ UNCHANGED opening
    BY <1>2 DEF ProviderCreates, TypeOK, Attempt
  <2> QED
    BY <2>1
<1>3. ASSUME NEW o \in Owners, BeginCreate(o) PROVE Reserved'
  <2>1. /\ attempt'[o] = [kind |-> "create", session |-> NoSession, stage |-> "started"]
        /\ \A p \in Owners \ {o} : attempt'[p] = attempt[p]
        /\ opening' = opening \cup {o}
    BY <1>3 DEF BeginCreate, TypeOK
  <2>2. \A p \in Owners : Active(p) /\ attempt[p].kind = "select" => attempt[p].session \in Sessions
    BY DEF Named, TypeOK
  <2>3. \A p \in Owners : Active(p) /\ Reservation(p) = o => p = o
    BY <2>2, OwnersAssumption DEF TypeOK, Attempt
  <2> QED
    BY <2>1, <2>3
<1>4. ASSUME NEW o \in Owners,
             OpenReturns(o) \/ CreateReturns(o) \/ FinishSelect(o) \/ FinishCreate(o)
      PROVE  Reserved'
  <2>1. PICK to \in {"opened", "leaving"} : MoveTo(o, to)
    BY <1>4 DEF OpenReturns, CreateReturns, FinishSelect, FinishCreate
  <2>2. Active(o) /\ UNCHANGED opening
    BY <1>4 DEF OpenReturns, CreateReturns, FinishSelect, FinishCreate
  <2> QED
    BY <2>1, <2>2, Moved
<1>5. ASSUME NEW o \in Owners, Leave(o) PROVE Reserved'
  <2>1. Active(o) /\ MoveTo(o, "done") /\ opening' = opening \ {Reservation(o)}
    BY <1>5 DEF Leave
  <2> QED
    BY <2>1, Moved
<1>6. CASE UNCHANGED <<attempt, opening>>
  BY <1>6
<1> QED
  BY <1>1, <1>2, <1>3, <1>4, <1>5, <1>6
  DEF Next, Proceed, BeginTurn, EndTurn, CloseOwner, Close, CloseReturns, vars

LEMMA NextOwned == TypeOK /\ Links /\ Closing /\ [Next]_vars => Owned'
<1> SUFFICES ASSUME TypeOK, Named, Reserved, Owned, Closing, [Next]_vars PROVE Owned'
  BY DEF Links
<1> USE DEF Owned, Owns, Replaced
<1>0. \A o \in Owners : o # NoOwner
  BY OwnersAssumption
<1>a. \A o \in Owners : Replaced(o) =>
          \E p \in Owners : /\ sessions[attempt[o].session] = p /\ attempt[p].kind = "select"
                           /\ attempt[p].stage \in {"leaving", "done"}
  BY DEF TypeOK, Attempt
<1>1. ASSUME NEW o \in Owners, NEW s \in Sessions, BeginSelect(o, s) PROVE Owned'
  <2>1. /\ attempt'[o] = [kind |-> "select", session |-> s, stage |-> "started"]
        /\ \A p \in Owners \ {o} : attempt'[p] = attempt[p]
        /\ attempt[o].stage = "unused" /\ sessions[s] = NoOwner
        /\ UNCHANGED <<sessions, client>>
    BY <1>1 DEF BeginSelect, TypeOK
  <2> QED
    BY <1>0, <2>1 DEF Named, TypeOK
<1>2. ASSUME NEW o \in Owners, NEW s \in Sessions, ProviderCreates(o, s) PROVE Owned'
  <2>1. /\ attempt[o].kind = "create" /\ attempt[o].stage = "started"
        /\ attempt'[o].kind = "create" /\ attempt'[o].stage = "started"
        /\ \A p \in Owners \ {o} : attempt'[p] = attempt[p]
        /\ UNCHANGED <<sessions, client>>
    BY <1>2 DEF ProviderCreates, TypeOK, Attempt
  <2> QED
    BY <2>1
<1>3. ASSUME NEW o \in Owners, BeginCreate(o) PROVE Owned'
  <2>1. /\ attempt'[o] = [kind |-> "create", session |-> NoSession, stage |-> "started"]
        /\ \A p \in Owners \ {o} : attempt'[p] = attempt[p]
        /\ attempt[o].stage = "unused"
        /\ UNCHANGED <<sessions, client>>
    BY <1>3 DEF BeginCreate, TypeOK
  <2>2. \A p \in Owners : client[p] = "open" /\ Replaced(p) => Replaced(p)'
    BY <1>a, <2>1
  <2>3. \A p \in Owners : Owns(p)' <=> Owns(p)
    BY <2>1
  <2> HIDE DEF Replaced, Owns
  <2> QED
    BY <2>1, <2>2, <2>3
<1>4. ASSUME NEW o \in Owners, OpenReturns(o) \/ CreateReturns(o) PROVE Owned'
  <2>1. PICK to \in {"opened", "leaving"} :
           /\ MoveTo(o, to)
           /\ to = "leaving" => client'[o] # "open"
    BY <1>4 DEF OpenReturns, CreateReturns, TypeOK
  <2>2. /\ attempt[o].stage = "started" /\ UNCHANGED sessions
        /\ \A p \in Owners \ {o} : client'[p] = client[p]
    BY <1>4 DEF OpenReturns, CreateReturns, TypeOK
  <2>3. \A p \in Owners : /\ attempt'[p].kind = attempt[p].kind
                           /\ attempt'[p].session = attempt[p].session
                           /\ attempt'[p].stage = (IF p = o THEN to ELSE attempt[p].stage)
    BY <2>1, Moved
  <2>4. \A p \in Owners : Owns(p)' <=> Owns(p)
    BY <2>2
  <2>5. ASSUME NEW p \in Owners, p # o, client'[p] = "open", Replaced(p) PROVE Replaced(p)'
    <3>1. PICK q \in Owners : /\ sessions[attempt[p].session] = q /\ attempt[q].kind = "select"
                              /\ attempt[q].stage \in {"leaving", "done"}
      BY <1>a, <2>5
    <3> QED
      BY <2>2, <2>3, <2>5, <3>1
  <2>6. to = "opened" => attempt[o].session # NoSession
    BY <1>4, <2>1, Moved, OwnersAssumption DEF OpenReturns, CreateReturns, TypeOK
  <2>7. \A p \in Owners : client'[p] = "open" =>
           /\ attempt'[p].session # NoSession
           /\ attempt'[p].stage = "opened" \/ Owns(p)' \/ Replaced(p)'
    <3> HIDE DEF Owns, Replaced
    <3> QED
      BY <2>1, <2>2, <2>3, <2>4, <2>6, <2>5
  <2> HIDE DEF Replaced
  <2> QED
    BY <2>1, <2>2, <2>3, <2>7
<1>5. ASSUME NEW o \in Owners, FinishSelect(o) PROVE Owned'
  <2> DEFINE s == attempt[o].session
  <2>1. /\ attempt[o].kind = "select" /\ attempt[o].stage = "opened" /\ s \in Sessions
        /\ MoveTo(o, "leaving")
    BY <1>5 DEF FinishSelect, Named, TypeOK
  <2>2. \A p \in Owners : sessions[s] = p => attempt[p].kind = "create"
    BY <2>1
  <2>3. \A p \in Owners \ {o} : attempt[p].kind = "select"
           /\ attempt[p].stage \in {"started", "opened"} => attempt[p].session # s
    BY <2>1 DEF Reserved, Active, Reservation
  <2>4. /\ attempt'[o].session = s /\ attempt'[o].stage = "leaving"
        /\ attempt'[o].kind = "select"
        /\ \A p \in Owners \ {o} : attempt'[p] = attempt[p]
        /\ \A p \in Owners : attempt'[p].session = attempt[p].session
                             /\ attempt'[p].kind = attempt[p].kind
    BY <2>1, Moved
  <2>5. CASE UNCHANGED sessions /\ client' = [client EXCEPT ![o] = "closed"]
    BY <2>1, <2>4, <2>5 DEF TypeOK
  <2>6. CASE sessions' = [sessions EXCEPT ![s] = o] /\ UNCHANGED client
    <3>1. sessions'[s] = o /\ \A r \in Sessions \ {s} : sessions'[r] = sessions[r]
      BY <2>1, <2>6 DEF TypeOK
    <3>2. ASSUME NEW p \in Owners, Owns(p) \/ Replaced(p), client[p] = "open"
          PROVE  Owns(p)' \/ Replaced(p)'
      <4>1. p # o
        BY <2>1, <3>2
      <4>2. CASE Owns(p)
        <5>1. PICK r \in Sessions : sessions[r] = p
          BY <4>2
        <5>2. CASE r = s
          BY <2>2, <2>4, <2>6, <3>1, <3>2, <4>1, <5>1, <5>2
        <5> QED
          BY <3>1, <5>1, <5>2
      <4>3. CASE Replaced(p)
        <5>1. attempt[p].session # s
          BY <2>2, <4>3
        <5> QED
          BY <2>4, <2>6, <3>1, <4>1, <4>3, <5>1 DEF Named, TypeOK
      <4> QED
        BY <3>2, <4>2, <4>3
    <3>3. ASSUME NEW r \in Sessions, NEW p \in Owners, sessions'[r] = p
          PROVE  attempt'[p].session = r /\ attempt'[p].stage \in {"leaving", "done"}
      BY <2>1, <2>4, <3>1, <3>3
    <3>4. ASSUME NEW p \in Owners, attempt'[p].kind = "select",
                 attempt'[p].stage \in {"started", "opened"}, NEW q \in Owners,
                 sessions'[attempt'[p].session] = q
          PROVE  attempt'[q].kind = "create"
      BY <2>3, <2>4, <3>1, <3>4 DEF Named, TypeOK
    <3>5. \A p \in Owners :
             /\ attempt'[p].stage \in {"unused", "started"} => client'[p] = "none"
             /\ client'[p] = "open" =>
                   /\ attempt'[p].session # NoSession
                   /\ attempt'[p].stage = "opened" \/ Owns(p)' \/ Replaced(p)'
      BY <2>1, <2>4, <2>6, <3>1, <3>2
    <3> QED
      BY <3>3, <3>4, <3>5
  <2> QED
    BY <1>5, <2>5, <2>6 DEF FinishSelect
<1>6. ASSUME NEW o \in Owners, FinishCreate(o) PROVE Owned'
  <2> DEFINE s == attempt[o].session
  <2>1. /\ attempt[o].kind = "create" /\ attempt[o].stage = "opened" /\ s \in Sessions
        /\ MoveTo(o, "leaving")
    BY <1>6 DEF FinishCreate, Named, TypeOK, Attempt
  <2>4. /\ attempt'[o].session = s /\ attempt'[o].stage = "leaving"
        /\ attempt'[o].kind = "create"
        /\ \A p \in Owners \ {o} : attempt'[p] = attempt[p]
        /\ \A p \in Owners : attempt'[p].session = attempt[p].session
                             /\ attempt'[p].kind = attempt[p].kind
    BY <2>1, Moved
  <2>5. CASE UNCHANGED sessions /\ client' = [client EXCEPT ![o] = "closed"]
    BY <2>1, <2>4, <2>5 DEF TypeOK
  <2>6. CASE sessions[s] = NoOwner /\ sessions' = [sessions EXCEPT ![s] = o] /\ UNCHANGED client
    <3>1. sessions'[s] = o /\ \A r \in Sessions \ {s} : sessions'[r] = sessions[r]
      BY <2>1, <2>6 DEF TypeOK
    <3>2. ASSUME NEW p \in Owners, Owns(p) \/ Replaced(p), client[p] = "open"
          PROVE  Owns(p)' \/ Replaced(p)'
      <4>1. p # o
        BY <2>1, <3>2
      <4>2. CASE Owns(p)
        BY <1>0, <2>6, <3>1, <4>2
      <4>3. CASE Replaced(p)
        <5>1. attempt[p].session # s
          BY <1>0, <2>6, <4>3
        <5> QED
          BY <2>4, <2>6, <3>1, <4>1, <4>3, <5>1 DEF Named, TypeOK
      <4> QED
        BY <3>2, <4>2, <4>3
    <3>3. ASSUME NEW r \in Sessions, NEW p \in Owners, sessions'[r] = p
          PROVE  attempt'[p].session = r /\ attempt'[p].stage \in {"leaving", "done"}
      BY <2>1, <2>4, <3>1, <3>3
    <3>4. ASSUME NEW p \in Owners, attempt'[p].kind = "select",
                 attempt'[p].stage \in {"started", "opened"}, NEW q \in Owners,
                 sessions'[attempt'[p].session] = q
          PROVE  attempt'[q].kind = "create"
      BY <2>1, <2>4, <3>1, <3>4 DEF Named, TypeOK
    <3>5. \A p \in Owners :
             /\ attempt'[p].stage \in {"unused", "started"} => client'[p] = "none"
             /\ client'[p] = "open" =>
                   /\ attempt'[p].session # NoSession
                   /\ attempt'[p].stage = "opened" \/ Owns(p)' \/ Replaced(p)'
      BY <2>1, <2>4, <2>6, <3>1, <3>2
    <3> QED
      BY <3>3, <3>4, <3>5
  <2> QED
    BY <1>6, <2>5, <2>6 DEF FinishCreate
<1>7. ASSUME NEW o \in Owners, Leave(o) PROVE Owned'
  <2>1. attempt[o].stage = "leaving" /\ MoveTo(o, "done") /\ UNCHANGED <<sessions, client>>
    BY <1>7 DEF Leave
  <2>2. \A p \in Owners : /\ attempt'[p].kind = attempt[p].kind
                           /\ attempt'[p].session = attempt[p].session
                           /\ attempt'[p].stage = (IF p = o THEN "done" ELSE attempt[p].stage)
    BY <2>1, Moved
  <2>3. \A p \in Owners : (Owns(p)' <=> Owns(p)) /\ (Replaced(p) => Replaced(p)')
    BY <2>1, <2>2
  <2> QED
    BY <2>1, <2>2, <2>3
<1>8. ASSUME NEW o \in Owners, CloseOwner(o) PROVE Owned'
  <2>0. Owns(o)
    BY <1>8 DEF CloseOwner, Closing
  <2>1. client' = [client EXCEPT ![o] = "closed"] /\ UNCHANGED <<attempt, sessions>>
    BY <1>8 DEF CloseOwner
  <2> QED
    BY <2>0, <2>1 DEF TypeOK
<1>9. CASE UNCHANGED <<attempt, sessions, client>>
  BY <1>9
<1> QED
  BY <1>1, <1>2, <1>3, <1>4, <1>5, <1>6, <1>7, <1>8, <1>9
  DEF Next, Proceed, BeginTurn, EndTurn, Close, CloseReturns, vars

LEMMA NextClosing == TypeOK /\ Links /\ Closing /\ [Next]_vars => Closing'
<1> SUFFICES ASSUME TypeOK, Named, Owned, Closing, [Next]_vars PROVE Closing'
  BY DEF Links
<1> USE DEF Closing, Owns
<1>0. \A o \in Owners : o # NoOwner
  BY OwnersAssumption
<1>1. ASSUME NEW o \in Owners, NEW s \in Sessions, BeginSelect(o, s) \/ ProviderCreates(o, s)
      PROVE  Closing'
  <2>1. /\ attempt[o].stage \in {"unused", "started"} /\ attempt'[o].stage = "started"
        /\ \A p \in Owners \ {o} : attempt'[p] = attempt[p]
        /\ UNCHANGED <<closed, closeDone, toClose, sessions, client>>
    BY <1>1 DEF BeginSelect, ProviderCreates, TypeOK, Attempt
  <2>2. ~closed \/ attempt[o].stage = "started"
    BY <1>1 DEF BeginSelect, ProviderCreates
  <2> QED
    BY <2>1, <2>2
<1>2. ASSUME NEW o \in Owners, BeginCreate(o) PROVE Closing'
  BY <1>2 DEF BeginCreate
<1>3. ASSUME NEW o \in Owners, OpenReturns(o) \/ CreateReturns(o) PROVE Closing'
  <2>1. /\ attempt[o].stage = "started"
        /\ \A p \in Owners \ {o} : client'[p] = client[p]
        /\ UNCHANGED <<closed, closeDone, toClose, sessions>>
    BY <1>3 DEF OpenReturns, CreateReturns, TypeOK
  <2>2. ~Owns(o)
    BY <2>1 DEF Owned
  <2> QED
    BY <2>1, <2>2
<1>4. ASSUME NEW o \in Owners, FinishSelect(o) \/ FinishCreate(o) PROVE Closing'
  <2>1. attempt[o].stage = "opened" /\ UNCHANGED <<closed, closeDone, toClose>>
    BY <1>4 DEF FinishSelect, FinishCreate
  <2>2. ~closeDone
    BY <2>1
  <2>3. CASE UNCHANGED sessions /\ client' = [client EXCEPT ![o] = "closed"]
    BY <2>1, <2>2, <2>3 DEF TypeOK
  <2>4. CASE ~closed
    BY <2>1, <2>2, <2>4
  <2> QED
    BY <1>4, <2>3, <2>4 DEF FinishSelect, FinishCreate, Owned
<1>5. ASSUME NEW o \in Owners, Leave(o) PROVE Closing'
  <2>1. attempt[o].stage = "leaving" /\ UNCHANGED <<closed, closeDone, toClose, sessions, client>>
    BY <1>5 DEF Leave
  <2> QED
    BY <2>1
<1>6. ASSUME NEW o \in Owners, CloseOwner(o) PROVE Closing'
  BY <1>6 DEF CloseOwner, TypeOK
<1>7. CASE Close
  <2>1. \A o \in Owners : Owns(o) <=> o \in toClose'
    BY <1>0, <1>7 DEF Close, Registered
  <2>2. toClose' \subseteq Owners
    BY <1>7 DEF Close, Registered, TypeOK
  <2> QED
    BY <1>7, <2>1, <2>2 DEF Close
<1>8. CASE CloseReturns
  BY <1>8 DEF CloseReturns
<1>9. CASE UNCHANGED <<closed, closeDone, toClose, sessions, attempt, client>>
  BY <1>9
<1> QED
  BY <1>1, <1>2, <1>3, <1>4, <1>5, <1>6, <1>7, <1>8, <1>9
  DEF Next, Proceed, BeginTurn, EndTurn, vars

\* Each owner that counts has a place in one of the two maps of the service.
LEMMA HeldCounted ==
    ASSUME TypeOK, Links, Counted
    PROVE  Cardinality(Held) <= Cardinality(Registered) + Cardinality(opening)
<1> DEFINE waiting == {o \in Owners : attempt[o].stage \in {"started", "opened"}}
           owners == {o \in Owners : Owns(o)}
           f == [o \in waiting |-> Reservation(o)]
           g == [s \in Registered |-> sessions[s]]
<1>1. f \in Injection(waiting, opening)
  BY DEF Links, Reserved, Active, Injection, IsInjective
<1>2. g \in Surjection(Registered, owners)
  <2>1. ASSUME NEW s \in Registered PROVE sessions[s] \in owners
    BY DEF Registered, TypeOK, Owns
  <2>2. ASSUME NEW o \in owners PROVE \E s \in Registered : sessions[s] = o
    BY OwnersAssumption DEF Registered, Owns
  <2> QED
    BY <2>1, <2>2 DEF Surjection
<1>3. IsFiniteSet(waiting) /\ Cardinality(waiting) <= Cardinality(opening)
  BY <1>1, FS_Injection DEF Counted
<1>4. IsFiniteSet(owners) /\ Cardinality(owners) <= Cardinality(Registered)
  BY <1>2, FS_Surjection DEF Counted
<1>5. Held = waiting \cup owners
  BY DEF Held
<1>6. Cardinality(Held) = Cardinality(waiting) + Cardinality(owners) - Cardinality(waiting \cap owners)
  BY <1>3, <1>4, <1>5, FS_Union
<1>7. Cardinality(waiting \cap owners) \in Nat
  BY <1>3, FS_Intersection, FS_CardinalityType
<1>8. /\ Cardinality(waiting) \in Nat /\ Cardinality(owners) \in Nat
      /\ Cardinality(opening) \in Nat /\ Cardinality(Registered) \in Nat
  BY <1>3, <1>4, FS_CardinalityType DEF Counted
<1> QED
  BY <1>3, <1>4, <1>6, <1>7, <1>8

LEMMA NextCounted == TypeOK /\ Links /\ Counted /\ [Next]_vars => Counted'
<1> SUFFICES ASSUME TypeOK, Links, Counted, [Next]_vars PROVE Counted'
  OBVIOUS
<1>0. \A o \in Owners : o # NoOwner
  BY OwnersAssumption
<1>1. ASSUME NEW o \in Owners, NEW r, HasRoom, opening' = opening \cup {r},
             UNCHANGED sessions, Held' = Held \cup {o}
      PROVE  Counted'
  <2>1. Cardinality(Held) < Limit
    <3>1. /\ Cardinality(Held) \in Nat
          /\ Cardinality(opening) \in Nat /\ Cardinality(Registered) \in Nat
      BY FS_CardinalityType DEF Counted
    <3> QED
      BY <1>1, <3>1, HeldCounted, OwnersAssumption DEF HasRoom
  <2>2. IsFiniteSet(Held') /\ Cardinality(Held') <= Cardinality(Held) + 1
    <3>1. Cardinality(Held) \in Nat
      BY FS_CardinalityType DEF Counted
    <3> QED
      BY <1>1, <3>1, FS_AddElement DEF Counted
  <2>3. Cardinality(Held) \in Nat /\ Cardinality(Held') \in Nat
    BY <2>2, FS_CardinalityType DEF Counted
  <2>4. IsFiniteSet(opening') /\ Registered' = Registered
    BY <1>1, FS_AddElement DEF Counted, Registered
  <2> QED
    BY <2>3, <2>4, <2>1, <2>2, OwnersAssumption DEF Counted
<1>2. ASSUME IsFiniteSet(opening'), IsFiniteSet(Registered'), Held' \subseteq Held
      PROVE  Counted'
  <2>1. IsFiniteSet(Held') /\ Cardinality(Held') <= Cardinality(Held)
    BY <1>2, FS_Subset DEF Counted
  <2>2. Cardinality(Held) \in Nat /\ Cardinality(Held') \in Nat
    BY <2>1, FS_CardinalityType DEF Counted
  <2> QED
    BY <1>2, <2>1, <2>2, OwnersAssumption DEF Counted
<1>3. ASSUME NEW o \in Owners, NEW s \in Sessions, BeginSelect(o, s) PROVE Counted'
  <2>1. /\ attempt'[o].stage = "started"
        /\ \A p \in Owners \ {o} : attempt'[p] = attempt[p]
        /\ UNCHANGED sessions
    BY <1>3 DEF BeginSelect, TypeOK
  <2>2. Held' = Held \cup {o}
    BY <2>1 DEF Held, Owns
  <2> QED
    BY <1>1, <1>3, <2>1, <2>2 DEF BeginSelect
<1>4. ASSUME NEW o \in Owners, BeginCreate(o) PROVE Counted'
  <2>1. /\ attempt'[o].stage = "started"
        /\ \A p \in Owners \ {o} : attempt'[p] = attempt[p]
        /\ UNCHANGED sessions
    BY <1>4 DEF BeginCreate, TypeOK
  <2>2. Held' = Held \cup {o}
    BY <2>1 DEF Held, Owns
  <2> QED
    BY <1>1, <1>4, <2>1, <2>2 DEF BeginCreate
<1>5. ASSUME NEW o \in Owners, NEW s \in Sessions, ProviderCreates(o, s) PROVE Counted'
  <2>1. /\ attempt[o].stage = "started"
        /\ \A p \in Owners \ {o} : attempt'[p] = attempt[p]
        /\ UNCHANGED <<sessions, opening>>
    BY <1>5 DEF ProviderCreates, TypeOK
  <2>2. Held' \subseteq Held /\ Registered' = Registered
    BY <2>1 DEF Held, Owns, Registered
  <2> QED
    BY <1>2, <2>1, <2>2 DEF Counted
<1>6. ASSUME NEW o \in Owners, OpenReturns(o) \/ CreateReturns(o) PROVE Counted'
  <2>1. PICK to \in {"opened", "leaving"} : MoveTo(o, to)
    BY <1>6 DEF OpenReturns, CreateReturns
  <2>2. attempt[o].stage = "started" /\ UNCHANGED <<sessions, opening>>
    BY <1>6 DEF OpenReturns, CreateReturns
  <2>3. Held' \subseteq Held /\ Registered' = Registered
    BY <2>1, <2>2, Moved DEF Held, Owns, Registered
  <2> QED
    BY <1>2, <2>2, <2>3 DEF Counted
<1>7. ASSUME NEW o \in Owners, FinishSelect(o) \/ FinishCreate(o) PROVE Counted'
  <2> DEFINE s == attempt[o].session
  <2>1. /\ attempt[o].stage = "opened" /\ MoveTo(o, "leaving") /\ UNCHANGED opening
        /\ sessions' = sessions \/ sessions' = [sessions EXCEPT ![s] = o]
    BY <1>7 DEF FinishSelect, FinishCreate
  <2>2. s \in Sessions
    BY <2>1 DEF Links, Named, TypeOK, Attempt
  <2>3. \A r \in Sessions : sessions'[r] = sessions[r] \/ (r = s /\ sessions'[r] = o)
    BY <2>1, <2>2 DEF TypeOK
  <2>4. Held' \subseteq Held
    BY <2>1, <2>3, Moved DEF Held, Owns
  <2>5. Registered' \subseteq Registered \cup {s}
    BY <2>3 DEF Registered
  <2>6. IsFiniteSet(Registered')
    <3>1. IsFiniteSet(Registered \cup {s})
      BY FS_AddElement DEF Counted
    <3> QED
      BY <2>5, <3>1, FS_Subset
  <2> QED
    BY <1>2, <2>1, <2>4, <2>6 DEF Counted
<1>8. ASSUME NEW o \in Owners, Leave(o) PROVE Counted'
  <2>1. /\ MoveTo(o, "done") /\ UNCHANGED sessions
        /\ opening' = opening \ {Reservation(o)}
    BY <1>8 DEF Leave
  <2>2. Held' \subseteq Held /\ Registered' = Registered
    BY <2>1, Moved DEF Held, Owns, Registered
  <2>3. IsFiniteSet(opening')
    BY <2>1, FS_RemoveElement DEF Counted
  <2> QED
    BY <1>2, <2>2, <2>3 DEF Counted
<1>9. CASE UNCHANGED <<sessions, opening, attempt>>
  BY <1>9 DEF Counted, Held, Owns, Registered
<1> QED
  BY <1>3, <1>4, <1>5, <1>6, <1>7, <1>8, <1>9
  DEF Next, Proceed, BeginTurn, EndTurn, CloseOwner, Close, CloseReturns, vars

LEMMA InitIInv == Init => IInv
<1> SUFFICES ASSUME Init PROVE IInv
  OBVIOUS
<1>1. TypeOK
  BY InitType
<1>2. Links /\ Closing
  BY OwnersAssumption DEF Init, Links, Named, Reserved, Active, Owned, Owns, Closing
<1>3. Registered = {} /\ opening = {} /\ Held = {}
  BY OwnersAssumption DEF Init, Registered, Held, Owns
<1>4. Counted
  BY <1>3, FS_EmptySet, OwnersAssumption DEF Counted
<1> QED
  BY <1>1, <1>2, <1>4 DEF IInv

LEMMA NextIInv == IInv /\ [Next]_vars => IInv'
  BY NextType, NextNamed, NextReserved, NextOwned, NextClosing, NextCounted DEF IInv, Links

----------------------------------------
(* What follows from it. *)

LEMMA OpenIsHeld ==
    ASSUME IInv
    PROVE  {o \in Owners : client[o] = "open" /\ ~Replaced(o)} \subseteq Held
  BY DEF IInv, Links, Owned, Held

LEMMA Bounded == IInv => ClientsBounded
<1> SUFFICES ASSUME IInv PROVE ClientsBounded
  OBVIOUS
<1> DEFINE inUse == {o \in Owners : client[o] = "open" /\ ~Replaced(o)}
<1>1. IsFiniteSet(inUse) /\ Cardinality(inUse) <= Cardinality(Held)
  BY OpenIsHeld, FS_Subset DEF IInv, Counted
<1>2. Cardinality(inUse) \in Nat /\ Cardinality(Held) \in Nat
  BY <1>1, FS_CardinalityType DEF IInv, Counted
<1> QED
  BY <1>1, <1>2, OwnersAssumption DEF IInv, Counted, ClientsBounded

LEMMA OneClient == IInv => OneClientPerRoute
<1> SUFFICES ASSUME IInv, NEW o \in Owners, NEW p \in Owners,
                    client[o] = "open", client[p] = "open", o # p,
                    attempt[o].session = attempt[p].session
             PROVE  /\ attempt[o].kind # attempt[p].kind
                    /\ \/ "opened" \in {attempt[o].stage, attempt[p].stage}
                       \/ Replaced(o) /\ sessions[attempt[o].session] = p
                       \/ Replaced(p) /\ sessions[attempt[p].session] = o
  BY DEF OneClientPerRoute
<1> USE DEF IInv, Links
<1> DEFINE s == attempt[o].session
<1>1. \A q \in {o, p} :
         \/ attempt[q].stage = "opened"
         \/ s \in Sessions /\ sessions[s] = q
         \/ Replaced(q)
  BY DEF Owned, Owns
<1>2. \A q \in {o, p} : attempt[q].stage \in {"opened", "leaving", "done"}
  BY DEF Owned, TypeOK, Attempt
<1>3. s # NoSession
  BY DEF Owned
<1>4. ~(attempt[o].kind = "create" /\ attempt[p].kind = "create")
  BY <1>3 DEF Named
<1>5. ~(attempt[o].kind = "select" /\ attempt[p].kind = "select")
  <2> SUFFICES ASSUME attempt[o].kind = "select", attempt[p].kind = "select" PROVE FALSE
    OBVIOUS
  <2>1. \A q \in {o, p} : attempt[q].stage = "opened" \/ sessions[s] = q
    BY <1>1 DEF Replaced
  <2>2. \A q \in {o, p} : attempt[q].stage = "opened" => sessions[s] \notin {o, p}
    BY DEF Owned
  <2>3. attempt[o].stage = "opened" /\ attempt[p].stage = "opened"
    BY <2>1, <2>2
  <2> QED
    BY <2>3 DEF Reserved, Active, Reservation
<1>6. attempt[o].kind # attempt[p].kind
  BY <1>4, <1>5 DEF TypeOK, Attempt
<1>7. \A q \in {o, p} : attempt[q].kind = "select" =>
         attempt[q].stage = "opened" \/ sessions[s] = q
  BY <1>1 DEF Replaced
<1>8. \A q \in {o, p} : attempt[q].kind = "create" =>
         attempt[q].stage = "opened" \/ sessions[s] = q \/ Replaced(q)
  BY <1>1
<1> QED
  BY <1>4, <1>6, <1>7, <1>8 DEF TypeOK, Attempt

LEMMA NothingOpen == IInv => NothingOpenAfterClose
  BY DEF IInv, Links, Owned, Closing, NothingOpenAfterClose

\* For any number of sessions and requests and every limit: open clients stay within
\* the limit, a session has one at most, and when Close has returned none is open, but
\* for a creation and a selection of what it created (SessionOwners_race.cfg).
THEOREM OwnersAreSound == Spec => []ClientsAreSound
<1>1. IInv /\ [Next]_vars => IInv'
  BY NextIInv
<1>2. IInv => ClientsAreSound
  BY Bounded, OneClient, NothingOpen DEF IInv, ClientsAreSound
<1> QED
  BY <1>1, <1>2, InitIInv, PTL DEF Spec

----------------------------------------
(* Questions.  The inductive invariant: that a decision is the only one rests on where the  *)
(* question is: on the list it has none, in the channel it has one, and the       *)
(* goroutine that waits has taken neither or the one.                            *)

\* Before it is registered nothing is known of a question; one that is on the list
\* is undecided, and the goroutine that registered it will take it off.
Listed(r) ==
    /\ stage[r] \in {"none", "asked"} => r \notin pending /\ decisions[r] = 0
    /\ r \in pending => stage[r] \in {"waiting", "leaving"} /\ decisions[r] = 0

\* Whoever decided did so once, about what was asked, and the answer is in the channel
\* until it is taken.
Decided(r) ==
    /\ decisions[r] \in {0, 1}
    /\ decisions[r] = 1 => agreed[r] = content[r]
    /\ channel[r] \in {0, 1}
    /\ channel[r] = 1 => decisions[r] = 1

\* What Request returns.
Answered(r) ==
    /\ stage[r] \in {"none", "asked", "waiting"} => result[r] = "none"
    /\ result[r] = "answer" => decisions[r] = 1
    /\ stage[r] = "leaving" /\ result[r] = "refused" => r \in ended \/ ~open
    /\ result[r] = "refused" /\ decisions[r] = 1 => r \in ended \/ ~open

AskInv == AskTypeOK /\ \A r \in Requests : Listed(r) /\ Decided(r) /\ Answered(r)

LEMMA InitAskInv == AskInit => AskInv
<1> SUFFICES ASSUME AskInit PROVE AskInv
  OBVIOUS
<1>1. AskTypeOK
  BY DEF AskInit, AskTypeOK
<1>2. ASSUME NEW r \in Requests PROVE Listed(r) /\ Decided(r) /\ Answered(r)
  BY DEF AskInit, Listed, Decided, Answered
<1> QED
  BY <1>1, <1>2 DEF AskInv

\* The owner and the turns of its session touch no question.
LEMMA ServiceSteps ==
    ASSUME AskInv,
           \/ BecomeReady \/ RecordTurn \/ ReleaseTurn \/ CloseService
           \/ \E c \in Commands : BeginCommand(c)
    PROVE  AskInv'
<1>1. /\ UNCHANGED <<stage, content, tag, ended, pending, channel, result, decisions, agreed, cause>>
      /\ open' = open \/ open' = FALSE
      /\ open' \in BOOLEAN /\ ready' \in BOOLEAN
      /\ origin' \in Commands \cup {NoCommand} /\ running' \in Commands \cup {NoCommand}
  BY DEF AskInv, AskTypeOK, BecomeReady, RecordTurn, ReleaseTurn, CloseService, BeginCommand,
         turns, asked, decided
<1>2. AskTypeOK'
  BY <1>1 DEF AskInv, AskTypeOK
<1>3. \A r \in Requests : Listed(r)' /\ Decided(r)' /\ Answered(r)'
  BY <1>1 DEF AskInv, Listed, Decided, Answered
<1> QED
  BY <1>2, <1>3 DEF AskInv

LEMMA RequestSteps ==
    ASSUME AskInv, NEW r \in Requests,
           \/ Register(r) \/ Refuse(r) \/ EndContext(r) \/ Return(r)
           \/ \E k \in Contents : Ask(r, k)
    PROVE  AskInv'
<1> USE DEF AskInv
<1>1. CASE Register(r)
  BY <1>1 DEF Register, AskTypeOK, Listed, Decided, Answered, turns, asked, decided
<1>2. CASE Refuse(r)
  BY <1>2 DEF Refuse, AskTypeOK, Listed, Decided, Answered, turns, asked, decided
<1>3. CASE EndContext(r)
  BY <1>3 DEF EndContext, AskTypeOK, Listed, Decided, Answered, turns, asked, decided
<1>4. CASE TakeAnswer(r)
  BY <1>4 DEF TakeAnswer, AskTypeOK, Listed, Decided, Answered, turns, asked, decided
<1>5. CASE GiveUp(r)
  BY <1>5 DEF GiveUp, AskTypeOK, Listed, Decided, Answered, turns, asked, decided
<1>6. CASE Unregister(r)
  BY <1>6 DEF Unregister, AskTypeOK, Listed, Decided, Answered, turns, asked, decided
<1>7. ASSUME NEW k \in Contents, Ask(r, k) PROVE AskInv'
  BY <1>7 DEF Ask, AskTypeOK, Listed, Decided, Answered, turns, asked, decided
<1> QED
  BY <1>1, <1>2, <1>3, <1>4, <1>5, <1>6, <1>7 DEF Return

LEMMA DecisionSteps ==
    ASSUME AskInv, NEW r \in Requests, NEW k \in Contents, Approve(r, k) \/ CommitRequest(r, k)
    PROVE  AskInv'
<1>1. Accept(r, k)
  BY DEF Approve, CommitRequest
<1>2. r \in pending /\ decisions[r] = 0 /\ channel[r] = 0 /\ k = content[r]
  BY <1>1 DEF Accept, Answerable, AskInv, Listed, Decided
<1>3. r \notin ended /\ result[r] # "answer"
  BY <1>1, <1>2 DEF Accept, Answerable, AskInv, Answered
<1>4. AskTypeOK'
  BY <1>1 DEF Accept, AskInv, AskTypeOK, turns, asked
<1>5. ASSUME NEW q \in Requests PROVE Listed(q)' /\ Decided(q)' /\ Answered(q)'
  BY <1>1, <1>2, <1>3 DEF Accept, AskInv, AskTypeOK, Listed, Decided, Answered, turns, asked
<1> QED
  BY <1>4, <1>5 DEF AskInv

LEMMA NextAskInv == AskInv /\ [AskNext]_askVars => AskInv'
<1> SUFFICES ASSUME AskInv, [AskNext]_askVars PROVE AskInv'
  OBVIOUS
<1>1. CASE BecomeReady \/ RecordTurn \/ ReleaseTurn \/ CloseService \/ \E c \in Commands : BeginCommand(c)
  BY <1>1, ServiceSteps
<1>2. ASSUME NEW r \in Requests,
             \/ Register(r) \/ Refuse(r) \/ EndContext(r) \/ Return(r)
             \/ \E k \in Contents : Ask(r, k)
      PROVE  AskInv'
  BY <1>2, RequestSteps
<1>3. ASSUME NEW r \in Requests, NEW k \in Contents, Approve(r, k) \/ CommitRequest(r, k)
      PROVE  AskInv'
  BY <1>3, DecisionSteps
<1>4. CASE UNCHANGED askVars
  BY <1>4 DEF askVars, AskInv, AskTypeOK, Listed, Decided, Answered
<1> QED
  BY <1>1, <1>2, <1>3, <1>4 DEF AskNext

\* A question is decided once at most, by whoever comes first; an agent that is told an
\* answer is told what was decided about exactly the question it asked; a decision is
\* lost only to an ended context or to Close; and no entry of the list leaks.
THEOREM QuestionsAreDecidedSoundly == AskSpec => []DecisionsAreSound
<1>1. AskInv => DecisionsAreSound
  <2> SUFFICES ASSUME AskInv PROVE DecisionsAreSound
    OBVIOUS
  <2>1. OneDecision
    BY DEF AskInv, Decided, OneDecision
  <2>2. AnswerWasDecided
    BY DEF AskInv, Decided, Answered, AnswerWasDecided
  <2>3. DecisionArrives
    BY DEF AskInv, Answered, DecisionArrives
  <2>4. PendingHasWaiter
    BY DEF AskInv, AskTypeOK, Listed, PendingHasWaiter
  <2> QED
    BY <2>1, <2>2, <2>3, <2>4 DEF AskInv, DecisionsAreSound
<1> QED
  BY <1>1, InitAskInv, NextAskInv, PTL DEF AskSpec

----------------------------------------
(* Events.  The ring is an interval of numbers that ends in sequence; and what the *)
(* client was given or told of this incarnation is everything up to its cursor,    *)
(* if the cursor is of this incarnation, and nothing if it is not.                 *)

\* The number before the first event of the ring.
Base == sequence - Len(events)

RingIsInterval ==
    /\ Len(events) <= sequence
    /\ Len(events) = 0 => sequence = 0
    /\ \A i \in 1..Len(events) : events[i] = Base + i

\* What the client was given or told, or passed over.
Told == Range(received) \cup reported \cup {x[1] : x \in {y \in unreported : y[2] = incarnation}}

ClientInStep ==
    /\ since <= incarnation
    /\ \A x \in unreported : x[2] <= since /\ x[3] # x[2]
    /\ since = incarnation => cursor <= sequence /\ Told = 1..cursor
    /\ since # incarnation => received = <<>> /\ Told = {}

RingInv == RingTypeOK /\ RingIsInterval /\ ReceivedInOrder /\ ClientInStep

\* What is in a sequence stands at one of its places.
LEMMA RangeOfSequence ==
    ASSUME NEW S, NEW s \in Seq(S)
    PROVE  /\ \A i \in 1..Len(s) : s[i] \in Range(s)
           /\ \A n \in Range(s) : \E i \in 1..Len(s) : n = s[i]
BY DEF Range

\* The news are the events of the ring above a number, in order.
LEMMA NewsAreLater ==
    ASSUME RingTypeOK, RingIsInterval, NEW after \in Nat, NEW news, news = News(after)
    PROVE  /\ news \in Seq(1..sequence)
           /\ \A i, j \in 1..Len(news) : i < j => news[i] < news[j]
           /\ Range(news) = {n \in 1..sequence : n > after /\ n > Base}
<1> DEFINE len == Len(events)
           m == IF after <= Base THEN 0 ELSE IF after - Base <= len THEN after - Base ELSE len
           kept == {i \in DOMAIN events : events[i] > after}
<1>1. /\ len \in Nat /\ sequence \in Nat /\ Base \in Nat /\ DOMAIN events = 1..len
      /\ sequence = Base + len
  BY DEF RingTypeOK, RingIsInterval, Base
<1>2. /\ m \in Nat /\ m <= len /\ len - m \in Nat
      /\ \A n \in 1..sequence : n > after /\ n > Base <=> n > Base + m
  BY <1>1
<1>3. kept = (m + 1)..len
  BY <1>1 DEF RingIsInterval
<1> HIDE DEF m, kept
<1>4. Cardinality(kept) = len - m
  <2>1. m + 1 \in Int /\ len \in Int
    BY <1>1, <1>2
  <2>2. Cardinality((m + 1)..len) = IF m + 1 > len THEN 0 ELSE len - (m + 1) + 1
    BY <2>1, FS_Interval
  <2> QED
    BY <1>1, <1>2, <1>3, <2>2
<1>5. ASSUME NEW i \in kept PROVE Cardinality({j \in kept : j <= i}) = i - m
  <2>1. {j \in kept : j <= i} = (m + 1)..i /\ i \in Nat /\ i >= m + 1
    BY <1>1, <1>2, <1>3
  <2>2. m + 1 \in Int /\ i \in Int
    BY <1>2, <2>1
  <2>3. Cardinality((m + 1)..i) = IF m + 1 > i THEN 0 ELSE i - (m + 1) + 1
    BY <2>2, FS_Interval
  <2>4. Cardinality({j \in kept : j <= i}) = Cardinality((m + 1)..i)
    BY <2>1
  <2>5. Cardinality((m + 1)..i) = i - m
    BY <1>2, <2>1, <2>3
  <2> QED
    BY <2>4, <2>5
<1>6. ASSUME NEW k \in 1..(len - m)
      PROVE  (CHOOSE i \in kept : Cardinality({j \in kept : j <= i}) = k) = m + k
  <2>1. m + k \in kept
    BY <1>1, <1>2, <1>3
  <2>2. \A i \in kept : i - m = k <=> i = m + k
    BY <1>1, <1>2, <1>3
  <2>3. \A i \in kept : Cardinality({j \in kept : j <= i}) = k <=> i = m + k
    BY <1>5, <2>2
  <2> QED
    BY <2>1, <2>3
<1>7. news = [k \in 1..(len - m) |-> events[m + k]]
  <2>1. news = [k \in 1..Cardinality(kept) |->
                   events[CHOOSE i \in kept : Cardinality({j \in kept : j <= i}) = k]]
    BY DEF News, EventsAt, kept
  <2> QED
    BY <1>4, <1>6, <2>1
<1>8. \A k \in 1..(len - m) : events[m + k] = Base + m + k /\ Base + m + k \in 1..sequence
  BY <1>1, <1>2 DEF RingIsInterval
<1>9. news = [k \in 1..(len - m) |-> Base + m + k]
  BY <1>7, <1>8
<1>10. news \in Seq(1..sequence) /\ Len(news) = len - m
  BY <1>2, <1>8, <1>9
<1>11. \A i, j \in 1..Len(news) : i < j => news[i] < news[j]
  BY <1>1, <1>2, <1>9, <1>10
<1>12. ASSUME NEW n \in 1..sequence, n > Base + m PROVE n \in Range(news)
  <2>1. n - (Base + m) \in 1..(len - m) /\ news[n - (Base + m)] = n
    BY <1>1, <1>2, <1>9, <1>12
  <2> QED
    BY <1>9, <2>1 DEF Range
<1>13. ASSUME NEW n \in Range(news) PROVE n \in 1..sequence /\ n > Base + m
  <2>1. PICK k \in 1..(len - m) : n = Base + m + k
    BY <1>9 DEF Range
  <2> QED
    BY <1>1, <1>2, <1>8, <2>1
<1> QED
  BY <1>2, <1>10, <1>11, <1>12, <1>13

\* An event goes to the end of the ring, and the oldest goes when there are too many.
LEMMA LatestIsInterval ==
    ASSUME RingAssumption, RingTypeOK, RingIsInterval, Event
    PROVE  /\ events' \in Seq(1..MaxSequence) /\ Len(events') <= Size
           /\ RingIsInterval'
<1> DEFINE more == Append(events, sequence + 1)
<1>1. /\ sequence \in Nat /\ sequence + 1 \in 1..MaxSequence /\ sequence' = sequence + 1
      /\ events \in Seq(1..MaxSequence) /\ Len(events) \in Nat /\ Len(events) <= Size
      /\ Size \in Nat /\ Size > 0 /\ Base \in Nat /\ sequence = Base + Len(events)
  BY DEF RingAssumption, RingTypeOK, RingIsInterval, Event, Base
<1>2. /\ more \in Seq(1..MaxSequence) /\ Len(more) = Len(events) + 1
      /\ \A i \in 1..Len(more) : more[i] = Base + i
  <2>1. \A i \in 1..Len(events) : more[i] = events[i] /\ events[i] = Base + i
    BY <1>1 DEF RingIsInterval
  <2>2. more[Len(events) + 1] = Base + Len(events) + 1
    BY <1>1
  <2>3. more \in Seq(1..MaxSequence) /\ Len(more) = Len(events) + 1
    <3>1. events \in Seq(1..MaxSequence) /\ sequence + 1 \in 1..MaxSequence
      BY <1>1
    <3> QED
      BY <3>1, AppendProperties, Zenon
  <2> HIDE DEF more
  <2>4. ASSUME NEW i \in 1..Len(more) PROVE more[i] = Base + i
    <3>1. i \in 1..Len(events) \/ i = Len(events) + 1
      BY <1>1, <2>3
    <3>2. CASE i \in 1..Len(events)
      <4>1. more[i] = events[i] /\ events[i] = Base + i
        BY <2>1, <3>2
      <4> QED
        BY <4>1
    <3>3. CASE i = Len(events) + 1
      <4>1. more[i] = Base + Len(events) + 1
        BY <2>2, <3>3
      <4> QED
        BY <1>1, <3>3, <4>1
    <3> QED
      BY <3>1, <3>2, <3>3
  <2> QED
    BY <2>3, <2>4
<1>3. events' = Latest(more)
  BY DEF Event
<1> HIDE DEF more
<1>4. CASE Len(more) > Size
  <2>1. Len(more) = Size + 1 /\ events' = SubSeq(more, 2, Len(more))
    <3>1. Len(more) = Size + 1 /\ Len(more) - Size + 1 = 2
      BY <1>1, <1>2, <1>4
    <3> QED
      BY <1>3, <1>4, <3>1 DEF Latest
  <2>2. /\ events' \in Seq(1..MaxSequence) /\ Len(events') = Size
        /\ \A i \in 1..Size : events'[i] = more[i + 1]
    BY <1>1, <1>2, <2>1
  <2>3. Len(events) = Size /\ Base' = Base + 1
    <3>1. Base' = sequence' - Len(events')
      BY DEF Base
    <3>2. Len(events) = Size
      BY <1>1, <1>2, <2>1
    <3>3. Len(events') = Size
      BY <2>2
    <3> QED
      BY <1>1, <3>1, <3>2, <3>3
  <2>4. \A i \in 1..Size : i + 1 \in 1..Len(more) /\ events'[i] = Base + (i + 1)
    BY <1>1, <1>2, <2>1, <2>2
  <2>5. \A i \in 1..Len(events') : events'[i] = Base' + i
    BY <1>1, <2>2, <2>3, <2>4
  <2>6. Len(events') <= sequence' /\ Len(events') # 0
    BY <1>1, <2>2, <2>3
  <2> QED
    BY <2>2, <2>5, <2>6, <1>1 DEF RingIsInterval
<1>5. CASE ~(Len(more) > Size)
  <2>1. events' = more
    BY <1>3, <1>5 DEF Latest
  <2>2. Base' = Base /\ Len(events') <= sequence' /\ Len(events') # 0
    <3>1. Base' = sequence' - Len(events')
      BY DEF Base
    <3> QED
      BY <1>1, <1>2, <2>1, <3>1
  <2> QED
    BY <1>1, <1>2, <1>5, <2>1, <2>2 DEF RingIsInterval
<1> QED
  BY <1>4, <1>5

\* An event is nothing to the client until it polls.
LEMMA EventInv == ASSUME RingAssumption, RingInv, Event PROVE RingInv'
<1>1. UNCHANGED <<incarnation, cursor, since, received, reported, unreported>>
  BY DEF Event
<1>2. sequence' = sequence + 1 /\ sequence' \in 0..MaxSequence /\ cursor \in Nat /\ sequence \in Nat
  BY DEF Event, RingInv, RingTypeOK, RingAssumption
<1>3. RingTypeOK' /\ RingIsInterval'
  BY <1>1, <1>2, LatestIsInterval DEF RingInv, RingTypeOK
<1>4. ReceivedInOrder'
  BY <1>1 DEF RingInv, ReceivedInOrder
<1>5. Told' = Told
  BY <1>1 DEF Told
<1>6. ClientInStep'
  BY <1>1, <1>2, <1>5 DEF RingInv, ClientInStep
<1> QED
  BY <1>3, <1>4, <1>6 DEF RingInv

\* A client whose cursor is of this incarnation and that is told of no gap misses
\* nothing: the ring reaches back to its cursor.
LEMMA NothingMissing ==
    ASSUME RingInv, since = incarnation, ~Gap(cursor)
    PROVE  Missing = {}
<1>1. /\ Told = 1..cursor /\ cursor \in Nat /\ sequence \in Nat /\ Len(events) \in Nat
      /\ Base \in Nat /\ sequence = Base + Len(events)
  BY DEF RingInv, ClientInStep, RingTypeOK, RingIsInterval, Base
<1>2. Range(News(cursor)) = {n \in 1..sequence : n > cursor /\ n > Base}
  BY <1>1, NewsAreLater DEF RingInv
<1>3. CASE Len(events) = 0
  BY <1>1, <1>3 DEF RingInv, RingIsInterval, Missing
<1>4. CASE Len(events) # 0
  <2>1. events # <<>> /\ Head(events) = Base + 1
    BY <1>1, <1>4 DEF RingInv, RingIsInterval, RingTypeOK
  <2>2. cursor >= Base
    BY <1>1, <2>1 DEF Gap
  <2>3. \A n \in 1..sequence : n \in Told \/ n \in Range(News(cursor))
    BY <1>1, <1>2, <2>2
  <2> QED
    BY <2>3 DEF Missing, Told
<1> QED
  BY <1>3, <1>4

\* Once told of a gap, or of none where there is none, the client has caught up.
LEMMA PollInv == ASSUME RingAssumption, RingInv, Poll PROVE RingInv'
<1> DEFINE news == News(cursor)
<1>1. /\ received' = received \o news /\ cursor' = sequence /\ since' = incarnation
      /\ UNCHANGED <<incarnation, sequence, events>>
  BY DEF Poll
<1>2. /\ news \in Seq(1..sequence)
      /\ \A i, j \in 1..Len(news) : i < j => news[i] < news[j]
      /\ Range(news) = {n \in 1..sequence : n > cursor /\ n > Base}
  <2>1. cursor \in Nat
    BY DEF RingInv, RingTypeOK
  <2> QED
    BY <2>1, NewsAreLater DEF RingInv
<1>3. /\ sequence \in Nat /\ cursor \in Nat /\ sequence <= MaxSequence /\ MaxSequence \in Nat
      /\ received \in Seq(1..MaxSequence) /\ Len(received) \in Nat
      /\ incarnation \in 1..MaxIncarnation /\ since \in 1..MaxIncarnation
      /\ MaxIncarnation \in Nat
  BY DEF RingInv, RingTypeOK, RingAssumption
<1>4. /\ Missing \subseteq 1..sequence
      /\ 1..sequence \subseteq Told \cup Range(news) \cup Missing
      /\ Range(news) \subseteq 1..sequence
  BY <1>2 DEF Missing, Told
<1> HIDE DEF news
<1>5. received' \in Seq(1..MaxSequence) /\ Range(received') = Range(received) \cup Range(news)
  <2>1. news \in Seq(1..MaxSequence)
    BY <1>2, <1>3
  <2>2. /\ received' \in Seq(1..MaxSequence)
        /\ Len(received') = Len(received) + Len(news)
        /\ \A i \in 1..Len(received) : received'[i] = received[i]
        /\ \A i \in 1..Len(news) : received'[Len(received) + i] = news[i]
    BY <1>1, <1>3, <2>1
  <2>3. Len(news) \in Nat
    BY <2>1
  <2>4. ASSUME NEW n \in Range(received') PROVE n \in Range(received) \cup Range(news)
    <3>1. PICK k \in 1..(Len(received) + Len(news)) : n = received'[k]
      BY <2>2, <2>4, RangeOfSequence
    <3>2. CASE k <= Len(received)
      <4>1. k \in 1..Len(received) /\ n = received[k]
        BY <1>3, <2>2, <3>1, <3>2
      <4> QED
        BY <1>3, <4>1, RangeOfSequence
    <3>3. CASE ~(k <= Len(received))
      <4>1. k - Len(received) \in 1..Len(news) /\ k = Len(received) + (k - Len(received))
        BY <1>3, <2>3, <3>3
      <4>2. n = news[k - Len(received)]
        BY <2>2, <3>1, <4>1
      <4> QED
        BY <2>1, <4>1, <4>2, RangeOfSequence
    <3> QED
      BY <3>2, <3>3
  <2>5. ASSUME NEW n \in Range(received) PROVE n \in Range(received')
    <3>1. PICK k \in 1..Len(received) : n = received[k]
      BY <1>3, <2>5, RangeOfSequence
    <3>2. k \in 1..Len(received') /\ n = received'[k]
      BY <1>3, <2>2, <2>3, <3>1
    <3> QED
      BY <2>2, <3>2, RangeOfSequence
  <2>6. ASSUME NEW n \in Range(news) PROVE n \in Range(received')
    <3>1. PICK k \in 1..Len(news) : n = news[k]
      BY <2>1, <2>6, RangeOfSequence
    <3>2. Len(received) + k \in 1..Len(received') /\ n = received'[Len(received) + k]
      BY <1>3, <2>2, <2>3, <3>1
    <3> QED
      BY <2>2, <3>2, RangeOfSequence
  <2> QED
    BY <2>2, <2>4, <2>5, <2>6
<1>6. /\ reported' \in SUBSET (1..MaxSequence)
      /\ unreported' \in SUBSET ((1..MaxSequence) \X (1..MaxIncarnation) \X (1..MaxIncarnation))
      /\ Told' = Told \cup Range(news) \cup Missing
      /\ \A x \in unreported' : x[2] <= incarnation /\ x[3] # x[2]
  <2>1. CASE Gap(cursor)
    <3>1. reported' = reported \cup Missing /\ unreported' = unreported
      BY <2>1 DEF Poll
    <3> QED
      BY <1>1, <1>3, <1>4, <1>5, <3>1 DEF Told, RingInv, RingTypeOK, ClientInStep
  <2>2. CASE ~Gap(cursor)
    <3> DEFINE passed == {<<n, incarnation, since>> : n \in Missing}
    <3>1. reported' = reported /\ unreported' = unreported \cup passed
      BY <2>2 DEF Poll
    <3>2. passed \subseteq (1..MaxSequence) \X (1..MaxIncarnation) \X (1..MaxIncarnation)
      BY <1>3, <1>4
    <3>3. \A x \in passed : x[2] = incarnation /\ x[3] = since /\ x[1] \in Missing
      OBVIOUS
    <3>4. \A n \in Missing : <<n, incarnation, since>> \in passed
      OBVIOUS
    <3>5. passed # {} => since # incarnation
      BY <2>2, NothingMissing
    <3> HIDE DEF passed
    <3>6. Told' = Told \cup Range(news) \cup Missing
      <4> DEFINE Of(U) == {x[1] : x \in {y \in U : y[2] = incarnation}}
      <4>1. Of(unreported') = Of(unreported) \cup Of(passed)
        BY <3>1
      <4>2. Of(passed) = Missing
        <5>1. Of(passed) \subseteq Missing
          BY <3>3
        <5>2. \A n \in Missing : <<n, incarnation, since>>[1] = n
          OBVIOUS
        <5>3. Missing \subseteq Of(passed)
          BY <3>3, <3>4, <5>2
        <5> QED
          BY <5>1, <5>3
      <4>3. Told = Range(received) \cup reported \cup Of(unreported)
        BY DEF Told
      <4>4. Told' = Range(received') \cup reported' \cup Of(unreported')
        BY <1>1 DEF Told
      <4> HIDE DEF Of
      <4> QED
        BY <1>5, <3>1, <4>1, <4>2, <4>3, <4>4
    <3>7. \A x \in unreported' : x[2] <= incarnation /\ x[3] # x[2]
      BY <1>3, <3>1, <3>3, <3>5 DEF RingInv, RingTypeOK, ClientInStep
    <3> QED
      BY <3>1, <3>2, <3>6, <3>7 DEF RingInv, RingTypeOK
  <2> QED
    BY <2>1, <2>2
<1>7. RingTypeOK' /\ RingIsInterval'
  BY <1>1, <1>3, <1>5, <1>6 DEF RingInv, RingTypeOK, RingIsInterval, Base
<1>8. Told \subseteq 1..cursor /\ (Told # {} => cursor <= sequence)
  BY <1>3 DEF RingInv, ClientInStep
<1>9. ClientInStep'
  <2>1. Told \subseteq 1..sequence
    BY <1>3, <1>8
  <2>2. Told' = 1..sequence
    BY <1>4, <1>6, <2>1
  <2> QED
    BY <1>1, <1>3, <1>6, <2>2 DEF ClientInStep
<1>10. ReceivedInOrder'
  <2>1. /\ DOMAIN received' = 1..(Len(received) + Len(news)) /\ DOMAIN received = 1..Len(received)
        /\ Len(news) \in Nat
        /\ \A i \in 1..Len(received) : received'[i] = received[i] /\ received[i] \in 1..cursor
        /\ \A i \in 1..Len(news) : received'[Len(received) + i] = news[i] /\ news[i] > cursor
    <3>1. \A i \in 1..Len(received) : received[i] \in Told
      BY <1>3, RangeOfSequence DEF Told
    <3>2. \A i \in 1..Len(news) : news[i] \in Range(news)
      BY <1>2, RangeOfSequence
    <3> QED
      BY <1>1, <1>2, <1>3, <1>8, <3>1, <3>2
  <2>2. SUFFICES ASSUME NEW i \in DOMAIN received', NEW j \in DOMAIN received', i < j
                 PROVE  received'[i] < received'[j]
    BY DEF ReceivedInOrder
  <2>3. CASE j <= Len(received)
    <3>1. i \in DOMAIN received /\ j \in DOMAIN received
      BY <1>3, <2>1, <2>2, <2>3
    <3> QED
      BY <2>1, <2>2, <3>1 DEF RingInv, ReceivedInOrder
  <2>4. CASE ~(j <= Len(received)) /\ i <= Len(received)
    <3> DEFINE b == j - Len(received)
    <3>1. i \in 1..Len(received) /\ b \in 1..Len(news) /\ j = Len(received) + b
      BY <1>3, <2>1, <2>2, <2>4
    <3>2. received'[i] \in 1..cursor /\ received'[j] = news[b] /\ news[b] > cursor
      BY <2>1, <3>1
    <3>3. news[b] \in Nat
      BY <1>2, <1>3, <3>1
    <3> QED
      BY <1>3, <3>2, <3>3
  <2>5. CASE ~(i <= Len(received))
    <3> DEFINE a == i - Len(received)
               b == j - Len(received)
    <3>1. i \in Nat /\ j \in Nat /\ i <= Len(received) + Len(news) /\ j <= Len(received) + Len(news)
      BY <1>3, <2>1
    <3>2. a \in 1..Len(news) /\ i = Len(received) + a
      BY <1>3, <2>1, <2>5, <3>1
    <3>3. b \in 1..Len(news) /\ j = Len(received) + b
      BY <1>3, <2>1, <2>2, <2>5, <3>1
    <3>4. a < b
      BY <1>3, <2>2, <3>1
    <3> HIDE DEF a, b
    <3> QED
      BY <1>2, <2>1, <3>2, <3>3, <3>4
  <2> QED
    BY <2>3, <2>4, <2>5
<1> QED
  BY <1>7, <1>9, <1>10 DEF RingInv

\* A new process has an empty ring, and has told its clients nothing.
LEMMA RestartInv == ASSUME RingAssumption, RingInv, Restart PROVE RingInv'
<1>1. /\ incarnation' = incarnation + 1 /\ incarnation < MaxIncarnation
      /\ sequence' = 0 /\ events' = <<>> /\ received' = <<>> /\ reported' = {}
      /\ UNCHANGED <<cursor, since, unreported>>
  BY DEF Restart
<1>2. /\ incarnation \in 1..MaxIncarnation /\ MaxIncarnation \in Nat /\ MaxSequence \in Nat
      /\ since \in 1..MaxIncarnation /\ Size \in Nat
      /\ unreported \subseteq (1..MaxSequence) \X (1..MaxIncarnation) \X (1..MaxIncarnation)
  BY DEF RingInv, RingTypeOK, RingAssumption
<1>3. RingTypeOK' /\ RingIsInterval' /\ ReceivedInOrder'
  BY <1>1, <1>2 DEF RingInv, RingTypeOK, RingIsInterval, ReceivedInOrder, Base
<1>4. Told' = {}
  <2>1. \A x \in unreported : x[2] # incarnation'
    BY <1>1, <1>2 DEF RingInv, ClientInStep
  <2>2. Range(received') = {}
    BY <1>1 DEF Range
  <2> QED
    BY <1>1, <2>1, <2>2 DEF Told
<1>5. since # incarnation' /\ since <= incarnation'
  BY <1>1, <1>2 DEF RingInv, ClientInStep
<1>6. ClientInStep'
  BY <1>1, <1>4, <1>5 DEF RingInv, ClientInStep
<1> QED
  BY <1>3, <1>6 DEF RingInv

\* What a client was given and told is what happened, whatever the size of the ring: in
\* order, once, every loss reported if its number is of this process, and no false alarm.
THEOREM PollingTellsTheTruth == RingSpec => []PollingIsHonest
<1>1. RingInit => RingInv
  <2> SUFFICES ASSUME RingInit PROVE RingInv
    OBVIOUS
  <2>1. RingTypeOK /\ RingIsInterval /\ ReceivedInOrder
    BY RingAssumption DEF RingInit, RingAssumption, RingTypeOK, RingIsInterval, ReceivedInOrder, Base
  <2>2. Told = {}
    BY DEF RingInit, Told, Range
  <2> QED
    BY <2>1, <2>2 DEF RingInv, RingInit, ClientInStep
<1>2. RingInv /\ [RingNext]_ringVars => RingInv'
  <2> SUFFICES ASSUME RingInv, [RingNext]_ringVars PROVE RingInv'
    OBVIOUS
  <2>1. CASE Event
    BY <2>1, EventInv, RingAssumption
  <2>2. CASE Poll
    BY <2>2, PollInv, RingAssumption
  <2>3. CASE Restart
    BY <2>3, RestartInv, RingAssumption
  <2>4. CASE UNCHANGED ringVars
    BY <2>4 DEF ringVars, RingInv, RingTypeOK, RingIsInterval, ReceivedInOrder, ClientInStep,
               Told, Base
  <2> QED
    BY <2>1, <2>2, <2>3, <2>4 DEF RingNext
<1>3. RingInv => PollingIsHonest
  <2> SUFFICES ASSUME RingInv PROVE LossIsReported
    BY DEF RingInv, PollingIsHonest
  <2>1. ASSUME Gap(cursor) PROVE Missing # {}
    <3>1. /\ cursor \in Nat /\ sequence \in Nat /\ Base \in Nat /\ Len(events) \in Nat
          /\ sequence = Base + Len(events)
      BY DEF RingInv, RingTypeOK, RingIsInterval, Base
    <3>2. events # <<>> /\ Len(events) # 0 /\ Head(events) = Base + 1
      BY <2>1, <3>1 DEF Gap, RingInv, RingTypeOK, RingIsInterval
    <3>3. cursor + 1 \in 1..sequence /\ ~(cursor + 1 > Base)
      BY <2>1, <3>1, <3>2 DEF Gap
    <3>4. cursor + 1 \notin Range(News(cursor))
      BY <3>1, <3>3, NewsAreLater DEF RingInv
    <3>5. cursor + 1 \notin Told
      BY <3>1 DEF RingInv, ClientInStep
    <3> QED
      BY <3>3, <3>4, <3>5 DEF Missing, Told
  <2> QED
    BY <2>1 DEF RingInv, ClientInStep, LossIsReported
<1> QED
  BY <1>1, <1>2, <1>3, PTL DEF RingSpec
========================================
