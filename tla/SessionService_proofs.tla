------------------------- MODULE SessionService_proofs -------------------------
(* Theorems about SessionService for every set of sessions, conversations and *)
(* commands.                                                                  *)
EXTENDS SessionService, TLAPS

--------------------------------------------------------------------------------
(* Type correctness. *)

LEMMA PutConversationType ==
    ASSUME TypeOK, NEW k \in Conversations, NEW c \in Conversation, PutConversation(k, c)
    PROVE  convs' \in [Conversations -> Conversation] /\ savedConvs' = convs'
  BY DEF TypeOK, PutConversation

LEMMA TurnType ==
    ASSUME TypeOK, NEW c \in Commands, NEW stage \in Stages,
           NEW outcome \in Outcomes \cup {"running"}
    PROVE  /\ [turn[c] EXCEPT !.stage = stage] \in Turn
           /\ [turn[c] EXCEPT !.stage = stage, !.outcome = outcome] \in Turn
<1>1. turn[c] \in Turn
  BY DEF TypeOK
<1> QED
  BY <1>1 DEF Turn

LEMMA CommandsType ==
    ASSUME TypeOK, NEW k \in Conversations, NEW c \in Commands, NEW status \in Statuses
    PROVE  [convs[k] EXCEPT !.commands[c] = status] \in Conversation
<1>1. convs[k] \in Conversation
  BY DEF TypeOK
<1>2. convs[k].commands \in [Commands -> Statuses]
  BY <1>1 DEF Conversation
<1>3. [convs[k].commands EXCEPT ![c] = status] \in [Commands -> Statuses]
  BY <1>2
<1> QED
  BY <1>1, <1>3 DEF Conversation

LEMMA InterruptedType ==
    ASSUME NEW status \in [Commands -> Statuses]
    PROVE  Interrupted(status) \in [Commands -> Statuses]
  BY DEF Interrupted, Statuses, Outcomes

LEMMA InitType == Init => TypeOK
  BY MaxRevisionAssumption
  DEF Init, TypeOK, NoCommands, Absent, Conversation, NoTurn, Turn, Stages, Statuses, Outcomes

LEMMA StopType == TypeOK /\ Stop => TypeOK'
  BY DEF Stop, TypeOK, files, NoTurn, Turn, Stages, Outcomes

LEMMA NextType == TypeOK /\ [Next]_vars => TypeOK'
<1> SUFFICES ASSUME TypeOK, [Next]_vars PROVE TypeOK'
  OBVIOUS
<1> USE DEF files, memory
<1>1. ASSUME NEW s \in Sessions, SelectSession(s) PROVE TypeOK'
  BY <1>1 DEF SelectSession, TypeOK
<1>2. ASSUME NEW s \in Sessions, BeginSelectModel(s) PROVE TypeOK'
  BY <1>2 DEF BeginSelectModel, TypeOK
<1>3. ASSUME NEW s \in Sessions, EndSelectModel(s) PROVE TypeOK'
  BY <1>3 DEF EndSelectModel, TypeOK
<1>4. ASSUME NEW k \in Conversations, NEW s \in Sessions, CreateConversation(k, s)
      PROVE TypeOK'
  <2> DEFINE new == [Absent EXCEPT !.revision = 1, !.selected = s, !.links = {s}]
  <2>1. new \in Conversation
    BY DEF Absent, Conversation, NoCommands, Statuses
  <2> QED
    BY <1>4, <2>1, PutConversationType DEF CreateConversation, TypeOK
<1>5. ASSUME NEW k \in Conversations, NEW s \in Sessions, SwitchConversation(k, s)
      PROVE TypeOK'
  <2> DEFINE new == [convs[k] EXCEPT !.revision = @ + 1, !.selected = s, !.links = @ \cup {s}]
  <2>1. new \in Conversation
    <3>1. convs[k] \in Conversation
      BY DEF TypeOK
    <3>2. convs[k].revision + 1 \in Nat /\ convs[k].links \cup {s} \in SUBSET Sessions
      BY <3>1 DEF Conversation
    <3> QED
      BY <3>1, <3>2 DEF Conversation
  <2> QED
    BY <1>5, <2>1, PutConversationType DEF SwitchConversation, TypeOK
<1>6. ASSUME NEW k \in Conversations, NEW s \in Sessions, NEW c \in Commands,
             PromptConversation(k, s, c)
      PROVE TypeOK'
  <2> DEFINE new == [convs[k] EXCEPT !.commands[c] = "running"]
  <2>1. new \in Conversation
    BY CommandsType DEF Statuses
  <2>2. convs' \in [Conversations -> Conversation] /\ savedConvs' = convs'
    BY <1>6, <2>1, PutConversationType DEF PromptConversation
  <2>3. turn' \in [Commands -> Turn]
    BY <1>6 DEF PromptConversation, Spawn, TypeOK, Turn, Stages
  <2> QED
    BY <1>6, <2>2, <2>3 DEF PromptConversation, TypeOK
<1>7. ASSUME NEW s \in Sessions, NEW c \in Commands, PromptDirect(s, c) PROVE TypeOK'
  <2>1. turn' \in [Commands -> Turn]
    BY <1>7 DEF PromptDirect, Spawn, TypeOK, Turn, Stages
  <2> QED
    BY <1>7, <2>1 DEF PromptDirect, TypeOK, Statuses
<1>8. ASSUME NEW c \in Commands, Deliver(c) PROVE TypeOK'
  <2>1. turn' \in [Commands -> Turn]
    BY <1>8, TurnType DEF Deliver, TypeOK, Stages
  <2>2. deliveries' \in [Commands -> Nat]
    BY <1>8 DEF Deliver, TypeOK
  <2> QED
    BY <1>8, <2>1, <2>2 DEF Deliver, TypeOK
<1>9. ASSUME NEW c \in Commands, ReleaseDirect(c) PROVE TypeOK'
  <2>1. PICK outcome \in Returns(c) : Settle(c, outcome)
    BY <1>9 DEF ReleaseDirect
  <2>2. turn' \in [Commands -> Turn]
    BY <2>1, TurnType DEF Returns, Settle, TypeOK, Stages, Outcomes
  <2> QED
    BY <1>9, <2>2 DEF ReleaseDirect, TypeOK
<1>10. ASSUME NEW c \in Commands, RecordDirect(c) PROVE TypeOK'
  <2>1. turn' \in [Commands -> Turn]
    BY <1>10 DEF RecordDirect, TypeOK, NoTurn, Turn, Stages
  <2>2. receipts' \in [Commands -> Statuses]
    BY <1>10 DEF RecordDirect, TypeOK, Turn, Statuses
  <2> QED
    BY <1>10, <2>1, <2>2 DEF RecordDirect, TypeOK
<1>11. ASSUME NEW c \in Commands, RecordConversation(c) PROVE TypeOK'
  <2> DEFINE k == turn[c].conv
  <2>1. k \in Conversations
    BY <1>11 DEF RecordConversation, TypeOK, Turn
  <2>2. PICK outcome \in Returns(c) : Settle(c, outcome) /\ RecordOutcome(k, c, outcome)
    BY <1>11 DEF RecordConversation
  <2>3. outcome \in Outcomes
    BY DEF Returns, Outcomes
  <2>4. turn' \in [Commands -> Turn]
    BY <2>2, <2>3, TurnType DEF Settle, TypeOK, Stages
  <2>5. CASE PutConversation(k, [convs[k] EXCEPT !.commands[c] = outcome])
    <3>1. [convs[k] EXCEPT !.commands[c] = outcome] \in Conversation
      BY <2>1, <2>3, CommandsType DEF Statuses
    <3> QED
      BY <1>11, <2>1, <2>4, <2>5, <3>1, PutConversationType DEF RecordConversation, TypeOK
  <2>6. CASE /\ convs' = [convs EXCEPT ![k] = [@ EXCEPT !.commands[c] = "uncertain"]]
            /\ UNCHANGED savedConvs
    <3>1. convs' \in [Conversations -> Conversation]
      BY <2>1, <2>6, CommandsType DEF TypeOK, Statuses, Outcomes
    <3> QED
      BY <1>11, <2>4, <2>6, <3>1 DEF RecordConversation, TypeOK
  <2> QED
    BY <2>2, <2>5, <2>6 DEF RecordOutcome
<1>12. ASSUME NEW c \in Commands, ReleaseConversation(c) PROVE TypeOK'
  BY <1>12 DEF ReleaseConversation, TypeOK, NoTurn, Turn, Stages
<1>13. CASE Close
  BY <1>13 DEF Close, TypeOK
<1>14. CASE Exit \/ Crash
  BY <1>14, StopType DEF Exit, Crash
<1>15. CASE Restart
  <2>1. Interrupted(savedReceipts) \in [Commands -> Statuses]
    BY InterruptedType DEF TypeOK
  <2>2. ASSUME NEW k \in Conversations
        PROVE  [savedConvs[k] EXCEPT !.commands = Interrupted(@)] \in Conversation
    <3>1. Interrupted(savedConvs[k].commands) \in [Commands -> Statuses]
      BY InterruptedType DEF TypeOK, Conversation
    <3> QED
      BY <3>1 DEF TypeOK, Conversation
  <2> QED
    BY <1>15, <2>1, <2>2 DEF Restart, TypeOK
<1>16. CASE UNCHANGED vars
  BY <1>16 DEF vars, TypeOK
<1> QED
  BY <1>1, <1>2, <1>3, <1>4, <1>5, <1>6, <1>7, <1>8, <1>9, <1>10, <1>11, <1>12, <1>13,
     <1>14, <1>15, <1>16 DEF Next, Finish

\* Every reachable state of the service is well typed.
THEOREM TypeCorrect == Spec => []TypeOK
  BY InitType, NextType, PTL DEF Spec

--------------------------------------------------------------------------------
(* The inductive invariant.  Each part is what some step needs to know of the *)
(* state before it, beyond the properties themselves.                         *)

\* The goroutine still owns the session's busy flag.
Holds(c) ==
    \/ Live(c)
    \/ turn[c].stage = "settling" /\ turn[c].conv # NoConversation

\* A turn names a session, and the record of its command exists: on disk for a
\* direct turn; in its conversation, still running, while the turn is live.
TurnRecorded(c) ==
    turn[c].stage # "idle" =>
        /\ turn[c].session \in Sessions
        /\ turn[c].conv = NoConversation => savedReceipts[c] # "absent"
        /\ turn[c].conv # NoConversation =>
              /\ convs[turn[c].conv].commands[c] # "absent"
              /\ Live(c) => /\ convs[turn[c].conv].commands[c] = "running"
                            /\ savedConvs[turn[c].conv].commands[c] = "running"
TurnsRecorded == \A c \in Commands : TurnRecorded(c)

\* Memory and the files disagree about outcomes only.
FilesFollow ==
    /\ \A c \in Commands : savedReceipts[c] # "absent" => receipts[c] # "absent"
    /\ \A k \in Conversations :
          /\ savedConvs[k].links = convs[k].links
          /\ savedConvs[k].revision = convs[k].revision
          /\ \A c \in Commands :
                savedConvs[k].commands[c] = "absent" <=> convs[k].commands[c] = "absent"

\* Nothing runs while the process is down.
TurnsEndWithProcess == proc = "down" => \A c \in Commands : turn[c].stage = "idle"

DeliveriesRecorded ==
    \A c \in Commands :
        /\ deliveries[c] <= 1
        /\ deliveries[c] # 0 => OnDisk(c)
        /\ turn[c].stage = "spawned" => deliveries[c] = 0

HoldersExclusive ==
    /\ selecting \subseteq busy
    /\ \A c \in Commands : Holds(c) =>
          /\ turn[c].session \in busy \ selecting
          /\ \A d \in Commands \ {c} : Holds(d) => turn[d].session # turn[c].session

OriginInTurn ==
    \A s \in Sessions, c \in Commands : origin[s] = c =>
        turn[c].session = s /\ turn[c].conv # NoConversation /\ turn[c].stage # "idle"

LedgerInv == TurnsEndWithProcess /\ TurnsRecorded /\ FilesFollow /\ RecordedOnce /\ DeliveriesRecorded
TurnInv == HoldersExclusive /\ OriginInTurn
LinkInv == OneConversationPerSession /\ NoDirectTurnInConversation
OutcomeInv == RunningHasTurn /\ OutcomeSurvivesCrash

IInv == TypeOK /\ LedgerInv /\ TurnInv /\ LinkInv /\ OutcomeInv

--------------------------------------------------------------------------------
(* What the larger steps do, field by field. *)

LEMMA UpdateStatus ==
    ASSUME TypeOK, NEW k \in Conversations, NEW c \in Commands, NEW status \in Statuses
    PROVE  LET f == [convs EXCEPT ![k] = [convs[k] EXCEPT !.commands[c] = status]] IN
           \A l \in Conversations :
              /\ f[l].links = convs[l].links
              /\ f[l].revision = convs[l].revision
              /\ \A d \in Commands : f[l].commands[d] =
                    IF l = k /\ d = c THEN status ELSE convs[l].commands[d]
  BY DEF TypeOK, Conversation

LEMMA PromptConversationEffect ==
    ASSUME TypeOK, NEW k \in Conversations, NEW s \in Sessions, NEW c \in Commands,
           PromptConversation(k, s, c)
    PROVE  /\ \A l \in Conversations :
                 /\ convs'[l].links = convs[l].links
                 /\ convs'[l].revision = convs[l].revision
                 /\ \A d \in Commands : convs'[l].commands[d] =
                       IF l = k /\ d = c THEN "running" ELSE convs[l].commands[d]
           /\ savedConvs' = convs'
           /\ turn'[c].stage = "spawned" /\ turn'[c].session = s /\ turn'[c].conv = k
           /\ \A d \in Commands \ {c} : turn'[d] = turn[d]
<1>1. convs' = [convs EXCEPT ![k] = [convs[k] EXCEPT !.commands[c] = "running"]]
  BY DEF PromptConversation, PutConversation
<1>2. "running" \in Statuses
  BY DEF Statuses
<1>3. savedConvs' = convs'
  BY DEF PromptConversation, PutConversation
<1>4. /\ turn'[c].stage = "spawned" /\ turn'[c].session = s /\ turn'[c].conv = k
      /\ \A d \in Commands \ {c} : turn'[d] = turn[d]
  BY DEF PromptConversation, Spawn, TypeOK
<1> QED
  BY <1>1, <1>2, <1>3, <1>4, UpdateStatus

LEMMA RecordConversationEffect ==
    ASSUME TypeOK, NEW c \in Commands, RecordConversation(c)
    PROVE  /\ turn[c].conv \in Conversations
           /\ \E status \in Outcomes :
                 /\ \A l \in Conversations :
                       /\ convs'[l].links = convs[l].links
                       /\ convs'[l].revision = convs[l].revision
                       /\ \A d \in Commands : convs'[l].commands[d] =
                             IF l = turn[c].conv /\ d = c THEN status ELSE convs[l].commands[d]
                 /\ \/ savedConvs' = convs'
                    \/ savedConvs' = savedConvs /\ status = "uncertain"
           /\ turn'[c].stage = "settling"
           /\ turn'[c].session = turn[c].session /\ turn'[c].conv = turn[c].conv
           /\ \A d \in Commands \ {c} : turn'[d] = turn[d]
<1> DEFINE k == turn[c].conv
<1>1. k \in Conversations
  BY DEF RecordConversation, TypeOK, Turn
<1>2. PICK outcome \in Returns(c) : Settle(c, outcome) /\ RecordOutcome(k, c, outcome)
  BY DEF RecordConversation
<1>3. outcome \in Outcomes /\ Outcomes \subseteq Statuses /\ "uncertain" \in Outcomes
  BY DEF Returns, Outcomes, Statuses
<1>4. turn'[c] = [turn[c] EXCEPT !.stage = "settling", !.outcome = outcome]
  BY <1>2 DEF Settle, TypeOK
<1>5. turn[c] \in Turn
  BY DEF TypeOK
<1>6. turn'[c].stage = "settling" /\ turn'[c].session = turn[c].session /\ turn'[c].conv = k
  BY <1>4, <1>5 DEF Turn
<1>7. \A d \in Commands \ {c} : turn'[d] = turn[d]
  BY <1>2 DEF Settle, TypeOK
<1>8. CASE PutConversation(k, [convs[k] EXCEPT !.commands[c] = outcome])
  <2>1. convs' = [convs EXCEPT ![k] = [convs[k] EXCEPT !.commands[c] = outcome]]
        /\ savedConvs' = convs'
    BY <1>8 DEF PutConversation
  <2> QED
    BY <1>1, <1>3, <1>6, <1>7, <2>1, UpdateStatus
<1>9. CASE /\ convs' = [convs EXCEPT ![k] = [@ EXCEPT !.commands[c] = "uncertain"]]
           /\ UNCHANGED savedConvs
  BY <1>1, <1>3, <1>6, <1>7, <1>9, UpdateStatus
<1> QED
  BY <1>2, <1>8, <1>9 DEF RecordOutcome

LEMMA RestartEffect ==
    ASSUME TypeOK, Restart
    PROVE  /\ \A l \in Conversations :
                 /\ convs'[l].links = savedConvs[l].links
                 /\ convs'[l].revision = savedConvs[l].revision
                 /\ \A d \in Commands : convs'[l].commands[d] =
                       IF savedConvs[l].commands[d] = "running"
                       THEN "uncertain" ELSE savedConvs[l].commands[d]
           /\ savedConvs' = convs'
           /\ \A d \in Commands : receipts'[d] =
                 IF savedReceipts[d] = "running" THEN "uncertain" ELSE savedReceipts[d]
  BY DEF Restart, Interrupted, TypeOK, Conversation

LEMMA UnusedIsIdle ==
    ASSUME TypeOK, LedgerInv, NEW c \in Commands, Unused(c)
    PROVE  turn[c].stage = "idle" /\ deliveries[c] = 0
<1>1. turn[c].stage = "idle"
  BY DEF Unused, LedgerInv, TurnsRecorded, TurnRecorded, FilesFollow, TypeOK, Turn
<1>2. deliveries[c] = 0
  BY DEF Unused, LedgerInv, FilesFollow, DeliveriesRecorded, OnDisk
<1> QED
  BY <1>1, <1>2

LEMMA TurnsOnDisk ==
    ASSUME TypeOK, LedgerInv, NEW c \in Commands, turn[c].stage # "idle"
    PROVE  OnDisk(c)
  BY DEF LedgerInv, TurnsRecorded, TurnRecorded, FilesFollow, OnDisk, TypeOK, Turn

LEMMA RevisionType ==
    ASSUME TypeOK
    PROVE  \A k \in Conversations : convs[k].revision \in Nat
  BY DEF TypeOK, Conversation

LEMMA LedgerNext == TypeOK /\ TypeOK' /\ LedgerInv /\ [Next]_vars => LedgerInv'
<1> SUFFICES ASSUME TypeOK, TypeOK', LedgerInv, [Next]_vars PROVE LedgerInv'
  OBVIOUS
<1> USE DEF files, memory, LedgerInv, TurnsEndWithProcess
<1>1. ASSUME NEW s \in Sessions, SelectSession(s) PROVE LedgerInv'
  BY <1>1 DEF SelectSession,
      TurnsRecorded, TurnRecorded, FilesFollow, RecordedOnce, DeliveriesRecorded,
      OnDisk, Live, TypeOK, Conversation, Turn
<1>2. ASSUME NEW s \in Sessions, BeginSelectModel(s) PROVE LedgerInv'
  BY <1>2 DEF BeginSelectModel,
      TurnsRecorded, TurnRecorded, FilesFollow, RecordedOnce, DeliveriesRecorded,
      OnDisk, Live, TypeOK, Conversation, Turn
<1>3. ASSUME NEW s \in Sessions, EndSelectModel(s) PROVE LedgerInv'
  BY <1>3 DEF EndSelectModel,
      TurnsRecorded, TurnRecorded, FilesFollow, RecordedOnce, DeliveriesRecorded,
      OnDisk, Live, TypeOK, Conversation, Turn
<1>4. ASSUME NEW k \in Conversations, NEW s \in Sessions, CreateConversation(k, s) PROVE LedgerInv'
  BY <1>4 DEF CreateConversation, PutConversation, Absent,
      TurnsRecorded, TurnRecorded, FilesFollow, RecordedOnce, DeliveriesRecorded,
      OnDisk, Live, TypeOK, Conversation, Turn
<1>5. ASSUME NEW k \in Conversations, NEW s \in Sessions, SwitchConversation(k, s) PROVE LedgerInv'
  BY <1>5 DEF SwitchConversation, PutConversation,
      TurnsRecorded, TurnRecorded, FilesFollow, RecordedOnce, DeliveriesRecorded,
      OnDisk, Live, TypeOK, Conversation, Turn
<1>6. ASSUME NEW k \in Conversations, NEW s \in Sessions, NEW c \in Commands,
             PromptConversation(k, s, c)
      PROVE  LedgerInv'
  <2>1. Unused(c) /\ UNCHANGED <<receipts, savedReceipts, deliveries>>
    BY <1>6 DEF PromptConversation
  <2>2. deliveries[c] = 0
    BY <2>1, UnusedIsIdle
  <2>3. TurnsRecorded'
    <3> SUFFICES ASSUME NEW d \in Commands, turn'[d].stage # "idle"
                 PROVE  TurnRecorded(d)'
      BY DEF TurnsRecorded, TurnRecorded
    <3>1. CASE d = c
      BY <1>6, <3>1, PromptConversationEffect, NobodyAssumption DEF TurnRecorded
    <3>2. CASE d # c
      <4>1. turn'[d] = turn[d] /\ turn[d] \in Turn
        BY <1>6, <3>2, PromptConversationEffect DEF TypeOK
      <4>2. turn[d].conv # NoConversation => turn[d].conv \in Conversations
        BY <4>1 DEF Turn
      <4> QED
        BY <1>6, <2>1, <3>2, <4>1, <4>2, PromptConversationEffect DEF TurnsRecorded, TurnRecorded, Live
    <3> QED
      BY <3>1, <3>2
  <2>4. FilesFollow'
    BY <1>6, <2>1, PromptConversationEffect DEF FilesFollow
  <2>5. RecordedOnce'
    BY <1>6, <2>1, PromptConversationEffect DEF RecordedOnce, FilesFollow, Unused
  <2>6. DeliveriesRecorded'
    BY <1>6, <2>1, <2>2, PromptConversationEffect
    DEF DeliveriesRecorded, OnDisk, FilesFollow
  <2>7. TurnsEndWithProcess'
    BY <1>6 DEF PromptConversation
  <2> QED
    BY <2>3, <2>4, <2>5, <2>6, <2>7
<1>7. ASSUME NEW s \in Sessions, NEW c \in Commands, PromptDirect(s, c)
      PROVE  LedgerInv'
  <2>1. /\ Unused(c) /\ UNCHANGED <<convs, savedConvs, deliveries>>
        /\ receipts' = [receipts EXCEPT ![c] = "running"]
        /\ proc' = "up"
    BY <1>7 DEF PromptDirect
  <2>2. deliveries[c] = 0
    BY <2>1, UnusedIsIdle
  <2>3. CASE savedReceipts' = receipts' /\ Spawn(c, s, NoConversation)
    <3>1. /\ turn'[c].stage = "spawned" /\ turn'[c].session = s
          /\ turn'[c].conv = NoConversation
          /\ \A d \in Commands \ {c} : turn'[d] = turn[d]
      BY <2>3 DEF Spawn, TypeOK
    <3>2. \A d \in Commands : receipts'[d] = IF d = c THEN "running" ELSE receipts[d]
      BY <2>1 DEF TypeOK
    <3>3. TurnsRecorded'
      BY <2>1, <2>3, <3>1, <3>2 DEF TurnsRecorded, TurnRecorded, Live, FilesFollow
    <3>4. FilesFollow' /\ RecordedOnce'
      BY <2>1, <2>3, <3>2 DEF FilesFollow, RecordedOnce, Unused
    <3>5. DeliveriesRecorded'
      BY <2>1, <2>2, <2>3, <3>1, <3>2 DEF DeliveriesRecorded, OnDisk, FilesFollow
    <3> QED
      BY <2>1, <3>3, <3>4, <3>5
  <2>4. CASE UNCHANGED <<savedReceipts, turn>>
    <3>1. \A d \in Commands : receipts'[d] = IF d = c THEN "running" ELSE receipts[d]
      BY <2>1 DEF TypeOK
    <3>2. TurnsRecorded' /\ DeliveriesRecorded'
      BY <2>1, <2>4 DEF TurnsRecorded, TurnRecorded, Live, DeliveriesRecorded, OnDisk
    <3>3. FilesFollow' /\ RecordedOnce'
      BY <2>1, <2>4, <3>1 DEF FilesFollow, RecordedOnce, Unused
    <3> QED
      BY <2>1, <3>2, <3>3
  <2> QED
    BY <1>7, <2>3, <2>4 DEF PromptDirect
<1>8. ASSUME NEW c \in Commands, Deliver(c) PROVE LedgerInv'
  BY <1>8 DEF Deliver,
      TurnsRecorded, TurnRecorded, FilesFollow, RecordedOnce, DeliveriesRecorded,
      OnDisk, Live, TypeOK, Conversation, Turn
<1>9. ASSUME NEW c \in Commands, ReleaseDirect(c) PROVE LedgerInv'
  BY <1>9 DEF ReleaseDirect, Settle, Returns,
      TurnsRecorded, TurnRecorded, FilesFollow, RecordedOnce, DeliveriesRecorded,
      OnDisk, Live, TypeOK, Conversation, Turn
<1>10. ASSUME NEW c \in Commands, RecordDirect(c)
      PROVE  LedgerInv'
  <2>1. /\ turn[c].stage = "settling" /\ turn[c].conv = NoConversation
        /\ UNCHANGED <<convs, savedConvs, deliveries>>
        /\ savedReceipts' \in {receipts', savedReceipts}
        /\ \A d \in Commands : receipts'[d] = IF d = c THEN turn[c].outcome ELSE receipts[d]
        /\ turn'[c].stage = "idle" /\ proc' = proc
        /\ \A d \in Commands \ {c} : turn'[d] = turn[d]
    BY <1>10 DEF RecordDirect, NoTurn, TypeOK
  <2>2. savedReceipts[c] # "absent" /\ receipts[c] # "absent" /\ turn[c].outcome # "absent"
    BY <2>1 DEF TurnsRecorded, TurnRecorded, FilesFollow, TypeOK, Turn, Outcomes
  <2>3. \A d \in Commands : /\ receipts'[d] = "absent" <=> receipts[d] = "absent"
                            /\ savedReceipts'[d] = "absent" => savedReceipts[d] = "absent"
                            /\ savedReceipts'[d] # "absent" => receipts'[d] # "absent"
    BY <2>1, <2>2 DEF FilesFollow
  <2>4. TurnsRecorded'
    BY <2>1, <2>3 DEF TurnsRecorded, TurnRecorded, Live
  <2>5. FilesFollow' /\ RecordedOnce'
    BY <2>1, <2>3 DEF FilesFollow, RecordedOnce
  <2>6. DeliveriesRecorded'
    BY <2>1, <2>3 DEF DeliveriesRecorded, OnDisk
  <2> QED
    BY <2>1, <2>4, <2>5, <2>6
<1>11. ASSUME NEW c \in Commands, RecordConversation(c)
      PROVE  LedgerInv'
  <2>1. /\ UNCHANGED <<receipts, savedReceipts, deliveries>>
        /\ Live(c) /\ turn[c].conv # NoConversation /\ proc' = proc
    BY <1>11 DEF RecordConversation
  <2>2. convs[turn[c].conv].commands[c] = "running"
        /\ savedConvs[turn[c].conv].commands[c] = "running"
    BY <2>1 DEF TurnsRecorded, TurnRecorded, Live
  <2>3. TurnsRecorded'
    <3> SUFFICES ASSUME NEW d \in Commands, turn'[d].stage # "idle"
                 PROVE  TurnRecorded(d)'
      BY DEF TurnsRecorded, TurnRecorded
    <3>1. CASE d = c
      BY <1>11, <2>1, <3>1, RecordConversationEffect DEF TurnsRecorded, TurnRecorded, Live, Outcomes
    <3>2. CASE d # c
      <4>1. turn'[d] = turn[d] /\ turn[d] \in Turn
        BY <1>11, <3>2, RecordConversationEffect DEF TypeOK
      <4>2. turn[d].conv # NoConversation => turn[d].conv \in Conversations
        BY <4>1 DEF Turn
      <4> QED
        BY <1>11, <2>1, <3>2, <4>1, <4>2, RecordConversationEffect DEF TurnsRecorded, TurnRecorded, Live
    <3> QED
      BY <3>1, <3>2
  <2>4. FilesFollow' /\ RecordedOnce'
    BY <1>11, <2>1, <2>2, RecordConversationEffect DEF FilesFollow, RecordedOnce, Outcomes
  <2>5. DeliveriesRecorded'
    BY <1>11, <2>1, <2>2, RecordConversationEffect
    DEF DeliveriesRecorded, OnDisk, FilesFollow, Outcomes
  <2>6. TurnsEndWithProcess'
    BY <1>11, <2>1, RecordConversationEffect DEF Live
  <2> QED
    BY <2>3, <2>4, <2>5, <2>6
<1>12. ASSUME NEW c \in Commands, ReleaseConversation(c) PROVE LedgerInv'
  BY <1>12 DEF ReleaseConversation, NoTurn,
      TurnsRecorded, TurnRecorded, FilesFollow, RecordedOnce, DeliveriesRecorded,
      OnDisk, Live, TypeOK, Conversation, Turn
<1>13. CASE Close
  BY <1>13 DEF Close,
      TurnsRecorded, TurnRecorded, FilesFollow, RecordedOnce, DeliveriesRecorded,
      OnDisk, Live, TypeOK, Conversation, Turn
<1>14. CASE Exit \/ Crash
  BY <1>14 DEF Exit, Crash, Stop, NoTurn,
      TurnsRecorded, TurnRecorded, FilesFollow, RecordedOnce, DeliveriesRecorded,
      OnDisk, Live, TypeOK, Conversation, Turn
<1>15. CASE Restart
  <2>1. UNCHANGED <<turn, savedReceipts, deliveries>> /\ \A c \in Commands : turn[c].stage = "idle"
    BY <1>15 DEF Restart
  <2>2. FilesFollow' /\ RecordedOnce'
    BY <1>15, <2>1, RestartEffect DEF FilesFollow, RecordedOnce
  <2>3. DeliveriesRecorded'
    BY <1>15, <2>1, RestartEffect DEF DeliveriesRecorded, OnDisk
  <2>4. TurnsRecorded'
    BY <2>1 DEF TurnsRecorded, TurnRecorded
  <2>5. TurnsEndWithProcess'
    BY <2>1
  <2> QED
    BY <2>2, <2>3, <2>4, <2>5
<1>16. CASE UNCHANGED vars
  BY <1>16 DEF vars,
      TurnsRecorded, TurnRecorded, FilesFollow, RecordedOnce, DeliveriesRecorded,
      OnDisk, Live, TypeOK, Conversation, Turn
<1> QED
  BY <1>1, <1>2, <1>3, <1>4, <1>5, <1>6, <1>7, <1>8, <1>9, <1>10, <1>11, <1>12, <1>13,
     <1>14, <1>15, <1>16 DEF Next, Finish

\* Who holds a session, and in whose name.
LEMMA TurnNext == TypeOK /\ TypeOK' /\ LedgerInv /\ TurnInv /\ [Next]_vars => TurnInv'
<1> SUFFICES ASSUME TypeOK, TypeOK', LedgerInv, TurnInv, [Next]_vars PROVE TurnInv'
  OBVIOUS
<1> USE DEF files, memory
<1>1. ASSUME NEW s \in Sessions, SelectSession(s)
      PROVE  TurnInv'
  BY <1>1 DEF SelectSession, TurnInv, HoldersExclusive, OriginInTurn, Holds, Live,
    LedgerInv, TypeOK, Turn, TurnsRecorded, TurnRecorded, TurnsEndWithProcess, FilesFollow
<1>2. ASSUME NEW s \in Sessions, BeginSelectModel(s)
      PROVE  TurnInv'
  BY <1>2 DEF BeginSelectModel, TurnInv, HoldersExclusive, OriginInTurn, Holds, Live,
    LedgerInv, TypeOK, Turn, TurnsRecorded, TurnRecorded, TurnsEndWithProcess, FilesFollow
<1>3. ASSUME NEW s \in Sessions, EndSelectModel(s)
      PROVE  TurnInv'
  BY <1>3 DEF EndSelectModel, TurnInv, HoldersExclusive, OriginInTurn, Holds, Live,
    LedgerInv, TypeOK, Turn, TurnsRecorded, TurnRecorded, TurnsEndWithProcess, FilesFollow
<1>4. ASSUME NEW k \in Conversations, NEW s \in Sessions, CreateConversation(k, s)
      PROVE  TurnInv'
  BY <1>4 DEF CreateConversation, PutConversation, Absent, TurnInv, HoldersExclusive,
    OriginInTurn, Holds, Live, LedgerInv, TypeOK, Turn, TurnsRecorded, TurnRecorded,
    TurnsEndWithProcess, FilesFollow
<1>5. ASSUME NEW k \in Conversations, NEW s \in Sessions, SwitchConversation(k, s)
      PROVE  TurnInv'
  BY <1>5 DEF SwitchConversation, PutConversation, TurnInv, HoldersExclusive,
    OriginInTurn, Holds, Live, LedgerInv, TypeOK, Turn, TurnsRecorded, TurnRecorded,
    TurnsEndWithProcess, FilesFollow
<1>6. ASSUME NEW k \in Conversations, NEW s \in Sessions, NEW c \in Commands,
    PromptConversation(k, s, c)
      PROVE  TurnInv'
  <2>1. turn[c].stage = "idle"
    BY <1>6, UnusedIsIdle DEF PromptConversation
  <2>2. /\ busy' = busy \cup {s} /\ selecting' = selecting /\ s \notin busy
        /\ \A r \in Sessions : origin'[r] = IF r = s THEN c ELSE origin[r]
    BY <1>6 DEF PromptConversation, TypeOK
  <2>3. /\ turn'[c].stage = "spawned" /\ turn'[c].session = s /\ turn'[c].conv # NoConversation
        /\ \A d \in Commands \ {c} : turn'[d] = turn[d]
    BY <1>6, PromptConversationEffect, NobodyAssumption
  <2>4. HoldersExclusive'
    BY <2>2, <2>3 DEF TurnInv, HoldersExclusive, Holds, Live
  <2>5. OriginInTurn'
    BY <2>1, <2>2, <2>3, NobodyAssumption DEF TurnInv, OriginInTurn
  <2> QED
    BY <2>4, <2>5 DEF TurnInv
<1>7. ASSUME NEW s \in Sessions, NEW c \in Commands, PromptDirect(s, c)
      PROVE  TurnInv'
  <2>1. turn[c].stage = "idle"
    BY <1>7, UnusedIsIdle DEF PromptDirect
  <2>2. /\ selecting' = selecting /\ s \notin busy /\ origin' = origin
    BY <1>7 DEF PromptDirect
  <2>3. CASE busy' = busy \cup {s} /\ Spawn(c, s, NoConversation)
    <3>1. /\ turn'[c].stage = "spawned" /\ turn'[c].session = s
          /\ \A d \in Commands \ {c} : turn'[d] = turn[d]
      BY <2>3 DEF Spawn, TypeOK
    <3>2. HoldersExclusive'
      BY <2>2, <2>3, <3>1 DEF TurnInv, HoldersExclusive, Holds, Live
    <3>3. OriginInTurn'
      BY <2>1, <2>2, <3>1 DEF TurnInv, OriginInTurn
    <3> QED
      BY <3>2, <3>3 DEF TurnInv
  <2>4. CASE UNCHANGED <<busy, turn>>
    BY <2>2, <2>4 DEF TurnInv, HoldersExclusive, OriginInTurn, Holds, Live
  <2> QED
    BY <1>7, <2>3, <2>4 DEF PromptDirect
<1>8. ASSUME NEW c \in Commands, Deliver(c)
      PROVE  TurnInv'
  BY <1>8 DEF Deliver, TurnInv, HoldersExclusive, OriginInTurn, Holds, Live, LedgerInv,
    TypeOK, Turn, TurnsRecorded, TurnRecorded, TurnsEndWithProcess, FilesFollow
<1>9. ASSUME NEW c \in Commands, ReleaseDirect(c)
      PROVE  TurnInv'
  BY <1>9 DEF ReleaseDirect, Settle, Returns, TurnInv, HoldersExclusive, OriginInTurn,
    Holds, Live, LedgerInv, TypeOK, Turn, TurnsRecorded, TurnRecorded,
    TurnsEndWithProcess, FilesFollow
<1>10. ASSUME NEW c \in Commands, RecordDirect(c)
      PROVE  TurnInv'
  BY <1>10 DEF RecordDirect, NoTurn, TurnInv, HoldersExclusive, OriginInTurn, Holds,
    Live, LedgerInv, TypeOK, Turn, TurnsRecorded, TurnRecorded, TurnsEndWithProcess,
    FilesFollow
<1>11. ASSUME NEW c \in Commands, RecordConversation(c)
      PROVE  TurnInv'
  BY <1>11 DEF RecordConversation, Settle, RecordOutcome, PutConversation, Returns,
    TurnInv, HoldersExclusive, OriginInTurn, Holds, Live, LedgerInv, TypeOK, Turn,
    TurnsRecorded, TurnRecorded, TurnsEndWithProcess, FilesFollow
<1>12. ASSUME NEW c \in Commands, ReleaseConversation(c)
      PROVE  TurnInv'
  <2>1. /\ turn[c].stage = "settling" /\ turn[c].conv # NoConversation
        /\ busy' = busy \ {turn[c].session} /\ selecting' = selecting
        /\ \A r \in Sessions : origin'[r] = IF r = turn[c].session THEN NoCommand ELSE origin[r]
        /\ turn'[c].stage = "idle"
        /\ \A d \in Commands \ {c} : turn'[d] = turn[d]
    BY <1>12 DEF ReleaseConversation, NoTurn, TypeOK
  <2>2. HoldersExclusive'
    BY <2>1 DEF TurnInv, HoldersExclusive, Holds, Live
  <2>3. OriginInTurn'
    BY <2>1, NobodyAssumption DEF TurnInv, OriginInTurn
  <2> QED
    BY <2>2, <2>3 DEF TurnInv
<1>13. CASE Close
  BY <1>13 DEF Close, TurnInv, HoldersExclusive, OriginInTurn, Holds, Live, LedgerInv,
    TypeOK, Turn, TurnsRecorded, TurnRecorded, TurnsEndWithProcess, FilesFollow
<1>14. CASE Exit \/ Crash
  BY <1>14, NobodyAssumption DEF Exit, Crash, Stop, NoTurn, TurnInv, HoldersExclusive,
    OriginInTurn, Holds, Live
<1>15. CASE Restart
  BY <1>15 DEF Restart, Interrupted, TurnInv, HoldersExclusive, OriginInTurn, Holds,
    Live, LedgerInv, TypeOK, Turn, TurnsRecorded, TurnRecorded, TurnsEndWithProcess,
    FilesFollow
<1>16. CASE UNCHANGED vars
  BY <1>16 DEF vars, TurnInv, HoldersExclusive, OriginInTurn, Holds, Live, LedgerInv,
    TypeOK, Turn, TurnsRecorded, TurnRecorded, TurnsEndWithProcess, FilesFollow
<1> QED
  BY <1>1, <1>2, <1>3, <1>4, <1>5, <1>6, <1>7, <1>8, <1>9, <1>10, <1>11, <1>12, <1>13,
    <1>14, <1>15, <1>16 DEF Next, Finish

\* What is linked to what.
LEMMA LinkNext == TypeOK /\ TypeOK' /\ LedgerInv /\ TurnInv /\ LinkInv /\ [Next]_vars => LinkInv'
<1> SUFFICES ASSUME TypeOK, TypeOK', LedgerInv, TurnInv, LinkInv, [Next]_vars PROVE LinkInv'
  OBVIOUS
<1> USE DEF files, memory
<1>1. ASSUME NEW s \in Sessions, SelectSession(s)
      PROVE  LinkInv'
  BY <1>1 DEF SelectSession, LinkInv, OneConversationPerSession,
    NoDirectTurnInConversation, LinkedElsewhere, Live, TypeOK, Turn, Conversation,
    LedgerInv, TurnInv, HoldersExclusive, Holds, FilesFollow, TurnsRecorded,
    TurnRecorded, TurnsEndWithProcess
<1>2. ASSUME NEW s \in Sessions, BeginSelectModel(s)
      PROVE  LinkInv'
  BY <1>2 DEF BeginSelectModel, LinkInv, OneConversationPerSession,
    NoDirectTurnInConversation, LinkedElsewhere, Live, TypeOK, Turn, Conversation,
    LedgerInv, TurnInv, HoldersExclusive, Holds, FilesFollow, TurnsRecorded,
    TurnRecorded, TurnsEndWithProcess
<1>3. ASSUME NEW s \in Sessions, EndSelectModel(s)
      PROVE  LinkInv'
  BY <1>3 DEF EndSelectModel, LinkInv, OneConversationPerSession,
    NoDirectTurnInConversation, LinkedElsewhere, Live, TypeOK, Turn, Conversation,
    LedgerInv, TurnInv, HoldersExclusive, Holds, FilesFollow, TurnsRecorded,
    TurnRecorded, TurnsEndWithProcess
<1>4. ASSUME NEW k \in Conversations, NEW s \in Sessions, CreateConversation(k, s)
      PROVE  LinkInv'
  BY <1>4 DEF CreateConversation, PutConversation, Absent, LinkInv,
    OneConversationPerSession, NoDirectTurnInConversation, LinkedElsewhere, Live, TypeOK,
    Turn, Conversation, LedgerInv, TurnInv, HoldersExclusive, Holds, FilesFollow,
    TurnsRecorded, TurnRecorded, TurnsEndWithProcess
<1>5. ASSUME NEW k \in Conversations, NEW s \in Sessions, SwitchConversation(k, s)
      PROVE  LinkInv'
  BY <1>5 DEF SwitchConversation, PutConversation, LinkInv, OneConversationPerSession,
    NoDirectTurnInConversation, LinkedElsewhere, Live, TypeOK, Turn, Conversation,
    LedgerInv, TurnInv, HoldersExclusive, Holds, FilesFollow, TurnsRecorded,
    TurnRecorded, TurnsEndWithProcess
<1>6. ASSUME NEW k \in Conversations, NEW s \in Sessions, NEW c \in Commands,
    PromptConversation(k, s, c)
      PROVE  LinkInv'
  <2>1. OneConversationPerSession'
    BY <1>6, PromptConversationEffect DEF LinkInv, OneConversationPerSession
  <2>2. NoDirectTurnInConversation'
    BY <1>6, PromptConversationEffect, NobodyAssumption
    DEF LinkInv, NoDirectTurnInConversation, Live
  <2> QED
    BY <2>1, <2>2 DEF LinkInv
<1>7. ASSUME NEW s \in Sessions, NEW c \in Commands, PromptDirect(s, c)
      PROVE  LinkInv'
  BY <1>7 DEF PromptDirect, Spawn, Unused, Linked, LinkInv, OneConversationPerSession,
    NoDirectTurnInConversation, LinkedElsewhere, Live, TypeOK, Turn, Conversation,
    LedgerInv, TurnInv, HoldersExclusive, Holds, FilesFollow, TurnsRecorded,
    TurnRecorded, TurnsEndWithProcess
<1>8. ASSUME NEW c \in Commands, Deliver(c)
      PROVE  LinkInv'
  BY <1>8 DEF Deliver, LinkInv, OneConversationPerSession, NoDirectTurnInConversation,
    LinkedElsewhere, Live, TypeOK, Turn, Conversation, LedgerInv, TurnInv,
    HoldersExclusive, Holds, FilesFollow, TurnsRecorded, TurnRecorded, TurnsEndWithProcess
<1>9. ASSUME NEW c \in Commands, ReleaseDirect(c)
      PROVE  LinkInv'
  BY <1>9 DEF ReleaseDirect, Settle, Returns, LinkInv, OneConversationPerSession,
    NoDirectTurnInConversation, LinkedElsewhere, Live, TypeOK, Turn, Conversation,
    LedgerInv, TurnInv, HoldersExclusive, Holds, FilesFollow, TurnsRecorded,
    TurnRecorded, TurnsEndWithProcess
<1>10. ASSUME NEW c \in Commands, RecordDirect(c)
      PROVE  LinkInv'
  BY <1>10 DEF RecordDirect, NoTurn, LinkInv, OneConversationPerSession,
    NoDirectTurnInConversation, LinkedElsewhere, Live, TypeOK, Turn, Conversation,
    LedgerInv, TurnInv, HoldersExclusive, Holds, FilesFollow, TurnsRecorded,
    TurnRecorded, TurnsEndWithProcess
<1>11. ASSUME NEW c \in Commands, RecordConversation(c)
      PROVE  LinkInv'
  <2>1. \A k \in Conversations :
           convs'[k].links = convs[k].links /\ savedConvs'[k].links = savedConvs[k].links
    BY <1>11, RecordConversationEffect DEF LedgerInv, FilesFollow
  <2>2. OneConversationPerSession'
    BY <2>1 DEF LinkInv, OneConversationPerSession
  <2>3. NoDirectTurnInConversation'
    BY <1>11, <2>1, RecordConversationEffect DEF LinkInv, NoDirectTurnInConversation, Live
  <2> QED
    BY <2>2, <2>3 DEF LinkInv
<1>12. ASSUME NEW c \in Commands, ReleaseConversation(c)
      PROVE  LinkInv'
  BY <1>12 DEF ReleaseConversation, NoTurn, LinkInv, OneConversationPerSession,
    NoDirectTurnInConversation, LinkedElsewhere, Live, TypeOK, Turn, Conversation,
    LedgerInv, TurnInv, HoldersExclusive, Holds, FilesFollow, TurnsRecorded,
    TurnRecorded, TurnsEndWithProcess
<1>13. CASE Close
  BY <1>13 DEF Close, LinkInv, OneConversationPerSession, NoDirectTurnInConversation,
    LinkedElsewhere, Live, TypeOK, Turn, Conversation, LedgerInv, TurnInv,
    HoldersExclusive, Holds, FilesFollow, TurnsRecorded, TurnRecorded, TurnsEndWithProcess
<1>14. CASE Exit \/ Crash
  BY <1>14 DEF Exit, Crash, Stop, NoTurn, LinkInv, OneConversationPerSession,
    NoDirectTurnInConversation, LinkedElsewhere, Live, TypeOK, Turn, Conversation,
    LedgerInv, TurnInv, HoldersExclusive, Holds, FilesFollow, TurnsRecorded,
    TurnRecorded, TurnsEndWithProcess
<1>15. CASE Restart
  <2>1. UNCHANGED turn /\ \A k \in Conversations :
           convs'[k].links = convs[k].links /\ savedConvs'[k].links = savedConvs[k].links
    BY <1>15, RestartEffect DEF Restart, LedgerInv, FilesFollow
  <2>2. OneConversationPerSession' /\ NoDirectTurnInConversation'
    BY <2>1 DEF LinkInv, OneConversationPerSession, NoDirectTurnInConversation, Live
  <2> QED
    BY <2>2 DEF LinkInv
<1>16. CASE UNCHANGED vars
  BY <1>16 DEF vars, LinkInv, OneConversationPerSession, NoDirectTurnInConversation,
    LinkedElsewhere, Live, TypeOK, Turn, Conversation, LedgerInv, TurnInv,
    HoldersExclusive, Holds, FilesFollow, TurnsRecorded, TurnRecorded, TurnsEndWithProcess
<1> QED
  BY <1>1, <1>2, <1>3, <1>4, <1>5, <1>6, <1>7, <1>8, <1>9, <1>10, <1>11, <1>12, <1>13,
    <1>14, <1>15, <1>16 DEF Next, Finish

\* What clients were told.
LEMMA OutcomeNext == TypeOK /\ TypeOK' /\ LedgerInv /\ OutcomeInv /\ [Next]_vars => OutcomeInv'
<1> SUFFICES ASSUME TypeOK, TypeOK', LedgerInv, OutcomeInv, [Next]_vars PROVE OutcomeInv'
  OBVIOUS
<1> USE DEF files, memory
<1>1. ASSUME NEW s \in Sessions, SelectSession(s)
      PROVE  OutcomeInv'
  BY <1>1 DEF SelectSession, OutcomeInv, RunningHasTurn, OutcomeSurvivesCrash,
    Interrupted, Outcomes, LedgerInv, Live, TypeOK, Turn, Conversation, TurnsRecorded,
    TurnRecorded, TurnsEndWithProcess
<1>2. ASSUME NEW s \in Sessions, BeginSelectModel(s)
      PROVE  OutcomeInv'
  BY <1>2 DEF BeginSelectModel, OutcomeInv, RunningHasTurn, OutcomeSurvivesCrash,
    Interrupted, Outcomes, LedgerInv, Live, TypeOK, Turn, Conversation, TurnsRecorded,
    TurnRecorded, TurnsEndWithProcess
<1>3. ASSUME NEW s \in Sessions, EndSelectModel(s)
      PROVE  OutcomeInv'
  BY <1>3 DEF EndSelectModel, OutcomeInv, RunningHasTurn, OutcomeSurvivesCrash,
    Interrupted, Outcomes, LedgerInv, Live, TypeOK, Turn, Conversation, TurnsRecorded,
    TurnRecorded, TurnsEndWithProcess
<1>4. ASSUME NEW k \in Conversations, NEW s \in Sessions, CreateConversation(k, s)
      PROVE  OutcomeInv'
  BY <1>4 DEF CreateConversation, PutConversation, Absent, OutcomeInv, RunningHasTurn,
    OutcomeSurvivesCrash, Interrupted, Outcomes, LedgerInv, Live, TypeOK, Turn,
    Conversation, TurnsRecorded, TurnRecorded, TurnsEndWithProcess
<1>5. ASSUME NEW k \in Conversations, NEW s \in Sessions, SwitchConversation(k, s)
      PROVE  OutcomeInv'
  BY <1>5 DEF SwitchConversation, PutConversation, OutcomeInv, RunningHasTurn,
    OutcomeSurvivesCrash, Interrupted, Outcomes, LedgerInv, Live, TypeOK, Turn,
    Conversation, TurnsRecorded, TurnRecorded, TurnsEndWithProcess
<1>6. ASSUME NEW k \in Conversations, NEW s \in Sessions, NEW c \in Commands,
    PromptConversation(k, s, c)
      PROVE  OutcomeInv'
  BY <1>6 DEF PromptConversation, PutConversation, Spawn, Unused, OutcomeInv,
    RunningHasTurn, OutcomeSurvivesCrash, Interrupted, Outcomes, LedgerInv, Live, TypeOK,
    Turn, Conversation, TurnsRecorded, TurnRecorded, TurnsEndWithProcess
<1>7. ASSUME NEW s \in Sessions, NEW c \in Commands, PromptDirect(s, c)
      PROVE  OutcomeInv'
  BY <1>7 DEF PromptDirect, Spawn, Unused, Linked, OutcomeInv, RunningHasTurn,
    OutcomeSurvivesCrash, Interrupted, Outcomes, LedgerInv, Live, TypeOK, Turn,
    Conversation, TurnsRecorded, TurnRecorded, TurnsEndWithProcess
<1>8. ASSUME NEW c \in Commands, Deliver(c)
      PROVE  OutcomeInv'
  BY <1>8 DEF Deliver, OutcomeInv, RunningHasTurn, OutcomeSurvivesCrash, Interrupted,
    Outcomes, LedgerInv, Live, TypeOK, Turn, Conversation, TurnsRecorded, TurnRecorded,
    TurnsEndWithProcess
<1>9. ASSUME NEW c \in Commands, ReleaseDirect(c)
      PROVE  OutcomeInv'
  <2>1. /\ UNCHANGED <<proc, convs, savedConvs>>
        /\ turn[c].conv = NoConversation
        /\ \A d \in Commands \ {c} : turn'[d] = turn[d]
    BY <1>9 DEF ReleaseDirect, Settle, TypeOK
  <2>2. RunningHasTurn'
    BY <2>1, NobodyAssumption DEF OutcomeInv, RunningHasTurn, Live
  <2> QED
    BY <2>1, <2>2 DEF OutcomeInv, OutcomeSurvivesCrash, Interrupted
<1>10. ASSUME NEW c \in Commands, RecordDirect(c)
      PROVE  OutcomeInv'
  BY <1>10 DEF RecordDirect, NoTurn, OutcomeInv, RunningHasTurn, OutcomeSurvivesCrash,
    Interrupted, Outcomes, LedgerInv, Live, TypeOK, Turn, Conversation, TurnsRecorded,
    TurnRecorded, TurnsEndWithProcess
<1>11. ASSUME NEW c \in Commands, RecordConversation(c)
      PROVE  OutcomeInv'
  <2>1. /\ Live(c) /\ turn[c].conv # NoConversation /\ proc' = proc
        /\ savedConvs[turn[c].conv].commands[c] = "running"
    BY <1>11 DEF RecordConversation, LedgerInv, TurnsRecorded, TurnRecorded, Live
  <2>2. PICK status \in Outcomes :
           /\ \A l \in Conversations, e \in Commands : convs'[l].commands[e] =
                 IF l = turn[c].conv /\ e = c THEN status ELSE convs[l].commands[e]
           /\ \/ savedConvs' = convs'
              \/ savedConvs' = savedConvs /\ status = "uncertain"
    BY <1>11, RecordConversationEffect
  <2>3. RunningHasTurn'
    <3> SUFFICES ASSUME NEW l \in Conversations, NEW d \in Commands,
                        proc' # "down", convs'[l].commands[d] = "running"
                 PROVE  Live(d)' /\ turn'[d].conv = l
      BY DEF RunningHasTurn
    <3>1. Live(d) /\ turn[d].conv = l /\ d # c
      BY <2>1, <2>2 DEF OutcomeInv, RunningHasTurn, Outcomes
    <3> QED
      BY <1>11, <3>1, RecordConversationEffect DEF Live
  <2>4. OutcomeSurvivesCrash'
    BY <2>1, <2>2 DEF OutcomeInv, OutcomeSurvivesCrash, Interrupted, Outcomes
  <2> QED
    BY <2>3, <2>4 DEF OutcomeInv
<1>12. ASSUME NEW c \in Commands, ReleaseConversation(c)
      PROVE  OutcomeInv'
  BY <1>12 DEF ReleaseConversation, NoTurn, OutcomeInv, RunningHasTurn,
    OutcomeSurvivesCrash, Interrupted, Outcomes, LedgerInv, Live, TypeOK, Turn,
    Conversation, TurnsRecorded, TurnRecorded, TurnsEndWithProcess
<1>13. CASE Close
  BY <1>13 DEF Close, OutcomeInv, RunningHasTurn, OutcomeSurvivesCrash, Interrupted,
    Outcomes, LedgerInv, Live, TypeOK, Turn, Conversation, TurnsRecorded, TurnRecorded,
    TurnsEndWithProcess
<1>14. CASE Exit \/ Crash
  BY <1>14 DEF Exit, Crash, Stop, NoTurn, OutcomeInv, RunningHasTurn,
    OutcomeSurvivesCrash, Interrupted, Outcomes, LedgerInv, Live, TypeOK, Turn,
    Conversation, TurnsRecorded, TurnRecorded, TurnsEndWithProcess
<1>15. CASE Restart
  BY <1>15 DEF Restart, Interrupted, OutcomeInv, RunningHasTurn, OutcomeSurvivesCrash,
    Interrupted, Outcomes, LedgerInv, Live, TypeOK, Turn, Conversation, TurnsRecorded,
    TurnRecorded, TurnsEndWithProcess
<1>16. CASE UNCHANGED vars
  BY <1>16 DEF vars, OutcomeInv, RunningHasTurn, OutcomeSurvivesCrash, Interrupted,
    Outcomes, LedgerInv, Live, TypeOK, Turn, Conversation, TurnsRecorded, TurnRecorded,
    TurnsEndWithProcess
<1> QED
  BY <1>1, <1>2, <1>3, <1>4, <1>5, <1>6, <1>7, <1>8, <1>9, <1>10, <1>11, <1>12, <1>13,
    <1>14, <1>15, <1>16 DEF Next, Finish

--------------------------------------------------------------------------------
(* The theorems. *)

LEMMA InitInv == Init => IInv
<1> SUFFICES ASSUME Init PROVE IInv
  OBVIOUS
<1>1. TypeOK
  BY InitType
<1> USE DEF Init, NoTurn, NoCommands, Absent, Live
<1>2. LedgerInv
  BY DEF LedgerInv, TurnsEndWithProcess, TurnsRecorded, TurnRecorded, FilesFollow, RecordedOnce,
         DeliveriesRecorded
<1>3. TurnInv
  BY NobodyAssumption DEF TurnInv, HoldersExclusive, Holds, OriginInTurn
<1>4. LinkInv
  BY DEF LinkInv, OneConversationPerSession, NoDirectTurnInConversation
<1>5. OutcomeInv
  BY DEF OutcomeInv, RunningHasTurn, OutcomeSurvivesCrash, Outcomes
<1> QED
  BY <1>1, <1>2, <1>3, <1>4, <1>5 DEF IInv

LEMMA NextInv == IInv /\ [Next]_vars => IInv'
  BY NextType, LedgerNext, TurnNext, LinkNext, OutcomeNext DEF IInv

\* The strengthened invariant that the safety theorems are read off.
THEOREM Inductive == Spec => []IInv
  BY InitInv, NextInv, PTL DEF Spec

\* A prompt is on disk before the native agent can see it, and is delivered at
\* most once, across retries on both routes, failed writes, crashes, restarts.
THEOREM PromptsDeliveredOnce == Spec => [](ReservedBeforeDelivery /\ DeliveredOnce)
<1>1. IInv => ReservedBeforeDelivery /\ DeliveredOnce
  <2> SUFFICES ASSUME IInv, NEW c \in Commands
               PROVE  (Live(c) \/ deliveries[c] > 0 => OnDisk(c)) /\ deliveries[c] <= 1
    BY DEF ReservedBeforeDelivery, DeliveredOnce
  <2>1. deliveries[c] <= 1 /\ (deliveries[c] # 0 => OnDisk(c)) /\ deliveries[c] \in Nat
    BY DEF IInv, LedgerInv, DeliveriesRecorded, TypeOK
  <2>2. turn[c].stage # "idle" => OnDisk(c)
    BY TurnsOnDisk DEF IInv
  <2> QED
    BY <2>1, <2>2 DEF Live
<1> QED
  BY <1>1, Inductive, PTL

\* Writers exclude each other, and no turn bypasses the conversation that
\* links its session.
THEOREM OneTurnPerSession ==
    Spec => [](TurnsAreExclusive /\ NoDirectTurnInConversation /\ OneConversationPerSession)
<1>1. IInv => TurnsAreExclusive /\ NoDirectTurnInConversation /\ OneConversationPerSession
  BY DEF IInv, TurnInv, LinkInv, HoldersExclusive, Holds, TurnsAreExclusive
<1> QED
  BY <1>1, Inductive, PTL

\* A command identifier names one request, and an approval that is attributed
\* to a command is asked by that command's own turn.
THEOREM RecordsAreUnique == Spec => [](RecordedOnce /\ OriginHoldsSession)
<1>1. IInv => RecordedOnce
  BY DEF IInv, LedgerInv
<1>2. IInv => OriginHoldsSession
  <2> SUFFICES ASSUME IInv, NEW s \in Sessions, NEW c \in Commands, origin[s] = c
               PROVE  /\ turn[c].session = s /\ turn[c].conv # NoConversation
                      /\ s \in busy /\ turn[c].stage # "idle"
    BY DEF OriginHoldsSession
  <2>1. turn[c].session = s /\ turn[c].conv # NoConversation /\ turn[c].stage # "idle"
    BY DEF IInv, TurnInv, OriginInTurn
  <2>2. Holds(c)
    BY <2>1 DEF IInv, TypeOK, Turn, Stages, Holds, Live
  <2> QED
    BY <2>1, <2>2 DEF IInv, TurnInv, HoldersExclusive
<1> QED
  BY <1>1, <1>2, Inductive, PTL

\* What a client was told of a conversation command is what a restarted server
\* reports, and a command that is reported running has its goroutine.
THEOREM OutcomesAreStable == Spec => [](RunningHasTurn /\ OutcomeSurvivesCrash)
<1>1. IInv => RunningHasTurn /\ OutcomeSurvivesCrash
  BY DEF IInv, OutcomeInv
<1> QED
  BY <1>1, Inductive, PTL

--------------------------------------------------------------------------------
(* Nothing published is lost, and the refinement. *)

\* What one step keeps of the records, in memory and on disk.
RecordsKept ==
    /\ \A c \in Commands : savedReceipts[c] # "absent" => savedReceipts'[c] # "absent"
    /\ \A k \in Conversations :
          /\ convs[k].revision <= convs'[k].revision
          /\ convs[k].links \subseteq convs'[k].links
          /\ \A c \in Commands :
                convs[k].commands[c] # "absent" => convs'[k].commands[c] # "absent"

LEMMA KeepNext == TypeOK /\ TypeOK' /\ LedgerInv /\ LedgerInv' /\ [Next]_vars => RecordsKept
<1> SUFFICES ASSUME TypeOK, TypeOK', LedgerInv, LedgerInv', [Next]_vars PROVE RecordsKept
  OBVIOUS
<1> USE DEF files, memory
<1>1. ASSUME NEW s \in Sessions, SelectSession(s)
      PROVE  RecordsKept
  BY <1>1 DEF SelectSession, RecordsKept, TypeOK, Conversation
<1>2. ASSUME NEW s \in Sessions, BeginSelectModel(s)
      PROVE  RecordsKept
  BY <1>2 DEF BeginSelectModel, RecordsKept, TypeOK, Conversation
<1>3. ASSUME NEW s \in Sessions, EndSelectModel(s)
      PROVE  RecordsKept
  BY <1>3 DEF EndSelectModel, RecordsKept, TypeOK, Conversation
<1>4. ASSUME NEW k \in Conversations, NEW s \in Sessions, CreateConversation(k, s)
      PROVE  RecordsKept
  BY <1>4 DEF CreateConversation, PutConversation, Absent, RecordsKept, TypeOK, Conversation
<1>5. ASSUME NEW k \in Conversations, NEW s \in Sessions, SwitchConversation(k, s)
      PROVE  RecordsKept
  BY <1>5 DEF SwitchConversation, PutConversation, RecordsKept, TypeOK, Conversation
<1>6. ASSUME NEW k \in Conversations, NEW s \in Sessions, NEW c \in Commands,
    PromptConversation(k, s, c)
      PROVE  RecordsKept
  <2>1. UNCHANGED savedReceipts
    BY <1>6 DEF PromptConversation
  <2> QED
    BY <1>6, <2>1, PromptConversationEffect, RevisionType DEF RecordsKept
<1>7. ASSUME NEW s \in Sessions, NEW c \in Commands, PromptDirect(s, c)
      PROVE  RecordsKept
  <2>1. convs' = convs /\ savedReceipts' \in {receipts', savedReceipts}
        /\ \A d \in Commands : receipts'[d] = IF d = c THEN "running" ELSE receipts[d]
    BY <1>7 DEF PromptDirect, TypeOK
  <2> QED
    BY <2>1 DEF RecordsKept, LedgerInv, FilesFollow, TypeOK, Conversation
<1>8. ASSUME NEW c \in Commands, Deliver(c)
      PROVE  RecordsKept
  BY <1>8 DEF Deliver, RecordsKept, TypeOK, Conversation
<1>9. ASSUME NEW c \in Commands, ReleaseDirect(c)
      PROVE  RecordsKept
  BY <1>9 DEF ReleaseDirect, Settle, Returns, RecordsKept, TypeOK, Conversation
<1>10. ASSUME NEW c \in Commands, RecordDirect(c)
      PROVE  RecordsKept
  <2>1. /\ convs' = convs /\ savedReceipts' \in {receipts', savedReceipts}
        /\ \A d \in Commands : receipts'[d] = IF d = c THEN turn[c].outcome ELSE receipts[d]
        /\ turn[c].outcome # "absent"
    BY <1>10 DEF RecordDirect, TypeOK, Turn, Outcomes
  <2> QED
    BY <2>1 DEF RecordsKept, LedgerInv, FilesFollow, TypeOK, Conversation
<1>11. ASSUME NEW c \in Commands, RecordConversation(c)
      PROVE  RecordsKept
  <2>1. UNCHANGED savedReceipts
    BY <1>11 DEF RecordConversation
  <2> QED
    BY <1>11, <2>1, RecordConversationEffect, RevisionType DEF RecordsKept, Outcomes
<1>12. ASSUME NEW c \in Commands, ReleaseConversation(c)
      PROVE  RecordsKept
  BY <1>12 DEF ReleaseConversation, NoTurn, RecordsKept, TypeOK, Conversation
<1>13. CASE Close
  BY <1>13 DEF Close, RecordsKept, TypeOK, Conversation
<1>14. CASE Exit \/ Crash
  BY <1>14 DEF Exit, Crash, Stop, RecordsKept, LedgerInv, FilesFollow, TypeOK, Conversation
<1>15. CASE Restart
  <2>1. UNCHANGED savedReceipts
    BY <1>15 DEF Restart
  <2> QED
    BY <1>15, <2>1, RestartEffect, RevisionType DEF RecordsKept, LedgerInv, FilesFollow
<1>16. CASE UNCHANGED vars
  BY <1>16 DEF vars, RecordsKept, TypeOK, Conversation
<1> QED
  BY <1>1, <1>2, <1>3, <1>4, <1>5, <1>6, <1>7, <1>8, <1>9, <1>10, <1>11, <1>12, <1>13,
    <1>14, <1>15, <1>16 DEF Next, Finish

\* Revisions, links and command records survive every step, crash and restart.
THEOREM RecordsAreKept == Spec => NothingForgotten
<1>1. IInv /\ IInv' /\ [Next]_vars => RecordsKept
  BY KeepNext DEF IInv
<1>2. RecordsKept =>
        [\A k \in Conversations :
          /\ convs[k].revision <= convs'[k].revision
          /\ convs[k].links \subseteq convs'[k].links
          /\ \A c \in Commands :
                convs[k].commands[c] # "absent" => convs'[k].commands[c] # "absent"]_convs
  BY DEF RecordsKept
<1> QED
  BY <1>1, <1>2, Inductive, PTL DEF Spec, NothingForgotten

\* The stages a goroutine goes through, other than by its delivery.
StageMoves(c) ==
    \/ turn'[c].stage = turn[c].stage
    \/ turn'[c].stage = "spawned" /\ Phase(c) = "unused"
    \/ turn'[c].stage \in {"idle", "settling"}

StagesMove ==
    \/ deliveries' = deliveries /\ \A c \in Commands : StageMoves(c)
    \/ \E c \in Commands :
          /\ turn[c].stage = "spawned" /\ turn'[c].stage = "delivered"
          /\ \A d \in Commands \ {c} : turn'[d] = turn[d]
          /\ deliveries' = [deliveries EXCEPT ![c] = @ + 1]
          /\ UNCHANGED files

LEMMA StageNext == TypeOK /\ LedgerInv /\ [Next]_vars => StagesMove
<1> SUFFICES ASSUME TypeOK, LedgerInv, [Next]_vars PROVE StagesMove
  OBVIOUS
<1> USE DEF files, memory
<1>1. ASSUME NEW s \in Sessions, SelectSession(s)
      PROVE  StagesMove
  BY <1>1 DEF SelectSession, StagesMove, StageMoves, TypeOK, Turn
<1>2. ASSUME NEW s \in Sessions, BeginSelectModel(s)
      PROVE  StagesMove
  BY <1>2 DEF BeginSelectModel, StagesMove, StageMoves, TypeOK, Turn
<1>3. ASSUME NEW s \in Sessions, EndSelectModel(s)
      PROVE  StagesMove
  BY <1>3 DEF EndSelectModel, StagesMove, StageMoves, TypeOK, Turn
<1>4. ASSUME NEW k \in Conversations, NEW s \in Sessions, CreateConversation(k, s)
      PROVE  StagesMove
  BY <1>4 DEF CreateConversation, PutConversation, Absent, StagesMove, StageMoves,
    TypeOK, Turn
<1>5. ASSUME NEW k \in Conversations, NEW s \in Sessions, SwitchConversation(k, s)
      PROVE  StagesMove
  BY <1>5 DEF SwitchConversation, PutConversation, StagesMove, StageMoves, TypeOK, Turn
<1>6. ASSUME NEW k \in Conversations, NEW s \in Sessions, NEW c \in Commands,
    PromptConversation(k, s, c)
      PROVE  StagesMove
  <2>1. turn[c].stage = "idle" /\ ~OnDisk(c) /\ UNCHANGED deliveries
    BY <1>6, UnusedIsIdle DEF PromptConversation, Unused, OnDisk, LedgerInv, FilesFollow
  <2>2. turn'[c].stage = "spawned" /\ \A d \in Commands \ {c} : turn'[d] = turn[d]
    BY <1>6, PromptConversationEffect
  <2> QED
    BY <2>1, <2>2 DEF StagesMove, StageMoves, Phase
<1>7. ASSUME NEW s \in Sessions, NEW c \in Commands, PromptDirect(s, c)
      PROVE  StagesMove
  <2>1. turn[c].stage = "idle" /\ ~OnDisk(c) /\ UNCHANGED deliveries
    BY <1>7, UnusedIsIdle DEF PromptDirect, Unused, OnDisk, LedgerInv, FilesFollow
  <2> QED
    BY <1>7, <2>1 DEF StagesMove, StageMoves, PromptDirect, Spawn, Phase, TypeOK
<1>8. ASSUME NEW c \in Commands, Deliver(c)
      PROVE  StagesMove
  <2>1. /\ turn[c].stage = "spawned" /\ turn'[c].stage = "delivered"
        /\ \A d \in Commands \ {c} : turn'[d] = turn[d]
        /\ deliveries' = [deliveries EXCEPT ![c] = @ + 1]
        /\ UNCHANGED files
    BY <1>8 DEF Deliver, TypeOK, Turn
  <2> QED
    BY <2>1 DEF StagesMove
<1>9. ASSUME NEW c \in Commands, ReleaseDirect(c)
      PROVE  StagesMove
  BY <1>9 DEF ReleaseDirect, Settle, Returns, StagesMove, StageMoves, TypeOK, Turn
<1>10. ASSUME NEW c \in Commands, RecordDirect(c)
      PROVE  StagesMove
  BY <1>10 DEF RecordDirect, NoTurn, StagesMove, StageMoves, TypeOK, Turn
<1>11. ASSUME NEW c \in Commands, RecordConversation(c)
      PROVE  StagesMove
  BY <1>11, RecordConversationEffect DEF StagesMove, StageMoves, RecordConversation
<1>12. ASSUME NEW c \in Commands, ReleaseConversation(c)
      PROVE  StagesMove
  BY <1>12 DEF ReleaseConversation, NoTurn, StagesMove, StageMoves, TypeOK, Turn
<1>13. CASE Close
  BY <1>13 DEF Close, StagesMove, StageMoves, TypeOK, Turn
<1>14. CASE Exit \/ Crash
  BY <1>14 DEF Exit, Crash, Stop, NoTurn, StagesMove, StageMoves, TypeOK, Turn
<1>15. CASE Restart
  BY <1>15 DEF Restart, Interrupted, StagesMove, StageMoves, TypeOK, Turn
<1>16. CASE UNCHANGED vars
  BY <1>16 DEF vars, StagesMove, StageMoves, TypeOK, Turn
<1> QED
  BY <1>1, <1>2, <1>3, <1>4, <1>5, <1>6, <1>7, <1>8, <1>9, <1>10, <1>11, <1>12, <1>13,
    <1>14, <1>15, <1>16 DEF Next, Finish

LEMMA PhaseNext ==
    ASSUME TypeOK, LedgerInv, TypeOK', LedgerInv', [Next]_vars
    PROVE  [Delivery!Next]_(Delivery!vars)
<1> DEFINE phase == [c \in Commands |-> Phase(c)]
<1>1. RecordsKept /\ StagesMove
  BY KeepNext, StageNext
<1>2. \A c \in Commands : OnDisk(c) => OnDisk(c)'
  BY <1>1 DEF RecordsKept, OnDisk, LedgerInv, FilesFollow
<1>3. \A c \in Commands : turn[c].stage # "idle" => OnDisk(c)
  BY TurnsOnDisk
<1>4. ASSUME deliveries' = deliveries, \A c \in Commands : StageMoves(c)
      PROVE  Delivery!Keep
  <2>1. ASSUME NEW c \in Commands, Phase(c)' # Phase(c)
        PROVE  <<Phase(c), Phase(c)'>> \in Delivery!Moves
    <3>1. turn[c].stage \in Stages /\ turn'[c].stage \in Stages
      BY DEF TypeOK, Turn
    <3> QED
      BY <1>2, <1>3, <1>4, <2>1, <3>1 DEF StageMoves, Phase, Stages, Delivery!Moves
  <2>2. \A c \in Commands : Phase(c)' \in Delivery!Phases
    BY DEF Phase, Delivery!Phases
  <2> QED
    BY <1>4, <2>1, <2>2 DEF Delivery!Keep
<1>5. ASSUME NEW c \in Commands,
             turn[c].stage = "spawned", turn'[c].stage = "delivered",
             \A d \in Commands \ {c} : turn'[d] = turn[d],
             deliveries' = [deliveries EXCEPT ![c] = @ + 1],
             UNCHANGED files
      PROVE  Delivery!Deliver(c)
  <2>1. \A d \in Commands : Phase(d)' = IF d = c THEN "delivered" ELSE Phase(d)
    BY <1>5 DEF Phase, OnDisk, files
  <2>2. Phase(c) = "reserved"
    BY <1>5 DEF Phase
  <2> QED
    BY <1>5, <2>1, <2>2 DEF Delivery!Deliver
<1> QED
  BY <1>1, <1>4, <1>5 DEF StagesMove, Delivery!Next

\* The ledger implements the abstract promise: reserve, deliver once, settle.
THEOREM Refinement == Spec => ImplementsDelivery
<1>1. Init => Delivery!Init
  BY DEF Init, Delivery!Init, Phase, OnDisk, NoTurn, NoCommands, Absent
<1>2. IInv /\ IInv' /\ [Next]_vars => [Delivery!Next]_(Delivery!vars)
  BY PhaseNext DEF IInv
<1> QED
  BY <1>1, <1>2, Inductive, PTL DEF Spec, ImplementsDelivery, Delivery!Spec

\* What the abstract specification promises, whatever implements it.
Promised == Delivery!TypeOK /\ Delivery!DeliveredOnce

\* The promise holds of every command: whatever is recorded, retried or interrupted, the
\* ledger, as one of the implementations, delivers none twice, and none unreserved.
THEOREM AtMostOnce == Spec => []Delivery!DeliveredOnce
<1>1. Delivery!Init => Promised
  BY DEF Delivery!Init, Promised, Delivery!TypeOK, Delivery!DeliveredOnce, Delivery!Phases
<1>2. Promised /\ [Delivery!Next]_(Delivery!vars) => Promised'
  <2> SUFFICES ASSUME Promised, [Delivery!Next]_(Delivery!vars) PROVE Promised'
    OBVIOUS
  <2> USE DEF Promised, Delivery!TypeOK, Delivery!DeliveredOnce, Delivery!Phases
  <2>1. CASE Delivery!Keep
    <3>1. [c \in Commands |-> Phase(c)'] \in [Commands -> Delivery!Phases] /\ deliveries' = deliveries
      BY <2>1 DEF Delivery!Keep
    <3>2. ASSUME NEW c \in Commands PROVE Phase(c)' = Phase(c) \/ <<Phase(c), Phase(c)'>> \in Delivery!Moves
      BY <2>1 DEF Delivery!Keep
    <3>3. ASSUME NEW c \in Commands, Phase(c)' \in {"unused", "reserved"}
          PROVE  Phase(c) \in {"unused", "reserved"}
      BY <3>2, <3>3 DEF Delivery!Moves
    <3>4. /\ [c \in Commands |-> Phase(c)'] \in [Commands -> Delivery!Phases]
          /\ deliveries' \in [Commands -> Nat]
      BY <3>1
    <3>5. \A c \in Commands :
             /\ deliveries'[c] <= 1
             /\ Phase(c)' \in {"unused", "reserved"} => deliveries'[c] = 0
      BY <3>1, <3>3
    <3> QED
      BY <3>4, <3>5
  <2>2. ASSUME NEW c \in Commands, Delivery!Deliver(c) PROVE Promised'
    <3>1. /\ Phase(c) = "reserved"
          /\ [d \in Commands |-> Phase(d)'] = [[d \in Commands |-> Phase(d)] EXCEPT ![c] = "delivered"]
          /\ deliveries' = [deliveries EXCEPT ![c] = @ + 1]
      BY <2>2 DEF Delivery!Deliver
    <3>2. \A d \in Commands : Phase(d)' = IF d = c THEN "delivered" ELSE Phase(d)
      BY <3>1
    <3>3. /\ [d \in Commands |-> Phase(d)'] \in [Commands -> Delivery!Phases]
          /\ deliveries' \in [Commands -> Nat]
      BY <3>1, <3>2
    <3>4. \A d \in Commands :
             /\ deliveries'[d] <= 1
             /\ Phase(d)' \in {"unused", "reserved"} => deliveries'[d] = 0
      BY <3>1, <3>2
    <3> QED
      BY <3>3, <3>4
  <2>3. CASE UNCHANGED Delivery!vars
    BY <2>3 DEF Delivery!vars
  <2> QED
    BY <2>1, <2>2, <2>3 DEF Delivery!Next
<1>3. Promised => Delivery!DeliveredOnce
  BY DEF Promised
<1> QED
  BY <1>1, <1>2, <1>3, Refinement, PTL DEF ImplementsDelivery, Delivery!Spec
================================================================================
