------------------------------ MODULE Turns_proofs ------------------------------
(***************************************************************************)
(* Theorems about the turns that prompts start: of one session over a pipe *)
(* (ProviderTurn), for any prompts and turns and a channel of any capacity; *)
(* and those that the tasks of a coordinating owner start (Coordination),   *)
(* for any tasks, commands, conversations, sessions and any number of       *)
(* switches.                                                                *)
(***************************************************************************)
EXTENDS Coordination, ProviderTurn, FiniteSetTheorems, SequenceTheorems, TLAPS

----------------------------------------
(* One session over a pipe.  The inductive invariant: that the turn a prompt is *)
(* told of is its own, and that no turn is started for one that has gone, rest  *)
(* on the call in flight. As long as the connection lives there is one at most, *)
(* of the prompt that waits for it.                                             *)

Active(p) == stage[p] \notin {"new", "returned"}
Calling(p) == stage[p] \in {"resuming", "starting"}

IsReply(f) == f.kind = "answer" \/ Fails(f)
Replies == {i \in DOMAIN wire : IsReply(wire[i])}

\* One prompt at a time; an outcome is of one that has returned.
Turnwise ==
    /\ \A p \in Prompts : Active(p) => busy
    /\ \A p, q \in Prompts : Active(p) /\ Active(q) => p = q
    /\ \A p \in Prompts : result[p] # "none" => stage[p] = "returned"

\* A prompt starts one turn at most, and one that waits knows it.
Causes ==
    /\ \A t \in Turns : cause[t] # NoPrompt =>
          turn[t] # "unused" /\ stage[cause[t]] \in {"starting", "wait", "returned"}
    /\ \A t, u \in Turns : cause[t] # NoPrompt /\ cause[t] = cause[u] => t = u
    /\ asked.call = "start" =>
          /\ stage[asked.by] \in {"starting", "returned"}
          /\ \A t \in Turns : cause[t] # asked.by
    /\ \A p \in Prompts : stage[p] = "wait" => turnOf[p] \in Turns /\ cause[turnOf[p]] = p

\* Nothing is in flight on a connection that lives when no prompt makes a call.
Quiet ==
    ~done /\ (\A p \in Prompts : ~Calling(p)) =>
        asked = NoneAsked /\ owed = {} /\ Replies = {}

\* What a reply to p may be, and that it is the last of its call.
ReplyTo(p, f) ==
    /\ f.kind = "answer" /\ f.turn # NoTurn => cause[f.turn] = p
    /\ Fails(f) => \A t \in Turns : cause[t] = p => t \in denied
    /\ asked = NoneAsked /\ owed = {}

\* What is in flight belongs to the prompt that makes a call.
Calls ==
    \A p \in Prompts : Calling(p) =>
        /\ asked # NoneAsked =>
              asked.by = p /\ asked.call = IF stage[p] = "resuming" THEN "resume" ELSE "start"
        /\ \A t \in owed : cause[t] = p
        /\ \A i \in Replies : ReplyTo(p, wire[i])
        /\ IsReply(slot) => ReplyTo(p, slot) /\ Replies = {}
        /\ \A i, j \in Replies : i = j

\* A notice is of a turn that is over, and there is one of each; those in the channel
\* came during the prompt.
Over(i) == wire[i].kind = "completed"
Notices ==
    /\ \A i \in DOMAIN wire : Over(i) => turn[wire[i].turn] = "ended"
    /\ \A i \in DOMAIN completion : turn[completion[i]] = "ended" /\ completion[i] \in heard
    /\ \A i, j \in DOMAIN wire : Over(i) /\ Over(j) /\ wire[i].turn = wire[j].turn => i = j
    /\ \A i, j \in DOMAIN completion : completion[i] = completion[j] => i = j
    /\ \A i \in DOMAIN wire, j \in DOMAIN completion : Over(i) => wire[i].turn # completion[j]

TurnInv ==
    /\ TurnTypes /\ Turnwise /\ Causes /\ Quiet /\ Calls /\ Notices
    /\ ReportsOwnTurn /\ NoTurnLeftBehind /\ NoticeIsKept

----------------------------------------
(* Frames and sequences of them. *)

LEMMA FrameFields ==
    ASSUME NEW f \in Frame
    PROVE  /\ f.kind \in {"answer", "refusal", "garbled", "completed"}
           /\ f.kind = "answer" => f.turn \in Turns \cup {NoTurn}
           /\ f.kind = "completed" => f.turn \in Turns
  BY DEF Frame

LEMMA Appended ==
    ASSUME NEW S, NEW s \in Seq(S), NEW e \in S
    PROVE  /\ Append(s, e) \in Seq(S) /\ Len(Append(s, e)) = Len(s) + 1
           /\ DOMAIN s \subseteq DOMAIN Append(s, e)
           /\ Len(s) + 1 \in DOMAIN Append(s, e) /\ Append(s, e)[Len(s) + 1] = e
           /\ \A i \in DOMAIN s : Append(s, e)[i] = s[i] /\ i # Len(s) + 1
           /\ \A i \in DOMAIN Append(s, e) : i \in DOMAIN s \/ i = Len(s) + 1
  OBVIOUS

LEMMA Shortened ==
    ASSUME NEW S, NEW s \in Seq(S), s # <<>>
    PROVE  /\ Tail(s) \in Seq(S) /\ Len(Tail(s)) = Len(s) - 1
           /\ 1 \in DOMAIN s /\ Head(s) = s[1] /\ Head(s) \in S
           /\ \A i \in DOMAIN Tail(s) : i + 1 \in DOMAIN s /\ Tail(s)[i] = s[i + 1] /\ i + 1 # 1
           /\ \A i \in DOMAIN s : i # 1 => i - 1 \in DOMAIN Tail(s) /\ Tail(s)[i - 1] = s[i]
           /\ DOMAIN s \subseteq Int /\ DOMAIN Tail(s) \subseteq Int
  OBVIOUS

\* A channel that is full without a turn's notice holds as many of other turns.
LEMMA FullOfOthers ==
    ASSUME NEW s \in Seq(Turns), NEW t \in Turns, NEW H \in SUBSET Turns,
           \A i, j \in DOMAIN s : s[i] = s[j] => i = j,
           \A i \in DOMAIN s : s[i] # t /\ s[i] \in H,
           Len(s) >= Capacity
    PROVE  Cardinality(H \ {t}) >= Capacity
<1> DEFINE T == H \ {t}
<1>1. IsFiniteSet(T) /\ Cardinality(T) \in Nat
  BY TurnAssumption, FS_Subset, FS_CardinalityType
<1>2. s \in [1..Len(s) -> T] /\ Len(s) \in Nat
  OBVIOUS
<1>3. s \in Injection(1..Len(s), T)
  <2>1. \A i, j \in 1..Len(s) : s[i] = s[j] => i = j
    OBVIOUS
  <2> QED
    BY <1>2, <2>1 DEF Injection, IsInjective
<1>4. IsFiniteSet(1..Len(s)) /\ Cardinality(1..Len(s)) = Len(s)
  <2>1. Cardinality(1..Len(s)) = IF 1 > Len(s) THEN 0 ELSE Len(s) - 1 + 1
    BY <1>2, FS_Interval
  <2>2. IsFiniteSet(1..Len(s))
    BY <1>2, FS_Interval
  <2> QED
    BY <1>2, <2>1, <2>2
<1>5. Cardinality(1..Len(s)) <= Cardinality(T)
  BY <1>1, <1>3, FS_Injection
<1> QED
  BY <1>1, <1>2, <1>4, <1>5, TurnAssumption

----------------------------------------
(* What every return leaves. *)
LEMMA Returned ==
    ASSUME TurnTypes, NEW p \in Prompts, NEW outcome \in {"ended", "failed", "uncertain"},
           Return(p, outcome)
    PROVE  /\ stage' \in [Prompts -> {"new", "resume", "resuming", "start", "starting", "wait",
                                      "returned"}]
           /\ result' \in [Prompts -> {"none", "ended", "failed", "uncertain"}]
           /\ busy' = FALSE /\ completion' = <<>> /\ heard' = {} /\ heard' \in SUBSET Turns
           /\ completion' \in Seq(Turns) /\ Len(completion') = 0 /\ Len(completion') <= Capacity
           /\ DOMAIN completion' = {}
           /\ stage' = [stage EXCEPT ![p] = "returned"] /\ result' = [result EXCEPT ![p] = outcome]
<1>1. stage' = [stage EXCEPT ![p] = "returned"] /\ result' = [result EXCEPT ![p] = outcome]
      /\ busy' = FALSE /\ completion' = <<>> /\ heard' = {}
  BY DEF Return
<1>2. Capacity \in Nat
  BY TurnAssumption
<1>3. stage' \in [Prompts -> {"new", "resume", "resuming", "start", "starting", "wait", "returned"}]
  BY <1>1 DEF TurnTypes
<1>4. result' \in [Prompts -> {"none", "ended", "failed", "uncertain"}]
  BY <1>1 DEF TurnTypes
<1> QED
  BY <1>1, <1>2, <1>3, <1>4

----------------------------------------
(* The wire grows at the agent's end and shrinks at the reader's.  *)

LEMMA Grown ==
    ASSUME TurnTypes, NEW f \in Frame, wire' = Append(wire, f)
    PROVE  /\ wire' \in Seq(Frame)
           /\ \A i \in DOMAIN wire : i \in DOMAIN wire' /\ wire'[i] = wire[i]
           /\ \E last \in DOMAIN wire' :
                 /\ last \notin DOMAIN wire /\ wire'[last] = f
                 /\ \A i \in DOMAIN wire' : i = last \/ (i \in DOMAIN wire /\ wire'[i] = wire[i])
<1>1. wire \in Seq(Frame)
  BY DEF TurnTypes
<1> DEFINE last == Len(wire) + 1
<1>2. last \in DOMAIN wire' /\ last \notin DOMAIN wire /\ wire'[last] = f
  BY <1>1
<1>3. \A i \in DOMAIN wire' : i = last \/ (i \in DOMAIN wire /\ wire'[i] = wire[i])
  BY <1>1
<1> QED
  BY <1>1, <1>2, <1>3

\* A reply leaves the notices that are on their way.
LEMMA NoticesStay ==
    ASSUME TurnTypes, Notices, NoticeIsKept, NEW f \in Frame, IsReply(f), wire' = Append(wire, f),
           UNCHANGED <<turn, cause, completion, heard, stage>>
    PROVE  Notices' /\ NoticeIsKept'
<1>1. PICK last \in DOMAIN wire' :
         /\ last \notin DOMAIN wire /\ wire'[last] = f
         /\ \A i \in DOMAIN wire' : i = last \/ (i \in DOMAIN wire /\ wire'[i] = wire[i])
  BY Grown
<1>2. \A i \in DOMAIN wire : i \in DOMAIN wire' /\ wire'[i] = wire[i]
  BY Grown
<1>3. \A i \in DOMAIN wire' : Over(i)' => i \in DOMAIN wire /\ Over(i) /\ wire'[i] = wire[i]
  BY <1>1 DEF Over, IsReply, Fails
<1>4. Notices'
  BY <1>3 DEF Notices
<1>5. \A t \in Turns : Unread(t) => Unread(t)'
  BY <1>2 DEF Unread
<1> QED
  BY <1>4, <1>5 DEF NoticeIsKept

\* What the agent sends when it takes up a call answers the prompt that makes it.
LEMMA ReplySent ==
    ASSUME TurnTypes, Calls, Quiet, NEW f \in Frame, IsReply(f), wire' = Append(wire, f),
           asked # NoneAsked, asked' = NoneAsked,
           UNCHANGED <<stage, slot, done, owed, cause, denied>>,
           f.kind = "answer" => f.turn = NoTurn,
           \A p \in Prompts : Calling(p) => owed = {} /\ (Fails(f) => \A t \in Turns : cause[t] # p)
    PROVE  Quiet' /\ Calls'
<1>1. PICK last \in DOMAIN wire' :
         /\ last \notin DOMAIN wire /\ wire'[last] = f
         /\ \A i \in DOMAIN wire' : i = last \/ (i \in DOMAIN wire /\ wire'[i] = wire[i])
  BY Grown
<1>2. Quiet'
  BY DEF Quiet, Calling
<1>3. ASSUME NEW p \in Prompts, Calling(p)
      PROVE  /\ owed' = {} /\ Replies = {} /\ ~IsReply(slot)
             /\ ReplyTo(p, f)'
  BY <1>3 DEF Calls, ReplyTo
<1>4. ASSUME NEW p \in Prompts, Calling(p), NEW i \in Replies' PROVE i = last
  BY <1>1, <1>3, <1>4 DEF Replies
<1>5. Calls'
  BY <1>1, <1>3, <1>4 DEF Calls, Calling
<1> QED
  BY <1>2, <1>5


----------------------------------------
(* The steps of Prompt, of the reader and of the agent keep the invariant. *)

LEMMA BeginStep ==
    ASSUME TurnInv, NEW p \in Prompts, Begin(p)
    PROVE  TurnInv'
<1> USE TurnAssumption DEF TurnInv, ours, theirs, Begin
<1>1. TurnTypes'
  BY DEF TurnTypes
<1>2. Turnwise'
  BY DEF Turnwise, Active
<1>3. Causes'
  BY DEF Causes
<1>4. Quiet'
  BY DEF Quiet, Calling, Replies, IsReply
<1>5. Calls'
  BY DEF Calls, Calling, ReplyTo, Replies, IsReply
<1>6. Notices'
  BY DEF Notices, Over
<1>7. ReportsOwnTurn'
  BY DEF ReportsOwnTurn
<1>8. NoTurnLeftBehind'
  BY DEF NoTurnLeftBehind
<1>9. NoticeIsKept'
  BY DEF TurnTypes, NoticeIsKept, Unread
<1> QED
  BY <1>1, <1>2, <1>3, <1>4, <1>5, <1>6, <1>7, <1>8, <1>9 DEF TurnInv

LEMMA RefuseBusyStep ==
    ASSUME TurnInv, NEW p \in Prompts, RefuseBusy(p)
    PROVE  TurnInv'
<1> USE TurnAssumption DEF TurnInv, ours, theirs, RefuseBusy
<1>1. TurnTypes'
  BY DEF TurnTypes
<1>2. Turnwise'
  BY DEF TurnTypes, Turnwise, Active
<1>3. Causes'
  BY DEF Causes
<1>4. Quiet'
  BY DEF Quiet, Calling, Replies, IsReply
<1>5. Calls'
  BY DEF Calls, Calling, ReplyTo, Replies, IsReply
<1>6. Notices'
  BY DEF Notices, Over
<1>7. ReportsOwnTurn'
  BY DEF ReportsOwnTurn
<1>8. NoTurnLeftBehind'
  BY DEF Causes, NoTurnLeftBehind
<1>9. NoticeIsKept'
  BY DEF NoticeIsKept, Unread
<1> QED
  BY <1>1, <1>2, <1>3, <1>4, <1>5, <1>6, <1>7, <1>8, <1>9 DEF TurnInv

LEMMA WriteStep ==
    ASSUME TurnInv, NEW p \in Prompts, Write(p)
    PROVE  TurnInv'
<1> USE DEF TurnInv
<1>1. /\ stage[p] \in {"resume", "start"} /\ ~done
      /\ asked' = [call |-> stage[p], by |-> p] /\ slot' = Empty
      /\ stage' = [stage EXCEPT ![p] = CallMade(stage[p])]
      /\ UNCHANGED <<busy, completion, heard, result, resumed, turnOf, done, wire, owed, alive, turn,
                     cause, denied>>
  BY DEF Write
<1>2. \A q \in Prompts : Active(q) => q = p
  BY <1>1 DEF Turnwise, Active
<1>3. owed = {} /\ Replies' = {}
  <2>1. \A q \in Prompts : ~Calling(q)
    BY <1>1, <1>2 DEF Calling, Active
  <2> QED
    BY <1>1, <2>1 DEF Quiet, Replies
<1>4. /\ stage'[p] = IF stage[p] = "resume" THEN "resuming" ELSE "starting"
      /\ \A q \in Prompts : q # p => stage'[q] = stage[q]
      /\ stage' \in [Prompts -> {"new", "resume", "resuming", "start", "starting", "wait",
                                "returned"}]
  BY <1>1 DEF CallMade, TurnTypes
<1>5. ~IsReply(slot') /\ slot' \in Frame \cup {Empty}
  BY <1>1 DEF Empty, IsReply, Fails
<1>6. asked'.call = stage[p] /\ asked'.by = p
      /\ asked' \in [call : {"resume", "start"}, by : Prompts]
  BY <1>1
<1>7. \A t \in Turns : cause[t] # p
  BY <1>1, TurnAssumption DEF Causes
<1>8. TurnTypes'
  BY <1>1, <1>4, <1>5, <1>6 DEF TurnTypes
<1>9. Turnwise'
  BY <1>1, <1>4 DEF Turnwise, Active
<1>10. Causes'
  <2>1. \A t \in Turns : cause[t] # NoPrompt =>
           turn[t] # "unused" /\ cause[t] \in Prompts
              /\ stage'[cause[t]] \in {"starting", "wait", "returned"}
    BY <1>4, <1>7 DEF Causes, TurnTypes
  <2>2. \A q \in Prompts : stage'[q] = "wait" => turnOf[q] \in Turns /\ cause[turnOf[q]] = q
    BY <1>4 DEF Causes
  <2> QED
    BY <1>1, <1>4, <1>6, <1>7, <2>1, <2>2 DEF Causes
<1>11. Quiet'
  BY <1>4 DEF Quiet, Calling
<1>12. Calls'
  <2>1. \A q \in Prompts : Calling(q)' => q = p
    BY <1>2, <1>4 DEF Calling, Active
  <2> QED
    BY <1>1, <1>3, <1>4, <1>5, <1>6, <2>1 DEF Calls, Calling
<1>13. Notices'
  BY <1>1 DEF Notices, Over
<1>14. ReportsOwnTurn' /\ NoTurnLeftBehind'
  BY <1>1, <1>4, <1>7 DEF ReportsOwnTurn, NoTurnLeftBehind, TurnTypes
<1>15. NoticeIsKept'
  BY <1>1, <1>4, <1>7 DEF NoticeIsKept, Unread
<1> QED
  BY <1>8, <1>9, <1>10, <1>11, <1>12, <1>13, <1>14, <1>15 DEF TurnInv


LEMMA WriteFailsStep ==
    ASSUME TurnInv, NEW p \in Prompts, WriteFails(p)
    PROVE  TurnInv'
<1> USE TurnAssumption DEF TurnInv, ours, theirs, WriteFails, Return
<1>1. TurnTypes'
  <2>1. Return(p, "failed") /\ UNCHANGED <<resumed, turnOf, slot, done, theirs>>
    BY DEF WriteFails
  <2> HIDE DEF WriteFails, Return
  <2> QED
    BY <2>1, Returned DEF TurnTypes
<1>2. Turnwise'
  BY DEF TurnTypes, Turnwise, Active
<1>3. Causes'
  BY DEF Causes
<1>4. Quiet'
  BY DEF Quiet, Calling, Replies, IsReply
<1>5. Calls'
  BY DEF Calls, Calling, ReplyTo, Replies, IsReply
<1>6. Notices'
  BY DEF Notices, Over
<1>7. ReportsOwnTurn'
  BY DEF ReportsOwnTurn
<1>8. NoTurnLeftBehind'
  BY DEF NoTurnLeftBehind
<1>9. NoticeIsKept'
  BY DEF Turnwise, Active, NoticeIsKept, Unread
<1> QED
  BY <1>1, <1>2, <1>3, <1>4, <1>5, <1>6, <1>7, <1>8, <1>9 DEF TurnInv

LEMMA TakeResumedStep ==
    ASSUME TurnInv, NEW p \in Prompts, TakeResumed(p)
    PROVE  TurnInv'
<1> USE DEF TurnInv
<1>1. /\ stage[p] = "resuming" /\ IsReply(slot) /\ slot' = Empty
      /\ UNCHANGED <<turnOf, done, asked, wire, owed, alive, turn, cause, denied>>
  BY DEF TakeResumed, theirs, IsReply
<1>2. asked = NoneAsked /\ owed = {} /\ Replies = {}
  BY <1>1 DEF Calls, Calling, ReplyTo
<1>3. \A t \in Turns : cause[t] # p
  BY <1>1, TurnAssumption DEF Causes
<1>4. busy /\ \A q \in Prompts : Active(q) => q = p
  BY <1>1 DEF Turnwise, Active
<1>5. /\ slot' \in Frame \cup {Empty} /\ ~IsReply(slot') /\ Replies' = {}
      /\ asked.call # "start"
  BY <1>1, <1>2 DEF Empty, IsReply, Fails, Replies, NoneAsked
<1>6. /\ stage' \in [Prompts -> {"new", "resume", "resuming", "start", "starting", "wait",
                                "returned"}]
      /\ result' \in [Prompts -> {"none", "ended", "failed", "uncertain"}]
      /\ completion' \in Seq(Turns) /\ Len(completion') <= Capacity
      /\ resumed' \in BOOLEAN /\ busy' \in BOOLEAN /\ heard' \in SUBSET Turns
      /\ (~busy' => completion' = <<>> /\ heard' = {})
      /\ \A q \in Prompts : q # p => stage'[q] = stage[q] /\ result'[q] = result[q]
      /\ \/ stage'[p] = "start" /\ result'[p] = result[p] /\ UNCHANGED <<busy, completion, heard>>
         \/ stage'[p] = "returned" /\ result'[p] = "failed" /\ completion' = <<>>
  <2>1. CASE resumed' = TRUE /\ stage' = [stage EXCEPT ![p] = "start"]
             /\ UNCHANGED <<busy, completion, heard, result>>
    BY <1>4, <2>1 DEF TurnTypes
  <2>2. CASE Return(p, "failed") /\ UNCHANGED resumed
    <3>1. /\ stage' \in [Prompts -> {"new", "resume", "resuming", "start", "starting", "wait",
                                  "returned"}]
        /\ result' \in [Prompts -> {"none", "ended", "failed", "uncertain"}]
        /\ busy' = FALSE /\ completion' = <<>> /\ heard' = {} /\ heard' \in SUBSET Turns
        /\ completion' \in Seq(Turns) /\ Len(completion') <= Capacity
        /\ stage' = [stage EXCEPT ![p] = "returned"] /\ result' = [result EXCEPT ![p] = "failed"]
      BY <2>2, Returned
    <3>2. resumed' \in BOOLEAN
      BY <2>2 DEF TurnTypes
    <3> QED
      BY <3>1, <3>2 DEF TurnTypes
  <2> QED
    BY <2>1, <2>2 DEF TakeResumed
<1>7. TurnTypes'
  BY <1>1, <1>5, <1>6 DEF TurnTypes
<1>8. Turnwise'
  <2>1. busy' \/ stage'[p] = "returned"
    BY <1>4, <1>6
  <2>2. \A q \in Prompts : stage'[q] \notin {"new", "returned"} => q = p
    BY <1>4, <1>6 DEF Active
  <2>3. \A q \in Prompts : result'[q] # "none" => stage'[q] = "returned"
    BY <1>1, <1>6 DEF Turnwise
  <2> QED
    BY <2>1, <2>2, <2>3 DEF Turnwise, Active
<1>9. Causes'
  <2>1. \A t \in Turns : cause[t] # NoPrompt => cause[t] \in Prompts /\ cause[t] # p
    BY <1>3 DEF TurnTypes
  <2> QED
    BY <1>1, <1>5, <1>6, <2>1 DEF Causes
<1>10. Quiet'
  BY <1>1, <1>2, <1>5 DEF Quiet
<1>11. Calls'
  <2>1. \A q \in Prompts : ~Calling(q)'
    BY <1>4, <1>6 DEF Calling, Active
  <2> QED
    BY <2>1 DEF Calls
<1>12. Notices'
  BY <1>1, <1>6 DEF Notices, Over
<1>13. ReportsOwnTurn' /\ NoTurnLeftBehind'
  <2>1. result'[p] # "ended"
    BY <1>1, <1>6 DEF Turnwise
  <2> QED
    BY <1>1, <1>3, <1>6, <2>1 DEF ReportsOwnTurn, NoTurnLeftBehind, TurnTypes
<1>14. NoticeIsKept'
  <2>1. \A q \in Prompts : stage'[q] \notin {"starting", "wait"}
    BY <1>4, <1>6 DEF Active
  <2> QED
    BY <2>1 DEF NoticeIsKept
<1> QED
  BY <1>7, <1>8, <1>9, <1>10, <1>11, <1>12, <1>13, <1>14 DEF TurnInv


LEMMA TakeStartedStep ==
    ASSUME TurnInv, NEW p \in Prompts, TakeStarted(p)
    PROVE  TurnInv'
<1> USE DEF TurnInv
<1>1. /\ stage[p] = "starting" /\ IsReply(slot) /\ slot' = Empty
      /\ UNCHANGED <<resumed, asked, wire, owed, alive, turn, cause, denied>>
  BY DEF TakeStarted, theirs, IsReply
<1>2. asked = NoneAsked /\ owed = {} /\ Replies = {} /\ ReplyTo(p, slot)
  BY <1>1 DEF Calls, Calling, ReplyTo
<1>3. busy /\ \A q \in Prompts : Active(q) => q = p
  BY <1>1 DEF Turnwise, Active
<1>4. /\ slot' \in Frame \cup {Empty} /\ Replies' = {} /\ asked.call # "start"
  BY <1>1, <1>2 DEF Empty, Replies, NoneAsked
<1>5. slot.kind = "answer" => slot.turn \in Turns \cup {NoTurn}
  <2>1. slot # Empty
    BY <1>1 DEF IsReply, Fails, Empty
  <2> QED
    BY <2>1, FrameFields DEF TurnTypes
<1> DEFINE After ==
      /\ stage' \in [Prompts -> {"new", "resume", "resuming", "start", "starting", "wait",
                                "returned"}]
      /\ result' \in [Prompts -> {"none", "ended", "failed", "uncertain"}]
      /\ turnOf' \in [Prompts -> Turns \cup {NoTurn}]
      /\ completion' \in Seq(Turns) /\ Len(completion') <= Capacity
      /\ done' \in BOOLEAN /\ busy' \in BOOLEAN /\ heard' \in SUBSET Turns
      /\ (~busy' => completion' = <<>> /\ heard' = {})
      /\ done => done'
      /\ \A q \in Prompts : q # p =>
            stage'[q] = stage[q] /\ result'[q] = result[q] /\ turnOf'[q] = turnOf[q]
      /\ \/ /\ stage'[p] = "wait" /\ result'[p] = result[p] /\ UNCHANGED <<busy, completion, heard>>
            /\ turnOf'[p] \in Turns /\ cause[turnOf'[p]] = p
         \/ /\ stage'[p] = "returned" /\ result'[p] \in {"failed", "uncertain"}
            /\ completion' = <<>>
            /\ done' \/ \A t \in Turns : cause[t] = p => t \in denied
<1>6. After
  <2>1. CASE /\ slot.kind = "answer" /\ slot.turn # NoTurn
             /\ turnOf' = [turnOf EXCEPT ![p] = slot.turn]
             /\ stage' = [stage EXCEPT ![p] = "wait"]
             /\ UNCHANGED <<busy, completion, heard, result, done>>
    BY <1>2, <1>3, <1>5, <2>1 DEF TurnTypes, ReplyTo
  <2>2. ASSUME NEW outcome \in {"failed", "uncertain"}, Return(p, outcome), UNCHANGED turnOf,
               done' \in BOOLEAN, done => done', done' \/ Fails(slot)
        PROVE  After
    <3>5. /\ Return(p, outcome) /\ outcome \in {"ended", "failed", "uncertain"}
          /\ TurnTypes
      BY <2>2
    <3>1. /\ stage' \in [Prompts -> {"new", "resume", "resuming", "start", "starting", "wait",
                                    "returned"}]
          /\ result' \in [Prompts -> {"none", "ended", "failed", "uncertain"}]
          /\ busy' = FALSE /\ completion' = <<>> /\ heard' = {} /\ heard' \in SUBSET Turns
          /\ completion' \in Seq(Turns) /\ Len(completion') <= Capacity
          /\ stage' = [stage EXCEPT ![p] = "returned"] /\ result' = [result EXCEPT ![p] = outcome]
      <4> HIDE DEF After, TurnInv
      <4> QED
        BY <3>5, Returned
    <3>2. turnOf' \in [Prompts -> Turns \cup {NoTurn}] /\ turnOf' = turnOf
      BY <2>2 DEF TurnTypes
    <3>3. done' \/ \A t \in Turns : cause[t] = p => t \in denied
      BY <1>2, <2>2 DEF ReplyTo
    <3>4. /\ stage'[p] = "returned" /\ result'[p] = outcome
          /\ \A q \in Prompts : q # p => stage'[q] = stage[q] /\ result'[q] = result[q]
      BY <3>1 DEF TurnTypes
    <3> QED
      BY <2>2, <3>1, <3>2, <3>3, <3>4
  <2>3. done \in BOOLEAN
    BY DEF TurnTypes
  <2>4. CASE /\ slot.kind = "answer" /\ slot.turn = NoTurn /\ done' = TRUE
             /\ Return(p, "uncertain") /\ UNCHANGED turnOf
    BY <2>2, <2>4
  <2>5. CASE Fails(slot) /\ Return(p, "failed") /\ UNCHANGED <<turnOf, done>>
    BY <2>2, <2>3, <2>5
  <2> HIDE DEF After
  <2> QED
    BY <2>1, <2>4, <2>5 DEF TakeStarted
<1>7. TurnTypes'
  BY <1>1, <1>4, <1>6 DEF TurnTypes
<1>8. Turnwise'
  <2>1. busy' \/ stage'[p] = "returned"
    BY <1>3, <1>6
  <2>2. \A q \in Prompts : stage'[q] \notin {"new", "returned"} => q = p
    BY <1>3, <1>6 DEF Active
  <2>3. \A q \in Prompts : result'[q] # "none" => stage'[q] = "returned"
    BY <1>1, <1>6 DEF Turnwise
  <2> QED
    BY <2>1, <2>2, <2>3 DEF Turnwise, Active
<1>9. Causes'
  <2>1. /\ \A t, u \in Turns : cause[t] # NoPrompt /\ cause[t] = cause[u] => t = u
        /\ \A t \in Turns : cause[t] # NoPrompt =>
              turn[t] # "unused" /\ cause[t] \in Prompts
                /\ stage'[cause[t]] \in {"starting", "wait", "returned"}
    BY <1>6 DEF Causes, TurnTypes
  <2>2. \A q \in Prompts : stage'[q] = "wait" => turnOf'[q] \in Turns /\ cause[turnOf'[q]] = q
    BY <1>6 DEF Causes
  <2> QED
    BY <1>1, <1>4, <2>1, <2>2 DEF Causes
<1>10. Quiet'
  BY <1>1, <1>2, <1>4 DEF Quiet
<1>11. Calls'
  <2>1. \A q \in Prompts : ~Calling(q)'
    BY <1>3, <1>6 DEF Calling, Active
  <2> QED
    BY <2>1 DEF Calls
<1>12. Notices'
  BY <1>1, <1>6 DEF Notices, Over
<1>13. ReportsOwnTurn'
  <2>1. result'[p] # "ended"
    BY <1>1, <1>6 DEF Turnwise
  <2> QED
    BY <1>1, <1>6, <2>1 DEF ReportsOwnTurn
<1>14. NoTurnLeftBehind'
  BY <1>1, <1>6 DEF NoTurnLeftBehind, TurnTypes
<1>15. NoticeIsKept'
  <2>1. \A q \in Prompts : stage'[q] \in {"starting", "wait"} =>
           q = p /\ stage'[p] = "wait" /\ completion' = completion /\ heard' = heard
    BY <1>3, <1>6 DEF Active
  <2> QED
    BY <1>1, <2>1 DEF NoticeIsKept, Unread
<1> QED
  BY <1>7, <1>8, <1>9, <1>10, <1>11, <1>12, <1>13, <1>14, <1>15 DEF TurnInv


LEMMA TakeCompletionStep ==
    ASSUME TurnInv, NEW p \in Prompts, TakeCompletion(p)
    PROVE  TurnInv'
<1> USE DEF TurnInv
<1>1. /\ stage[p] = "wait" /\ busy /\ completion \in Seq(Turns) /\ completion # <<>>
      /\ turnOf[p] \in Turns /\ cause[turnOf[p]] = p
      /\ UNCHANGED <<resumed, turnOf, slot, done, asked, wire, owed, alive, turn, cause, denied>>
  BY DEF TakeCompletion, TurnTypes, Turnwise, Active, Causes, theirs
<1>2. /\ Tail(completion) \in Seq(Turns) /\ Len(Tail(completion)) = Len(completion) - 1
      /\ 1 \in DOMAIN completion /\ Head(completion) = completion[1]
      /\ \A i \in DOMAIN Tail(completion) :
            i + 1 \in DOMAIN completion /\ Tail(completion)[i] = completion[i + 1]
      /\ \A i \in DOMAIN completion : i # 1 =>
            i - 1 \in DOMAIN Tail(completion) /\ Tail(completion)[i - 1] = completion[i]
      /\ DOMAIN completion \subseteq Int /\ DOMAIN Tail(completion) \subseteq Int
  BY <1>1, Shortened
<1>3. \A q \in Prompts : Active(q) => q = p
  BY <1>1 DEF Turnwise, Active
<1>4. turn[Head(completion)] = "ended"
  BY <1>2 DEF Notices
<1>5. CASE Head(completion) = turnOf[p] /\ Return(p, "ended")
  <2>1. /\ stage' \in [Prompts -> {"new", "resume", "resuming", "start", "starting", "wait",
                                  "returned"}]
        /\ result' \in [Prompts -> {"none", "ended", "failed", "uncertain"}]
        /\ busy' = FALSE /\ completion' = <<>> /\ heard' = {} /\ heard' \in SUBSET Turns
        /\ completion' \in Seq(Turns) /\ Len(completion') <= Capacity /\ DOMAIN completion' = {}
        /\ stage' = [stage EXCEPT ![p] = "returned"] /\ result' = [result EXCEPT ![p] = "ended"]
    BY <1>5, Returned
  <2>2. /\ stage'[p] = "returned" /\ result'[p] = "ended"
        /\ \A q \in Prompts : q # p => stage'[q] = stage[q] /\ result'[q] = result[q]
    BY <2>1 DEF TurnTypes
  <2>3. TurnTypes'
    BY <1>1, <2>1 DEF TurnTypes
  <2>4. Turnwise'
    BY <1>3, <2>1, <2>2 DEF Turnwise, Active
  <2>5. Causes'
    BY <1>1, <2>1, <2>2 DEF Causes, TurnTypes
  <2>6. Quiet'
    BY <1>1, <1>3, <2>2 DEF Quiet, Calling, Active, Replies
  <2>7. Calls'
    BY <1>1, <1>3, <2>2 DEF Calls, Calling, Active
  <2>8. Notices'
    BY <1>1, <2>1 DEF Notices, Over
  <2>9. ReportsOwnTurn'
    BY <1>1, <1>4, <1>5, <2>2, TurnAssumption DEF ReportsOwnTurn
  <2>10. NoTurnLeftBehind'
    BY <1>1, <1>4, <1>5, <2>2 DEF NoTurnLeftBehind, Causes, TurnTypes
  <2>11. NoticeIsKept'
    BY <1>1, <1>3, <2>2 DEF NoticeIsKept, Active
  <2> QED
    BY <2>3, <2>4, <2>5, <2>6, <2>7, <2>8, <2>9, <2>10, <2>11 DEF TurnInv
<1>6. CASE Head(completion) # turnOf[p] /\ completion' = Tail(completion)
           /\ UNCHANGED <<busy, heard, stage, result>>
  <2>7. Len(completion') <= Capacity
    BY <1>1, <1>2, <1>6, TurnAssumption DEF TurnTypes
  <2>1. TurnTypes'
    BY <1>1, <1>2, <1>6, <2>7 DEF TurnTypes
  <2>2. Turnwise' /\ Causes'
    BY <1>1, <1>6 DEF Turnwise, Active, Causes
  <2>3. Quiet' /\ Calls'
    BY <1>1, <1>6 DEF Quiet, Calls, Calling, Replies, ReplyTo
  <2>4. Notices'
    BY <1>1, <1>2, <1>6 DEF Notices, Over
  <2>5. ReportsOwnTurn' /\ NoTurnLeftBehind'
    BY <1>1, <1>6 DEF ReportsOwnTurn, NoTurnLeftBehind
  <2>6. NoticeIsKept'
    <3> SUFFICES ASSUME NEW q \in Prompts, NEW t \in Turns,
                        cause[t] = q, turn[t] = "ended", stage[q] \in {"starting", "wait"}
                 PROVE  \/ Unread(t) \/ \E i \in DOMAIN completion' : completion'[i] = t
                        \/ Cardinality(heard \ {t}) >= Capacity
      BY <1>1, <1>6 DEF NoticeIsKept, Unread
    <3>1. q = p /\ t = turnOf[p]
      BY <1>1, <1>3, TurnAssumption DEF Active, Causes
    <3>2. CASE Unread(t)
      BY <3>2
    <3>3. ASSUME NEW i \in DOMAIN completion, completion[i] = t
          PROVE  \E j \in DOMAIN completion' : completion'[j] = t
      BY <1>2, <1>6, <3>1, <3>3
    <3> QED
      BY <3>2, <3>3 DEF NoticeIsKept
  <2> QED
    BY <2>4, <2>5, <2>6, <2>1, <2>2, <2>3 DEF TurnInv
<1> QED
  BY <1>5, <1>6 DEF TakeCompletion


LEMMA ConnectionLostStep ==
    ASSUME TurnInv, NEW p \in Prompts, ConnectionLost(p)
    PROVE  TurnInv'
<1> USE TurnAssumption DEF TurnInv, ours, theirs, ConnectionLost, Return, Waiting
<1>1. TurnTypes'
  <2>1. Return(p, "uncertain") /\ UNCHANGED <<resumed, turnOf, slot, done, theirs>>
    BY DEF ConnectionLost
  <2> HIDE DEF ConnectionLost, Return
  <2> QED
    BY <2>1, Returned DEF TurnTypes
<1>2. Turnwise'
  BY DEF TurnTypes, Turnwise, Active
<1>3. Causes'
  BY DEF Causes
<1>4. Quiet'
  BY DEF Quiet, Calling, Replies, IsReply
<1>5. Calls'
  BY DEF Calls, Calling, ReplyTo, Replies, IsReply
<1>6. Notices'
  BY DEF Notices, Over
<1>7. ReportsOwnTurn'
  BY DEF ReportsOwnTurn
<1>8. NoTurnLeftBehind'
  BY DEF NoTurnLeftBehind
<1>9. NoticeIsKept'
  BY DEF TurnTypes, Turnwise, Active, NoticeIsKept, Unread
<1> QED
  BY <1>1, <1>2, <1>3, <1>4, <1>5, <1>6, <1>7, <1>8, <1>9 DEF TurnInv

LEMMA ExpireStep ==
    ASSUME TurnInv, NEW p \in Prompts, Expire(p)
    PROVE  TurnInv'
<1> USE TurnAssumption DEF TurnInv, ours, theirs, Expire, Return, Waiting
<1>1. TurnTypes'
  <2>1. Return(p, "uncertain") /\ done' = TRUE /\ UNCHANGED <<resumed, turnOf, slot, theirs>>
    BY DEF Expire
  <2> HIDE DEF Expire, Return
  <2> QED
    BY <2>1, Returned DEF TurnTypes
<1>2. Turnwise'
  BY DEF TurnTypes, Turnwise, Active
<1>3. Causes'
  BY DEF Causes
<1>4. Quiet'
  BY DEF Quiet, Calling, Replies, IsReply
<1>5. Calls'
  BY DEF Calls, Calling, ReplyTo, Replies, IsReply
<1>6. Notices'
  BY DEF Notices, Over
<1>7. ReportsOwnTurn'
  BY DEF ReportsOwnTurn
<1>8. NoTurnLeftBehind'
  BY DEF NoTurnLeftBehind
<1>9. NoticeIsKept'
  BY DEF TurnTypes, Turnwise, Active, NoticeIsKept, Unread
<1> QED
  BY <1>1, <1>2, <1>3, <1>4, <1>5, <1>6, <1>7, <1>8, <1>9 DEF TurnInv

LEMMA ReadStep ==
    ASSUME TurnInv, Read
    PROVE  TurnInv'
<1> USE DEF TurnInv
<1> DEFINE frame == Head(wire)
<1>1. /\ wire # <<>> /\ wire \in Seq(Frame) /\ wire' = Tail(wire)
      /\ UNCHANGED <<busy, resumed, stage, turnOf, result, done, asked, owed, alive, turn, cause,
                     denied>>
  BY DEF Read, TurnTypes
<1>2. /\ wire' \in Seq(Frame) /\ 1 \in DOMAIN wire /\ frame = wire[1] /\ frame \in Frame
      /\ \A i \in DOMAIN wire' : i + 1 \in DOMAIN wire /\ wire'[i] = wire[i + 1] /\ i + 1 # 1
      /\ \A i \in DOMAIN wire : i # 1 => i - 1 \in DOMAIN wire' /\ wire'[i - 1] = wire[i]
      /\ DOMAIN wire \subseteq Int /\ DOMAIN wire' \subseteq Int
  BY <1>1, Shortened
<1>3. frame.kind \in {"answer", "refusal", "garbled", "completed"}
      /\ (frame.kind = "completed" => frame.turn \in Turns)
  BY <1>2, FrameFields
<1> HIDE DEF frame
<1>4. CASE frame.kind = "completed"
  <2>1. /\ completion' = IF busy /\ HasRoom THEN Append(completion, frame.turn) ELSE completion
        /\ heard' = IF busy THEN heard \cup {frame.turn} ELSE heard
        /\ slot' = slot
    BY <1>4 DEF Read, frame
  <2>11. heard \subseteq heard' /\ heard' \in SUBSET Turns /\ (~busy => heard' = {})
         /\ (busy => frame.turn \in heard')
    BY <1>3, <1>4, <2>1 DEF TurnTypes
  <2>2. /\ completion' \in Seq(Turns) /\ Len(completion') <= Capacity
        /\ ~busy => completion' = <<>>
        /\ \A i \in DOMAIN completion : i \in DOMAIN completion' /\ completion'[i] = completion[i]
        /\ \A i \in DOMAIN completion' :
              \/ i \in DOMAIN completion /\ completion'[i] = completion[i]
              \/ i = Len(completion) + 1 /\ completion'[i] = frame.turn
        /\ busy /\ HasRoom => \E i \in DOMAIN completion' : completion'[i] = frame.turn
    <3>1. completion \in Seq(Turns) /\ Capacity \in Nat
      BY TurnAssumption DEF TurnTypes
    <3>2. CASE busy /\ HasRoom
      <4>1. completion' = Append(completion, frame.turn)
        BY <2>1, <3>2
      <4>2. Len(completion) + 1 \in DOMAIN completion'
            /\ completion'[Len(completion) + 1] = frame.turn
        BY <1>3, <1>4, <3>1, <4>1
      <4>3. completion' \in Seq(Turns) /\ Len(completion') <= Capacity
        BY <1>3, <1>4, <3>1, <3>2, <4>1 DEF HasRoom
      <4> QED
        BY <1>3, <1>4, <3>1, <3>2, <4>1, <4>2, <4>3
    <3>3. CASE ~(busy /\ HasRoom)
      BY <2>1, <3>1, <3>3 DEF TurnTypes
    <3> QED
      BY <3>2, <3>3
  <2>3. TurnTypes'
    BY <1>1, <1>2, <2>1, <2>2, <2>11 DEF TurnTypes
  <2>4. Turnwise' /\ Causes'
    BY <1>1 DEF Turnwise, Active, Causes
  <2>5. Replies = {} => Replies' = {}
    BY <1>2 DEF Replies
  <2>6. Quiet'
    BY <1>1, <2>5 DEF Quiet, Calling
  <2>7. Calls'
    <3> SUFFICES ASSUME NEW p \in Prompts, Calling(p)
                 PROVE  /\ asked # NoneAsked =>
                              asked.by = p /\ asked.call = IF stage[p] = "resuming" THEN "resume" ELSE "start"
                        /\ \A t \in owed : cause[t] = p
                        /\ \A i \in Replies' : ReplyTo(p, wire'[i])
                        /\ IsReply(slot) => ReplyTo(p, slot) /\ Replies' = {}
                        /\ \A i, j \in Replies' : i = j
      BY <1>1, <2>1 DEF Calls, Calling, ReplyTo
    <3>1. \A i \in Replies' : i + 1 \in Replies /\ wire'[i] = wire[i + 1] /\ i \in Int
      BY <1>2 DEF Replies
    <3>2. \A i, j \in Replies' : i = j
      BY <3>1 DEF Calls
    <3> QED
      BY <2>5, <3>1, <3>2 DEF Calls
  <2>8. Notices'
    <3>1. \A i \in DOMAIN wire' : Over(i)' => Over(i + 1) /\ wire'[i].turn = wire[i + 1].turn
      BY <1>2 DEF Over
    <3>2. Over(1) /\ wire[1].turn = frame.turn
      BY <1>2, <1>4 DEF Over
    <3>8. turn[frame.turn] = "ended"
      BY <1>2, <3>2 DEF Notices
    <3>9. \A i \in DOMAIN completion' : i \in DOMAIN completion \/ busy
      BY <2>1
    <3>3. \A i \in DOMAIN completion' : turn[completion'[i]] = "ended" /\ completion'[i] \in heard'
      BY <2>2, <2>11, <3>8, <3>9 DEF Notices
    <3>4. \A i \in DOMAIN wire' : Over(i)' => turn[wire'[i].turn] = "ended"
      BY <1>2, <3>1 DEF Notices
    <3>5. \A i, j \in DOMAIN wire' : Over(i)' /\ Over(j)' /\ wire'[i].turn = wire'[j].turn => i = j
      <4>1. ASSUME NEW i \in DOMAIN wire', NEW j \in DOMAIN wire', Over(i)', Over(j)',
                   wire'[i].turn = wire'[j].turn
            PROVE  i = j
        <5>1. i + 1 = j + 1
          BY <1>2, <3>1, <4>1 DEF Notices
        <5> QED
          BY <1>2, <5>1
      <4> QED
        BY <4>1 DEF Over
    <3>6. \A i, j \in DOMAIN completion' : completion'[i] = completion'[j] => i = j
      BY <1>2, <2>2, <3>2 DEF Notices
    <3>7. \A i \in DOMAIN wire', j \in DOMAIN completion' : Over(i)' => wire'[i].turn # completion'[j]
      <4>1. ASSUME NEW i \in DOMAIN wire', NEW j \in DOMAIN completion', Over(i)'
            PROVE  wire'[i].turn # completion'[j]
        <5>1. i + 1 \in DOMAIN wire /\ i + 1 # 1 /\ Over(i + 1) /\ wire'[i].turn = wire[i + 1].turn
          BY <1>2, <3>1, <4>1
        <5>2. wire[i + 1].turn # frame.turn
          BY <1>2, <3>2, <5>1 DEF Notices
        <5> QED
          BY <2>2, <5>1, <5>2 DEF Notices
      <4> QED
        BY <4>1
    <3> QED
      BY <1>1, <3>3, <3>4, <3>5, <3>6, <3>7 DEF Notices, Over
  <2>9. ReportsOwnTurn' /\ NoTurnLeftBehind'
    BY <1>1 DEF ReportsOwnTurn, NoTurnLeftBehind
  <2>10. NoticeIsKept'
    <3> SUFFICES ASSUME NEW p \in Prompts, NEW t \in Turns,
                        cause[t] = p, turn[t] = "ended", stage[p] \in {"starting", "wait"}
                 PROVE  \/ Unread(t)' \/ \E i \in DOMAIN completion' : completion'[i] = t
                        \/ Cardinality(heard' \ {t}) >= Capacity
      BY <1>1 DEF NoticeIsKept
    <3>1. busy
      BY DEF Turnwise, Active
    <3>2. CASE \E i \in DOMAIN completion : completion[i] = t
      BY <2>2, <3>2
    <3>3. ASSUME NEW i \in DOMAIN wire, wire[i].kind = "completed", wire[i].turn = t, i # 1
          PROVE  Unread(t)'
      BY <1>2, <3>3 DEF Unread
    <3>4. CASE frame.turn = t /\ \A i \in DOMAIN completion : completion[i] # t
      <4>1. completion \in Seq(Turns)
        BY DEF TurnTypes
      <4>2. /\ \A i, j \in DOMAIN completion : completion[i] = completion[j] => i = j
            /\ \A i \in DOMAIN completion : completion[i] # t /\ completion[i] \in heard'
        BY <2>11, <3>4 DEF Notices
      <4>3. CASE HasRoom
        BY <2>2, <3>1, <3>4, <4>3
      <4>4. CASE ~HasRoom
        <5>1. Len(completion) >= Capacity
          BY <4>1, <4>4, TurnAssumption DEF HasRoom
        <5>2. Cardinality(heard' \ {t}) >= Capacity
          BY <2>11, <4>1, <4>2, <5>1, FullOfOthers
        <5> QED
          BY <5>2
      <4> QED
        BY <4>3, <4>4
    <3>5. CASE Cardinality(heard \ {t}) >= Capacity
      <4>1. heard \ {t} \subseteq heard' \ {t} /\ IsFiniteSet(heard' \ {t})
        BY <2>11, TurnAssumption, FS_Subset
      <4>2. /\ Cardinality(heard \ {t}) <= Cardinality(heard' \ {t})
            /\ Cardinality(heard \ {t}) \in Nat /\ Cardinality(heard' \ {t}) \in Nat
        BY <4>1, FS_Subset, FS_CardinalityType
      <4> QED
        BY <3>5, <4>2, TurnAssumption
    <3> QED
      BY <1>2, <3>2, <3>3, <3>4, <3>5 DEF NoticeIsKept, Unread
  <2> QED
    BY <2>3, <2>4, <2>6, <2>7, <2>8, <2>9, <2>10 DEF TurnInv
<1>5. CASE frame.kind # "completed"
  <2>1. /\ completion' = completion /\ heard' = heard
        /\ slot' = IF \E p \in Prompts : stage[p] \in {"resuming", "starting"} THEN frame ELSE slot
    BY <1>5 DEF Read, frame
  <2>2. IsReply(frame) /\ 1 \in Replies
    BY <1>2, <1>3, <1>5 DEF IsReply, Fails, Replies
  <2>3. slot' \in Frame \cup {Empty}
    BY <1>2, <2>1 DEF TurnTypes
  <2>4. TurnTypes'
    BY <1>1, <1>2, <2>1, <2>3 DEF TurnTypes
  <2>5. Turnwise' /\ Causes'
    BY <1>1 DEF Turnwise, Active, Causes
  <2>6. Quiet'
    BY <1>1, <2>2 DEF Quiet, Calling
  <2>7. Calls'
    <3> SUFFICES ASSUME NEW p \in Prompts, Calling(p)
                 PROVE  /\ asked # NoneAsked =>
                              asked.by = p /\ asked.call = IF stage[p] = "resuming" THEN "resume" ELSE "start"
                        /\ \A t \in owed : cause[t] = p
                        /\ ReplyTo(p, slot') /\ Replies' = {}
      BY <1>1 DEF Calls, Calling, ReplyTo
    <3>1. slot' = frame
      BY <2>1 DEF Calling
    <3>2. Replies' = {}
      <4>1. \A i \in Replies' : i + 1 \in Replies /\ i + 1 # 1
        BY <1>2 DEF Replies
      <4> QED
        BY <2>2, <4>1 DEF Calls
    <3> QED
      BY <1>2, <2>2, <3>1, <3>2 DEF Calls
  <2>8. Notices'
    <3>1. \A i \in DOMAIN wire' : Over(i)' => Over(i + 1) /\ wire'[i].turn = wire[i + 1].turn
      BY <1>2 DEF Over
    <3>2. \A i, j \in DOMAIN wire' : Over(i)' /\ Over(j)' /\ wire'[i].turn = wire'[j].turn => i = j
      <4>1. ASSUME NEW i \in DOMAIN wire', NEW j \in DOMAIN wire', Over(i)', Over(j)',
                   wire'[i].turn = wire'[j].turn
            PROVE  i = j
        <5>1. i + 1 = j + 1
          BY <1>2, <3>1, <4>1 DEF Notices
        <5> QED
          BY <1>2, <5>1
      <4> QED
        BY <4>1 DEF Over
    <3>3. \A i \in DOMAIN wire' : Over(i)' => turn[wire'[i].turn] = "ended"
      BY <1>2, <3>1 DEF Notices
    <3>4. \A i \in DOMAIN wire', j \in DOMAIN completion : Over(i)' => wire'[i].turn # completion[j]
      BY <1>2, <3>1 DEF Notices
    <3> QED
      BY <1>1, <2>1, <3>2, <3>3, <3>4 DEF Notices, Over
  <2>9. ReportsOwnTurn' /\ NoTurnLeftBehind'
    BY <1>1 DEF ReportsOwnTurn, NoTurnLeftBehind
  <2>10. NoticeIsKept'
    <3>1. \A t \in Turns : Unread(t) => Unread(t)'
      BY <1>2, <1>5 DEF Unread
    <3> QED
      BY <1>1, <2>1, <3>1 DEF NoticeIsKept
  <2> QED
    BY <2>4, <2>5, <2>6, <2>7, <2>8, <2>9, <2>10 DEF TurnInv
<1> QED
  BY <1>4, <1>5


LEMMA EndOfOutputStep ==
    ASSUME TurnInv, EndOfOutput
    PROVE  TurnInv'
<1> USE TurnAssumption DEF TurnInv, ours, theirs, EndOfOutput
<1>1. TurnTypes'
  BY DEF TurnTypes
<1>2. Turnwise'
  BY DEF Turnwise, Active
<1>3. Causes'
  BY DEF Causes
<1>4. Quiet'
  BY DEF Quiet, Calling, Replies, IsReply
<1>5. Calls'
  BY DEF Calls, Calling, ReplyTo, Replies, IsReply
<1>6. Notices'
  BY DEF Notices, Over
<1>7. ReportsOwnTurn'
  BY DEF ReportsOwnTurn
<1>8. NoTurnLeftBehind'
  BY DEF NoTurnLeftBehind
<1>9. NoticeIsKept'
  BY DEF NoticeIsKept, Unread
<1> QED
  BY <1>1, <1>2, <1>3, <1>4, <1>5, <1>6, <1>7, <1>8, <1>9 DEF TurnInv

LEMMA CloseStep ==
    ASSUME TurnInv, Close
    PROVE  TurnInv'
<1> USE TurnAssumption DEF TurnInv, ours, theirs, Close
<1>1. TurnTypes'
  BY DEF TurnTypes
<1>2. Turnwise'
  BY DEF Turnwise, Active
<1>3. Causes'
  BY DEF Causes
<1>4. Quiet'
  BY DEF Quiet, Calling, Replies, IsReply
<1>5. Calls'
  BY DEF Calls, Calling, ReplyTo, Replies, IsReply
<1>6. Notices'
  BY DEF Notices, Over
<1>7. ReportsOwnTurn'
  BY DEF ReportsOwnTurn
<1>8. NoTurnLeftBehind'
  BY DEF NoTurnLeftBehind
<1>9. NoticeIsKept'
  BY DEF NoticeIsKept, Unread
<1> QED
  BY <1>1, <1>2, <1>3, <1>4, <1>5, <1>6, <1>7, <1>8, <1>9 DEF TurnInv

LEMMA AgentResumesStep ==
    ASSUME TurnInv, AgentResumes
    PROVE  TurnInv'
<1> USE DEF TurnInv
<1>1. PICK f \in {[kind |-> "answer", turn |-> NoTurn], [kind |-> "refusal"], [kind |-> "garbled"]} :
         wire' = Append(wire, f)
  BY DEF AgentResumes
<1>2. /\ asked.call = "resume" /\ asked' = NoneAsked
      /\ UNCHANGED <<busy, resumed, completion, heard, stage, turnOf, result, slot, done, owed,
                     alive, turn, cause, denied>>
  BY DEF AgentResumes, ours
<1>3. /\ f \in Frame /\ IsReply(f) /\ asked # NoneAsked
      /\ f.kind = "answer" => f.turn = NoTurn
  BY <1>1, <1>2 DEF Frame, IsReply, Fails, NoneAsked
<1>4. wire' \in Seq(Frame)
  BY <1>1, <1>3, Grown
<1>5. TurnTypes'
  BY <1>2, <1>4 DEF TurnTypes
<1>6. Turnwise'
  BY <1>2 DEF Turnwise, Active
<1>7. Causes'
  <2>1. asked'.call # "start"
    BY <1>2 DEF NoneAsked
  <2> QED
    BY <1>2, <2>1 DEF Causes
<1>8. ASSUME NEW p \in Prompts, Calling(p)
      PROVE  owed = {} /\ (Fails(f) => \A t \in Turns : cause[t] # p)
  <2>1. stage[p] = "resuming" /\ asked.by = p
    BY <1>2, <1>3, <1>8 DEF Calls, Calling
  <2>2. \A t \in Turns : cause[t] # p
    BY <1>2, <2>1, TurnAssumption DEF Causes
  <2>3. \A t \in owed : t \in Turns /\ cause[t] = p
    BY <1>8 DEF Calls, TurnTypes
  <2> QED
    BY <2>2, <2>3
<1>9. Quiet' /\ Calls'
  BY <1>1, <1>2, <1>3, <1>8, ReplySent
<1>10. Notices' /\ NoticeIsKept'
  BY <1>1, <1>2, <1>3, NoticesStay
<1>11. ReportsOwnTurn' /\ NoTurnLeftBehind'
  BY <1>2 DEF ReportsOwnTurn, NoTurnLeftBehind
<1> QED
  BY <1>5, <1>6, <1>7, <1>9, <1>10, <1>11 DEF TurnInv


LEMMA AgentStartsStep ==
    ASSUME TurnInv, NEW t \in Turns, AgentStarts(t)
    PROVE  TurnInv'
<1> USE DEF TurnInv
<1> DEFINE p == asked.by
<1>1. /\ asked.call = "start" /\ turn[t] = "unused" /\ asked' = NoneAsked
      /\ turn' = [turn EXCEPT ![t] = "running"] /\ cause' = [cause EXCEPT ![t] = p]
      /\ owed' = owed \cup {t}
      /\ UNCHANGED <<busy, resumed, completion, heard, stage, turnOf, result, slot, done, wire,
                     alive, denied>>
  BY DEF AgentStarts, ours
<1>2. asked # NoneAsked /\ p \in Prompts /\ asked'.call # "start"
  BY <1>1 DEF TurnTypes, NoneAsked
<1>3. /\ stage[p] \in {"starting", "returned"} /\ cause[t] = NoPrompt
      /\ \A u \in Turns : cause[u] # p
  BY <1>1 DEF Causes
<1> HIDE DEF p
<1>4. /\ cause'[t] = p /\ turn'[t] = "running"
      /\ \A u \in Turns : u # t => cause'[u] = cause[u] /\ turn'[u] = turn[u]
      /\ cause' \in [Turns -> Prompts \cup {NoPrompt}]
      /\ turn' \in [Turns -> {"unused", "running", "ended", "unheard", "killed"}]
  BY <1>1, <1>2 DEF TurnTypes
<1>5. TurnTypes'
  BY <1>1, <1>4 DEF TurnTypes
<1>6. Turnwise'
  BY <1>1 DEF Turnwise, Active
<1>7. Causes'
  <2>1. \A u \in Turns : cause'[u] # NoPrompt =>
           turn'[u] # "unused" /\ stage[cause'[u]] \in {"starting", "wait", "returned"}
    BY <1>3, <1>4 DEF Causes
  <2>2. \A u, v \in Turns : cause'[u] # NoPrompt /\ cause'[u] = cause'[v] => u = v
    BY <1>3, <1>4 DEF Causes
  <2>3. \A q \in Prompts : stage[q] = "wait" => turnOf[q] \in Turns /\ cause'[turnOf[q]] = q
    BY <1>3, <1>4, TurnAssumption DEF Causes
  <2> QED
    BY <1>1, <1>2, <2>1, <2>2, <2>3 DEF Causes
<1>8. ASSUME NEW q \in Prompts, Calling(q)
      PROVE  q = p /\ stage[p] = "starting" /\ owed = {} /\ Replies = {} /\ ~IsReply(slot)
  <2>1. q = p
    BY <1>2, <1>8 DEF Calls, p
  <2>2. \A u \in owed : u \in Turns /\ cause[u] = p
    BY <1>8, <2>1 DEF Calls, TurnTypes
  <2>3. Replies = {} /\ ~IsReply(slot)
    BY <1>2, <1>8 DEF Calls, ReplyTo
  <2> QED
    BY <1>3, <1>8, <2>1, <2>2, <2>3 DEF Calling
<1>9. done \/ \E q \in Prompts : Calling(q)
  BY <1>2 DEF Quiet
<1>10. Quiet'
  BY <1>1, <1>9 DEF Quiet, Calling
<1>11. Calls'
  BY <1>1, <1>4, <1>8 DEF Calls, Calling, Replies
<1>12. Notices'
  <2>1. \A u \in Turns : turn[u] = "ended" => turn'[u] = "ended"
    BY <1>1, <1>4
  <2>2. \A i \in DOMAIN wire : Over(i) => wire[i].turn \in Turns
    BY FrameFields DEF TurnTypes, Over
  <2>3. \A i \in DOMAIN completion : completion[i] \in Turns
    BY DEF TurnTypes
  <2> QED
    BY <1>1, <2>1, <2>2, <2>3 DEF Notices, Over
<1>13. ReportsOwnTurn'
  BY <1>1, <1>4, TurnAssumption DEF ReportsOwnTurn, TurnTypes
<1>14. NoTurnLeftBehind'
  <2>1. stage[p] # "returned" \/ done
    BY <1>8, <1>9
  <2> QED
    BY <1>1, <1>4, <2>1 DEF NoTurnLeftBehind
<1>15. NoticeIsKept'
  BY <1>1, <1>4 DEF NoticeIsKept, Unread
<1> QED
  BY <1>5, <1>6, <1>7, <1>10, <1>11, <1>12, <1>13, <1>14, <1>15 DEF TurnInv


LEMMA AgentRefusesStep ==
    ASSUME TurnInv, AgentRefuses
    PROVE  TurnInv'
<1> USE DEF TurnInv
<1>1. PICK f \in {[kind |-> "refusal"]} :
         wire' = Append(wire, f)
  BY DEF AgentRefuses
<1>2. /\ asked.call = "start" /\ asked' = NoneAsked
      /\ UNCHANGED <<busy, resumed, completion, heard, stage, turnOf, result, slot, done, owed,
                     alive, turn, cause, denied>>
  BY DEF AgentRefuses, ours
<1>3. /\ f \in Frame /\ IsReply(f) /\ asked # NoneAsked
      /\ f.kind = "answer" => f.turn = NoTurn
  BY <1>1, <1>2 DEF Frame, IsReply, Fails, NoneAsked
<1>4. wire' \in Seq(Frame)
  BY <1>1, <1>3, Grown
<1>5. TurnTypes'
  BY <1>2, <1>4 DEF TurnTypes
<1>6. Turnwise'
  BY <1>2 DEF Turnwise, Active
<1>7. Causes'
  <2>1. asked'.call # "start"
    BY <1>2 DEF NoneAsked
  <2> QED
    BY <1>2, <2>1 DEF Causes
<1>8. ASSUME NEW p \in Prompts, Calling(p)
      PROVE  owed = {} /\ (Fails(f) => \A t \in Turns : cause[t] # p)
  <2>1. stage[p] = "starting" /\ asked.by = p
    BY <1>2, <1>3, <1>8 DEF Calls, Calling
  <2>2. \A t \in Turns : cause[t] # p
    BY <1>2, <2>1, TurnAssumption DEF Causes
  <2>3. \A t \in owed : t \in Turns /\ cause[t] = p
    BY <1>8 DEF Calls, TurnTypes
  <2> QED
    BY <2>2, <2>3
<1>9. Quiet' /\ Calls'
  BY <1>1, <1>2, <1>3, <1>8, ReplySent
<1>10. Notices' /\ NoticeIsKept'
  BY <1>1, <1>2, <1>3, NoticesStay
<1>11. ReportsOwnTurn' /\ NoTurnLeftBehind'
  BY <1>2 DEF ReportsOwnTurn, NoTurnLeftBehind
<1> QED
  BY <1>5, <1>6, <1>7, <1>9, <1>10, <1>11 DEF TurnInv


LEMMA AgentAnswersStep ==
    ASSUME TurnInv, NEW t \in Turns, AgentAnswers(t)
    PROVE  TurnInv'
<1> USE DEF TurnInv
<1>1. PICK f \in {[kind |-> "answer", turn |-> t], [kind |-> "answer", turn |-> NoTurn],
                 [kind |-> "refusal"], [kind |-> "garbled"]} :
         wire' = Append(wire, f) /\ (Fails(f) => t \in denied')
  BY DEF AgentAnswers, Fails
<1>2. /\ t \in owed /\ owed' = owed \ {t} /\ denied \subseteq denied' /\ denied' \in SUBSET Turns
      /\ UNCHANGED <<busy, resumed, completion, heard, stage, turnOf, result, slot, done, asked,
                     alive, turn, cause>>
  BY DEF AgentAnswers, ours, TurnTypes
<1>3. f \in Frame /\ IsReply(f) /\ (f.kind = "answer" => f.turn \in {t, NoTurn})
  BY <1>1 DEF Frame, IsReply, Fails
<1>4. wire' \in Seq(Frame)
  BY <1>1, <1>3, Grown
<1>5. TurnTypes'
  BY <1>2, <1>4 DEF TurnTypes
<1>6. Turnwise'
  BY <1>2 DEF Turnwise, Active
<1>7. Causes'
  BY <1>2 DEF Causes
<1>8. PICK last \in DOMAIN wire' :
         /\ last \notin DOMAIN wire /\ wire'[last] = f
         /\ \A i \in DOMAIN wire' : i = last \/ (i \in DOMAIN wire /\ wire'[i] = wire[i])
  BY <1>1, <1>3, Grown
<1>9. Quiet'
  BY <1>2 DEF Quiet, Calling
<1>10. ASSUME NEW p \in Prompts, Calling(p)
       PROVE  /\ cause[t] = p /\ owed' = {} /\ asked = NoneAsked
              /\ Replies = {} /\ ~IsReply(slot)
              /\ ReplyTo(p, f)'
  <2>1. cause[t] = p
    BY <1>2, <1>10 DEF Calls
  <2>2. \A u \in owed : u = t
    BY <1>2, <1>10, <2>1, TurnAssumption DEF Calls, Causes, TurnTypes
  <2>3. Replies = {} /\ ~IsReply(slot)
    BY <1>2, <1>10 DEF Calls, ReplyTo
  <2>4. asked = NoneAsked
    <3>1. asked # NoneAsked => asked.by = p /\ asked.call \in {"start", "resume"}
      BY <1>10 DEF Calls
    <3>2. asked # NoneAsked => asked.call # "start"
      BY <2>1, <3>1 DEF Causes
    <3>3. stage[p] # "resuming"
      BY <2>1, TurnAssumption DEF Causes
    <3> QED
      BY <1>10, <3>2, <3>3 DEF Calls
  <2>5. owed' = {}
    BY <1>2, <2>2
  <2>6. \A u \in Turns : cause[u] = p => u = t
    BY <2>1, TurnAssumption DEF Causes
  <2> QED
    BY <1>1, <1>2, <1>3, <2>1, <2>3, <2>4, <2>5, <2>6 DEF ReplyTo
<1>11. ASSUME NEW p \in Prompts, Calling(p), NEW i \in Replies' PROVE i = last
  BY <1>8, <1>10, <1>11 DEF Replies
<1>12. Calls'
  BY <1>2, <1>8, <1>10, <1>11 DEF Calls, Calling
<1>13. Notices' /\ NoticeIsKept'
  BY <1>1, <1>2, <1>3, NoticesStay
<1>14. ReportsOwnTurn' /\ NoTurnLeftBehind'
  BY <1>2 DEF ReportsOwnTurn, NoTurnLeftBehind
<1> QED
  BY <1>5, <1>6, <1>7, <1>9, <1>12, <1>13, <1>14 DEF TurnInv

LEMMA AgentOwnTurnStep ==
    ASSUME TurnInv, NEW t \in Turns, AgentOwnTurn(t)
    PROVE  TurnInv'
<1> USE TurnAssumption DEF TurnInv, ours, theirs, AgentOwnTurn
<1>1. TurnTypes'
  BY DEF TurnTypes
<1>2. Turnwise'
  BY DEF Turnwise, Active
<1>3. Causes'
  BY DEF Causes
<1>4. Quiet'
  BY DEF Quiet, Calling, Replies, IsReply
<1>5. Calls'
  BY DEF Calls, Calling, ReplyTo, Replies, IsReply
<1>6. Notices'
  BY DEF Notices, Over
<1>7. ReportsOwnTurn'
  BY DEF ReportsOwnTurn
<1>8. NoTurnLeftBehind'
  BY DEF Causes, NoTurnLeftBehind
<1>9. NoticeIsKept'
  BY DEF NoticeIsKept, Unread
<1> QED
  BY <1>1, <1>2, <1>3, <1>4, <1>5, <1>6, <1>7, <1>8, <1>9 DEF TurnInv

LEMMA AgentEndsStep ==
    ASSUME TurnInv, NEW t \in Turns, AgentEnds(t)
    PROVE  TurnInv'
<1> USE DEF TurnInv
<1>1. /\ turn[t] = "running"
      /\ UNCHANGED <<busy, resumed, completion, heard, stage, turnOf, result, slot, done, asked,
                     owed, alive, cause, denied>>
  BY DEF AgentEnds, ours
<1>2. PICK over \in {"ended", "unheard"} :
         /\ turn' = [turn EXCEPT ![t] = over]
         /\ IF over = "ended" THEN wire' = Append(wire, [kind |-> "completed", turn |-> t])
                              ELSE wire' = wire
  BY DEF AgentEnds
<1>3. /\ turn'[t] = over /\ \A u \in Turns : u # t => turn'[u] = turn[u]
      /\ turn' \in [Turns -> {"unused", "running", "ended", "unheard", "killed"}]
  BY <1>2 DEF TurnTypes
<1>4. /\ wire' \in Seq(Frame)
      /\ \A i \in DOMAIN wire : i \in DOMAIN wire' /\ wire'[i] = wire[i]
      /\ \A i, j \in DOMAIN wire' : i \notin DOMAIN wire /\ j \notin DOMAIN wire => i = j
      /\ \A i \in DOMAIN wire' : i \notin DOMAIN wire =>
            over = "ended" /\ wire'[i] = [kind |-> "completed", turn |-> t]
      /\ over = "ended" => \E i \in DOMAIN wire' : wire'[i] = [kind |-> "completed", turn |-> t]
  <2>1. [kind |-> "completed", turn |-> t] \in Frame
    BY DEF Frame
  <2>2. CASE over = "ended"
    <3>1. PICK last \in DOMAIN wire' :
             /\ last \notin DOMAIN wire /\ wire'[last] = [kind |-> "completed", turn |-> t]
             /\ \A i \in DOMAIN wire' : i = last \/ (i \in DOMAIN wire /\ wire'[i] = wire[i])
      BY <1>2, <2>1, <2>2, Grown
    <3>2. /\ wire' \in Seq(Frame)
          /\ \A i \in DOMAIN wire : i \in DOMAIN wire' /\ wire'[i] = wire[i]
      BY <1>2, <2>1, <2>2, Grown
    <3> QED
      BY <2>2, <3>1, <3>2
  <2>3. CASE over = "unheard"
    BY <1>2, <2>3 DEF TurnTypes
  <2> QED
    BY <2>2, <2>3
<1>5. TurnTypes'
  BY <1>1, <1>3, <1>4 DEF TurnTypes
<1>6. Turnwise'
  BY <1>1 DEF Turnwise, Active
<1>7. Causes'
  BY <1>1, <1>3 DEF Causes
<1>8. \A i \in Replies' : i \in Replies /\ wire'[i] = wire[i]
  BY <1>4 DEF Replies, IsReply, Fails
<1>9. Quiet' /\ Calls'
  <2>1. Quiet'
    BY <1>1, <1>8 DEF Quiet, Calling
  <2>2. Calls'
    BY <1>1, <1>8 DEF Calls, Calling, ReplyTo
  <2> QED
    BY <2>1, <2>2
<1>10. Notices'
  <2>1. \A i \in DOMAIN wire : Over(i) => wire[i].turn \in Turns /\ turn[wire[i].turn] = "ended"
    BY FrameFields DEF Notices, TurnTypes, Over
  <2>2. \A i \in DOMAIN completion :
           completion[i] \in Turns /\ turn[completion[i]] = "ended" /\ completion[i] \in heard
    BY DEF Notices, TurnTypes
  <2>3. \A i \in DOMAIN wire' : Over(i)' =>
           \/ i \in DOMAIN wire /\ Over(i) /\ wire'[i] = wire[i] /\ wire[i].turn # t
           \/ i \notin DOMAIN wire /\ wire'[i].turn = t /\ over = "ended"
    BY <1>1, <1>4, <2>1 DEF Over
  <2>4. \A i \in DOMAIN completion : completion[i] # t
    BY <1>1, <2>2
  <2>5. \A i \in DOMAIN wire' : Over(i)' => turn'[wire'[i].turn] = "ended"
    BY <1>3, <2>1, <2>3
  <2>6. \A i, j \in DOMAIN wire' : Over(i)' /\ Over(j)' /\ wire'[i].turn = wire'[j].turn => i = j
    BY <1>4, <2>3 DEF Notices
  <2>7. \A i \in DOMAIN wire', j \in DOMAIN completion : Over(i)' => wire'[i].turn # completion[j]
    BY <2>3, <2>4 DEF Notices
  <2>8. \A i \in DOMAIN completion : turn'[completion[i]] = "ended"
    BY <1>3, <2>2, <2>4
  <2> QED
    BY <1>1, <2>2, <2>5, <2>6, <2>7, <2>8 DEF Notices, Over
<1>11. ReportsOwnTurn'
  BY <1>1, <1>3 DEF ReportsOwnTurn, TurnTypes
<1>12. NoTurnLeftBehind'
  BY <1>1, <1>3 DEF NoTurnLeftBehind
<1>13. NoticeIsKept'
  <2>1. over = "ended" => Unread(t)'
    BY <1>4 DEF Unread
  <2>2. \A u \in Turns : Unread(u) => Unread(u)'
    BY <1>4 DEF Unread
  <2> QED
    BY <1>1, <1>3, <2>1, <2>2 DEF NoticeIsKept
<1> QED
  BY <1>5, <1>6, <1>7, <1>9, <1>10, <1>11, <1>12, <1>13 DEF TurnInv

LEMMA AgentDiesStep ==
    ASSUME TurnInv, AgentDies
    PROVE  TurnInv'
<1> USE TurnAssumption DEF TurnInv, ours, theirs, AgentDies
<1>1. TurnTypes'
  BY DEF TurnTypes
<1>2. Turnwise'
  BY DEF Turnwise, Active
<1>3. Causes'
  <2>1. asked'.call # "start"
    BY DEF NoneAsked
  <2>2. \A u \in Turns : turn'[u] = "unused" => turn[u] = "unused"
    OBVIOUS
  <2>3. UNCHANGED <<cause, stage, turnOf>>
    OBVIOUS
  <2> HIDE DEF AgentDies
  <2> QED
    BY <2>1, <2>2, <2>3 DEF Causes
<1>4. Quiet'
  BY DEF Quiet, Calling, Replies, IsReply
<1>5. Calls'
  BY DEF Calls, Calling, ReplyTo, Replies, IsReply
<1>6. Notices'
  <2>1. \A u \in Turns : turn[u] = "ended" => turn'[u] = "ended"
    OBVIOUS
  <2>2. \A i \in DOMAIN wire : Over(i) => wire[i].turn \in Turns
    BY FrameFields DEF TurnTypes, Over
  <2>3. \A i \in DOMAIN completion : completion[i] \in Turns
    BY DEF TurnTypes
  <2>4. UNCHANGED <<wire, completion, heard>>
    OBVIOUS
  <2> HIDE DEF AgentDies
  <2> QED
    BY <2>3, <2>4, <2>1, <2>2 DEF Notices, Over
<1>7. ReportsOwnTurn'
  BY DEF TurnTypes, ReportsOwnTurn
<1>8. NoTurnLeftBehind'
  BY DEF NoTurnLeftBehind
<1>9. NoticeIsKept'
  BY DEF NoticeIsKept, Unread
<1> QED
  BY <1>1, <1>2, <1>3, <1>4, <1>5, <1>6, <1>7, <1>8, <1>9 DEF TurnInv

----------------------------------------
(* The invariant and the theorems. *)

LEMMA TurnInitInv == TurnInit => TurnInv
<1> SUFFICES ASSUME TurnInit PROVE TurnInv
  OBVIOUS
<1> USE TurnAssumption DEF TurnInit
<1>1. completion = <<>> /\ DOMAIN completion = {} /\ wire = <<>> /\ DOMAIN wire = {}
      /\ completion \in Seq(Turns) /\ Len(completion) = 0 /\ wire \in Seq(Frame)
  OBVIOUS
<1>2. TurnTypes
  <2>1. Len(completion) <= Capacity
    BY <1>1
  <2>2. /\ stage \in [Prompts -> {"new", "resume", "resuming", "start", "starting", "wait",
                                 "returned"}]
        /\ turnOf \in [Prompts -> Turns \cup {NoTurn}]
        /\ result \in [Prompts -> {"none", "ended", "failed", "uncertain"}]
        /\ turn \in [Turns -> {"unused", "running", "ended", "unheard", "killed"}]
        /\ cause \in [Turns -> Prompts \cup {NoPrompt}]
    OBVIOUS
  <2>3. {busy, resumed, done, alive} \subseteq BOOLEAN
        /\ slot \in Frame \cup {Empty} /\ owed \in SUBSET Turns
        /\ asked \in [call : {"resume", "start"}, by : Prompts] \cup {NoneAsked}
    OBVIOUS
  <2> QED
    BY <1>1, <2>1, <2>2, <2>3 DEF TurnTypes
<1>3. Turnwise /\ Causes
  BY DEF Turnwise, Active, Causes, NoneAsked
<1>4. Quiet /\ Calls
  BY <1>1 DEF Quiet, Calls, Calling, Replies
<1>5. Notices
  BY <1>1 DEF Notices
<1>6. ReportsOwnTurn /\ NoTurnLeftBehind /\ NoticeIsKept
  BY DEF ReportsOwnTurn, NoTurnLeftBehind, NoticeIsKept
<1> QED
  BY <1>2, <1>3, <1>4, <1>5, <1>6 DEF TurnInv

LEMMA TurnNextInv == TurnInv /\ [TurnNext]_turnVars => TurnInv'
<1> SUFFICES ASSUME TurnInv, [TurnNext]_turnVars PROVE TurnInv'
  OBVIOUS
<1>1. ASSUME NEW p \in Prompts,
             Begin(p) \/ RefuseBusy(p) \/ Write(p) \/ Advance(p) \/ Expire(p)
      PROVE  TurnInv'
  BY <1>1, BeginStep, RefuseBusyStep, WriteStep, WriteFailsStep, TakeResumedStep,
     TakeStartedStep, TakeCompletionStep, ConnectionLostStep, ExpireStep, Zenon DEF Advance
<1>2. ASSUME NEW t \in Turns,
             AgentStarts(t) \/ AgentAnswers(t) \/ AgentOwnTurn(t) \/ AgentEnds(t)
      PROVE  TurnInv'
  BY <1>2, AgentStartsStep, AgentAnswersStep, AgentOwnTurnStep, AgentEndsStep, Zenon
<1>3. CASE Read \/ EndOfOutput \/ Close \/ AgentResumes \/ AgentRefuses \/ AgentDies
  BY <1>3, ReadStep, EndOfOutputStep, CloseStep, AgentResumesStep, AgentRefusesStep,
     AgentDiesStep, Zenon
<1>4. CASE UNCHANGED turnVars
  <2> USE <1>4 DEF TurnInv, turnVars, ours, theirs
  <2>1. TurnTypes' /\ Turnwise' /\ Causes'
    BY DEF TurnTypes, Turnwise, Active, Causes
  <2>2. Quiet' /\ Calls'
    BY DEF Quiet, Calls, Calling, Replies, ReplyTo
  <2>3. Notices'
    BY DEF Notices, Over
  <2>4. ReportsOwnTurn' /\ NoTurnLeftBehind' /\ NoticeIsKept'
    BY DEF ReportsOwnTurn, NoTurnLeftBehind, NoticeIsKept, Unread
  <2> QED
    BY <2>3, <2>4, <2>1, <2>2 DEF TurnInv
<1> QED
  BY <1>1, <1>2, <1>3, <1>4 DEF TurnNext

\* A prompt that reports its turn over reports the turn it started itself.  A turn
\* outlives its prompt only on a connection that is closed or when the agent answered
\* its start with an error or with what cannot be decoded; whatever else it does.
THEOREM PromptsFollowTheirTurns == TurnSpec => []TurnsAreFollowed
<1>1. TurnInv => TurnsAreFollowed
  BY DEF TurnInv, TurnsAreFollowed
<1> QED
  BY <1>1, TurnInitInv, TurnNextInv, PTL DEF TurnSpec

\* The notice a prompt waits for is lost only when as many notices of other turns as
\* the channel holds came during the same prompt; for a channel of any capacity.
THEOREM NoticesAreKept == TurnSpec => []NoticeIsKept
<1>1. TurnInv => NoticeIsKept
  BY DEF TurnInv
<1> QED
  BY <1>1, TurnInitInv, TurnNextInv, PTL DEF TurnSpec

----------------------------------------
(* Tasks of a coordinating owner.  The inductive invariant: what a task sent    *)
(* must be accounted for by its entry in memory and by the one in the file,     *)
(* whichever a restart is left with.                                            *)

Turn(v, i) == v \in Conversations /\ Exists(v) /\ i \in DOMAIN worker[v].commands
Cmd(v, i) == worker[v].commands[i]

\* A command is recorded once, and a running one holds its session.
Ledger ==
    /\ \A v, u \in Conversations, i, j \in Nat :
          Turn(v, i) /\ Turn(u, j) /\ Cmd(v, i).id = Cmd(u, j).id => v = u /\ i = j
    /\ \A v \in Conversations, i \in Nat : Turn(v, i) =>
          (Cmd(v, i).status = "running" => holder[Cmd(v, i).session] = Cmd(v, i).id)

Done(v, c) ==
    \E i \in Nat : Turn(v, i) /\ Cmd(v, i).id = c /\ Cmd(v, i).status = "complete"

\* The entry e accounts for everything task t sent.
Accounts(t, e) ==
    \A v \in Conversations, i \in Nat : Turn(v, i) /\ Cmd(v, i).by = t =>
        /\ e.conversation = v
        /\ e.target = Cmd(v, i).session
        /\ Contains(e.commands, Cmd(v, i).id)

SentNothing(t) ==
    \A v \in Conversations, i \in Nat : Turn(v, i) => Cmd(v, i).by # t

Entry(t, e) ==
    /\ Accounts(t, e)
    /\ Len(e.commands) # 0
    /\ e.conversation # Nothing => Exists(e.conversation)
    /\ \A i \in 1..(Len(e.commands) - 1) : Done(e.conversation, e.commands[i])

Kept(f) == \A t \in Tasks : IF f[t] = NoTask THEN SentNothing(t) ELSE Entry(t, f[t])

\* The file is never ahead of memory, and no worker has two tasks.
Agree ==
    /\ \A t \in Tasks : saved[t] # NoTask =>
          /\ tasks[t] # NoTask
          /\ saved[t].conversation \in {Nothing, tasks[t].conversation}
    /\ \A t, u \in Tasks : tasks[t] # NoTask /\ tasks[u] # NoTask
          /\ tasks[t].conversation # Nothing /\ tasks[t].conversation = tasks[u].conversation
          => t = u

\* Before the worker is known, while it is reserved, and once it may have been prompted.
Opening(t, e) ==
    /\ e.conversation = Nothing /\ SentNothing(t)
    /\ saved[t] # NoTask /\ tasks[t] # NoTask
    /\ saved[t].conversation = Nothing /\ tasks[t].conversation = Nothing
    /\ call.stage = "create" => created[t] = 0

Reserving(t, e) ==
    /\ e.conversation \in Conversations /\ Exists(e.conversation) /\ SentNothing(t)
    /\ saved[t] = NoTask \/ saved[t].conversation = Nothing
    /\ \A u \in Tasks \ {t} : tasks[u] # NoTask => tasks[u].conversation # e.conversation

SameRecord(e, d) ==
    e.conversation = d.conversation /\ e.target = d.target /\ e.commands = d.commands

Dispatching(t, e) ==
    /\ e.conversation \in Conversations
    /\ saved[t] # NoTask /\ tasks[t] # NoTask
    /\ SameRecord(e, saved[t]) /\ SameRecord(e, tasks[t])

InProgress ==
    /\ call.stage \in {"create", "target", "conversation"} => Opening(call.task, call.entry)
    /\ call.stage = "reserve" => Reserving(call.task, call.entry)
    /\ call.stage \in {"create", "target", "conversation", "reserve"} =>
          Len(call.entry.commands) = 1
    /\ call.stage \in {"chat", "record"} => Dispatching(call.task, call.entry)

Creations == \A t \in Tasks : created[t] # 0 => created[t] = 1 /\ saved[t] # NoTask

\* What a stop reached had the identity of the task's last prompt.
StopsNamed == \A x \in stopped : x.turn = x.last

IInv ==
    /\ TypeOK
    /\ Ledger
    /\ Kept(tasks) /\ Kept(saved)
    /\ Agree
    /\ InProgress
    /\ Creations
    /\ StopsNamed

----------------------------------------
(* Turns, and what keeps them.                                                   *)

LEMMA TurnType ==
    ASSUME TypeOK, NEW v, NEW i, Turn(v, i)
    PROVE  /\ worker[v] \in Conversation /\ worker[v].commands \in Seq(Command)
           /\ i \in Nat /\ i \in 1..Len(worker[v].commands)
           /\ Cmd(v, i) \in Command
<1>1. worker[v] \in Conversation
  BY DEF TypeOK, Turn, Exists
<1>2. worker[v].commands \in Seq(Command)
  BY <1>1 DEF Conversation
<1>3. i \in 1..Len(worker[v].commands)
  BY <1>2 DEF Turn
<1> QED
  BY <1>1, <1>2, <1>3 DEF Cmd

\* No step takes back a turn or its outcome.
Persists ==
    \A v \in Conversations :
        /\ Exists(v) => Exists(v)'
        /\ \A i \in Nat : Turn(v, i) =>
              /\ Turn(v, i)'
              /\ Cmd(v, i)'.id = Cmd(v, i).id
              /\ Cmd(v, i)'.session = Cmd(v, i).session
              /\ Cmd(v, i)'.by = Cmd(v, i).by
              /\ Cmd(v, i).status = "complete" => Cmd(v, i)'.status = "complete"

\* Nothing was sent for task t in a step.
SentNoMore(t) ==
    \A v \in Conversations, i \in Nat : Turn(v, i)' => Turn(v, i) \/ Cmd(v, i)'.by # t

LEMMA OutsideKept ==
    ASSUME worker' = worker
    PROVE  /\ Persists
           /\ \A t \in Tasks : SentNoMore(t)
           /\ \A v : Exists(v)' <=> Exists(v)
           /\ \A v, i : (Turn(v, i)' <=> Turn(v, i)) /\ Cmd(v, i)' = Cmd(v, i)
           /\ \A v, c : Done(v, c)' <=> Done(v, c)
  BY DEF Persists, SentNoMore, Exists, Turn, Cmd, Done

LEMMA DoneStays ==
    ASSUME Persists, NEW v, NEW c, Done(v, c)
    PROVE  Done(v, c)'
<1>1. PICK i \in Nat : Turn(v, i) /\ Cmd(v, i).id = c /\ Cmd(v, i).status = "complete"
  BY DEF Done
<1>2. v \in Conversations
  BY <1>1 DEF Turn
<1>3. Turn(v, i)' /\ Cmd(v, i)'.id = c /\ Cmd(v, i)'.status = "complete"
  BY <1>1, <1>2 DEF Persists
<1> QED
  BY <1>3 DEF Done

LEMMA SentNothingStays ==
    ASSUME Persists, NEW t, SentNoMore(t), SentNothing(t)
    PROVE  SentNothing(t)'
  BY DEF Persists, SentNoMore, SentNothing

LEMMA EntryStays ==
    ASSUME Persists, NEW t, NEW e, Entry(t, e), Accounts(t, e)',
           e.conversation \in Conversations \cup {Nothing}
    PROVE  Entry(t, e)'
<1>1. (e.conversation # Nothing => Exists(e.conversation))'
  BY DEF Entry, Persists
<1>2. (\A i \in 1..(Len(e.commands) - 1) : Done(e.conversation, e.commands[i]))'
  BY DoneStays DEF Entry
<1> QED
  BY <1>1, <1>2 DEF Entry

\* What task t was sent in a step, its entries account for.
Covered(t) ==
    SentNoMore(t) \/
       /\ tasks[t] # NoTask /\ saved[t] # NoTask
       /\ \A v \in Conversations, i \in Nat : Turn(v, i)' /\ ~Turn(v, i) =>
             \A e \in {tasks[t], saved[t]} :
                /\ e.conversation = v
                /\ e.target = Cmd(v, i)'.session
                /\ Contains(e.commands, Cmd(v, i)'.id)

LEMMA AccountsStays ==
    ASSUME Persists, NEW t, NEW e, e = tasks[t] \/ e = saved[t], Covered(t), Accounts(t, e)
    PROVE  Accounts(t, e)'
  BY DEF Persists, Covered, SentNoMore, Accounts

LEMMA EntryType ==
    ASSUME TypeOK, NEW t \in Tasks
    PROVE  /\ tasks[t] # NoTask => tasks[t] \in Task /\ tasks[t].conversation \in Conversations \cup {Nothing}
           /\ saved[t] # NoTask => saved[t] \in Task /\ saved[t].conversation \in Conversations \cup {Nothing}
  BY DEF TypeOK, Task

LEMMA CallType ==
    ASSUME TypeOK, call.stage # "none"
    PROVE  /\ call \in Call /\ call.task \in Tasks /\ call.entry \in Task
           /\ call.entry.conversation \in Conversations \cup {Nothing}
           /\ call.entry.commands \in Seq(Commands)
  BY DEF TypeOK, Call, NoCall, Task

LEMMA StopsStay ==
    ASSUME StopsNamed, stopped' = stopped
    PROVE  StopsNamed'
  BY DEF StopsNamed

----------------------------------------
(* What leaves the tasks alone.                                                  *)

LEMMA EntryPersists ==
    ASSUME IInv, Persists, NEW t \in Tasks, Covered(t), NEW e, e = tasks[t] \/ e = saved[t]
    PROVE  IF e = NoTask THEN SentNothing(t)' ELSE Entry(t, e)'
<1>1. CASE e = NoTask
  BY <1>1, SentNothingStays DEF Covered, IInv, Kept, Agree
<1>2. CASE e # NoTask
  <2>1. Entry(t, e)
    BY <1>2 DEF IInv, Kept
  <2>2. e.conversation \in Conversations \cup {Nothing}
    BY <1>2, EntryType DEF IInv
  <2>3. Accounts(t, e)'
    BY <2>1, AccountsStays DEF Entry
  <2> QED
    BY <1>2, <2>1, <2>2, <2>3, EntryStays
<1> QED
  BY <1>1, <1>2

LEMMA FileStays ==
    ASSUME IInv, Persists, \A t \in Tasks : Covered(t), saved' = saved
    PROVE  Kept(saved)'
<1> SUFFICES ASSUME NEW t \in Tasks
             PROVE  IF saved'[t] = NoTask THEN SentNothing(t)' ELSE Entry(t, saved[t])'
  BY DEF Kept
<1>1. PICK e : e = saved[t] /\ e = saved'[t]
  OBVIOUS
<1>2. IF e = NoTask THEN SentNothing(t)' ELSE Entry(t, e)'
  BY <1>1, EntryPersists
<1> QED
  BY <1>1, <1>2 DEF Entry, Accounts

LEMMA EntriesStay ==
    ASSUME IInv, Persists, \A t \in Tasks : Covered(t), UNCHANGED <<tasks, saved>>
    PROVE  Kept(tasks)' /\ Kept(saved)'
<1> SUFFICES ASSUME NEW t \in Tasks
             PROVE  IF tasks'[t] = NoTask THEN SentNothing(t)' ELSE Entry(t, tasks[t])'
  BY FileStays DEF Kept
<1>1. PICK e : e = tasks[t] /\ e = tasks'[t]
  OBVIOUS
<1>2. IF e = NoTask THEN SentNothing(t)' ELSE Entry(t, e)'
  BY <1>1, EntryPersists
<1> QED
  BY <1>1, <1>2 DEF Entry, Accounts

LEMMA TasksAlone ==
    ASSUME IInv, TypeOK', Ledger', StopsNamed', Persists,
           \A t \in Tasks : SentNoMore(t),
           UNCHANGED <<tasks, saved, call, created>>
    PROVE  IInv'
<1>1. Kept(tasks)' /\ Kept(saved)'
  BY EntriesStay DEF Covered
<1>2. Agree' /\ Creations'
  BY DEF IInv, Agree, Creations
<1>3. InProgress'
  <2>1. call.stage \in {"create", "target", "conversation", "reserve"} =>
           SentNothing(call.task)'
    <3>1. PICK t : t = call.task
      OBVIOUS
    <3>2. call.stage \in {"create", "target", "conversation", "reserve"} =>
             t \in Tasks /\ SentNothing(t)
      BY <3>1, CallType DEF IInv, InProgress, Opening, Reserving
    <3>3. call.stage \in {"create", "target", "conversation", "reserve"} => SentNothing(t)'
      BY <3>2, SentNothingStays
    <3> QED
      BY <3>1, <3>3 DEF SentNothing
  <2>2. \A v \in Conversations : Exists(v) => Exists(v)'
    BY DEF Persists
  <2>3. (call.stage \in {"create", "target", "conversation"} => Opening(call.task, call.entry))'
    BY <2>1 DEF IInv, InProgress, Opening, SentNothing
  <2>4. (call.stage = "reserve" => Reserving(call.task, call.entry))'
    BY <2>1, <2>2 DEF IInv, InProgress, Reserving, SentNothing, Exists
  <2>5. (call.stage \in {"chat", "record"} => Dispatching(call.task, call.entry))'
    BY DEF IInv, InProgress, Dispatching, SameRecord
  <2> QED
    BY <2>3, <2>4, <2>5 DEF IInv, InProgress
<1> QED
  BY <1>1, <1>2, <1>3 DEF IInv

----------------------------------------
(* Users, and turns.                                                             *)

LEMMA CommandsUpdate ==
    ASSUME NEW w \in Conversation, NEW commands \in Seq(Command)
    PROVE  LET x == [w EXCEPT !.commands = commands]
           IN  x \in Conversation /\ x.commands = commands
  BY DEF Conversation

\* The record of a conversation that exists changes but for its commands.
LEMMA SwitchStep ==
    ASSUME IInv, NEW v \in Conversations, NEW s \in Sessions, ManualSwitch(v, s)
    PROVE  IInv' /\ Persists
<1> DEFINE new == [worker[v] EXCEPT !.selected = s, !.links = worker[v].links \cup {s},
                              !.revision = worker[v].revision + 1]
<1>1. /\ Exists(v) /\ worker[v].revision < MaxRevision
      /\ worker' = [worker EXCEPT ![v] = new]
      /\ UNCHANGED <<enabled, tasks, saved, call, native, holder, created, stopped>>
  BY DEF ManualSwitch
<1>2. worker[v] \in Conversation
  BY <1>1 DEF IInv, TypeOK, Exists
<1>3. new \in Conversation /\ new.commands = worker[v].commands
  <2>1. worker[v].revision + 1 \in 1..MaxRevision
    BY <1>1, <1>2, CoordinationAssumption DEF Conversation
  <2>2. worker[v].links \cup {s} \in SUBSET Sessions
    BY <1>2 DEF Conversation
  <2>3. PICK w \in Conversation, links \in SUBSET Sessions, r \in 1..MaxRevision :
           w = worker[v] /\ links = worker[v].links \cup {s} /\ r = worker[v].revision + 1
    BY <1>2, <2>1, <2>2
  <2>4. /\ [w EXCEPT !.selected = s, !.links = links, !.revision = r] \in Conversation
        /\ [w EXCEPT !.selected = s, !.links = links, !.revision = r].commands = w.commands
    BY DEF Conversation
  <2> QED
    BY <2>3, <2>4
<1>4. new # NoConversation
  BY <1>3 DEF NoConversation, Conversation
<1>5. worker' \in [Conversations -> Conversation \cup {NoConversation}]
  BY <1>1, <1>3 DEF IInv, TypeOK
<1>6. TypeOK'
  BY <1>1, <1>5 DEF IInv, TypeOK
<1>7. \A u, i : (Turn(u, i)' <=> Turn(u, i)) /\ (Turn(u, i) => Cmd(u, i)' = Cmd(u, i))
  BY <1>1, <1>3, <1>4 DEF IInv, TypeOK, Turn, Cmd, Exists
<1>8. \A u \in Conversations : Exists(u) => Exists(u)'
  BY <1>1, <1>4 DEF IInv, TypeOK, Exists
<1>9. Persists /\ \A t \in Tasks : SentNoMore(t)
  BY <1>7, <1>8 DEF Persists, SentNoMore
<1>10. Ledger'
  BY <1>1, <1>7 DEF IInv, Ledger
<1> QED
  BY <1>1, <1>6, <1>9, <1>10, StopsStay, TasksAlone DEF IInv

\* A conversation that did not exist appears, without commands.
LEMMA Appears ==
    ASSUME IInv, NEW v \in Conversations, NEW s \in Sessions, ~Exists(v),
           worker' = [worker EXCEPT ![v] = Fresh(s)], holder' = holder
    PROVE  /\ worker' \in [Conversations -> Conversation \cup {NoConversation}]
           /\ \A u, i : (Turn(u, i)' <=> Turn(u, i)) /\ (Turn(u, i) => Cmd(u, i)' = Cmd(u, i))
           /\ Exists(v)'
           /\ Persists /\ \A t \in Tasks : SentNoMore(t)
           /\ Ledger'
<1>1. Fresh(s) \in Conversation
  BY CoordinationAssumption DEF Fresh, Conversation
<1>2. Fresh(s) # NoConversation /\ Fresh(s).commands = <<>>
  BY DEF Fresh, NoConversation
<1>3. worker' \in [Conversations -> Conversation \cup {NoConversation}]
  BY <1>1 DEF IInv, TypeOK
<1>4. Exists(v)' /\ \A u \in Conversations : Exists(u) => Exists(u)'
  BY <1>2 DEF IInv, TypeOK, Exists
<1>5. \A u, i : (Turn(u, i)' <=> Turn(u, i)) /\ (Turn(u, i) => Cmd(u, i)' = Cmd(u, i))
  BY <1>2 DEF IInv, TypeOK, Turn, Cmd, Exists
<1>6. Persists /\ \A t \in Tasks : SentNoMore(t)
  BY <1>4, <1>5 DEF Persists, SentNoMore
<1>7. Ledger'
  BY <1>5 DEF IInv, Ledger
<1> QED
  BY <1>3, <1>4, <1>5, <1>6, <1>7

LEMMA CreateStep ==
    ASSUME IInv, NEW v \in Conversations, NEW s \in Sessions, ManualCreate(v, s)
    PROVE  IInv' /\ Persists
<1>1. /\ ~Exists(v) /\ worker' = [worker EXCEPT ![v] = Fresh(s)]
      /\ UNCHANGED <<enabled, tasks, saved, call, native, holder, created, stopped>>
  BY DEF ManualCreate
<1>2. TypeOK'
  BY <1>1, Appears DEF IInv, TypeOK
<1> QED
  BY <1>1, <1>2, Appears, StopsStay, TasksAlone DEF IInv

\* A turn begins: its command was not recorded, and its session was idle.
LEMMA Sent ==
    ASSUME IInv, NEW v \in Conversations, NEW s \in Sessions, NEW c \in Commands,
           NEW who \in Tasks \cup {Nobody}, NEW r, Accepts(v, s, c, r), Send(v, s, c, who)
    PROVE  /\ worker' \in [Conversations -> Conversation \cup {NoConversation}]
           /\ holder' \in [Sessions -> Commands \cup {Nobody, "direct"}]
           /\ \A u \in Conversations, i \in Nat : Turn(u, i)' /\ ~Turn(u, i) =>
                 /\ u = v
                 /\ Cmd(u, i)' = [id |-> c, session |-> s, status |-> "running", by |-> who]
           /\ Persists
           /\ Ledger'
<1> DEFINE d == [id |-> c, session |-> s, status |-> "running", by |-> who]
           old == worker[v].commands
           new == [worker[v] EXCEPT !.commands = Append(old, d)]
<1>1. /\ Exists(v) /\ holder[s] = Nobody /\ ~Recorded(c)
      /\ holder' = [holder EXCEPT ![s] = c]
      /\ worker' = [worker EXCEPT ![v] = new]
  BY DEF Accepts, Send
<1>2. worker[v] \in Conversation /\ old \in Seq(Command)
  BY <1>1 DEF IInv, TypeOK, Exists, Conversation
<1>3. d \in Command
  BY DEF Command
<1>4. new \in Conversation /\ new.commands = Append(old, d)
  <2>1. Append(old, d) \in Seq(Command)
    BY <1>2, <1>3
  <2> QED
    BY <1>2, <2>1, CommandsUpdate
<1>5. new # NoConversation
  BY <1>4 DEF NoConversation, Conversation
<1>6. /\ worker' \in [Conversations -> Conversation \cup {NoConversation}]
      /\ holder' \in [Sessions -> Commands \cup {Nobody, "direct"}]
  BY <1>1, <1>4 DEF IInv, TypeOK
<1>7. \A u \in Conversations : Exists(u)' <=> Exists(u)
  BY <1>1, <1>5 DEF IInv, TypeOK, Exists
<1>8. worker'[v].commands = Append(old, d)
      /\ \A u \in Conversations \ {v} : worker'[u] = worker[u]
  BY <1>1, <1>4 DEF IInv, TypeOK
<1>9. /\ \A i : Turn(v, i) => Turn(v, i)' /\ Cmd(v, i)' = Cmd(v, i)
      /\ \A i : Turn(v, i)' /\ ~Turn(v, i) => Cmd(v, i)' = d
  BY <1>1, <1>2, <1>3, <1>7, <1>8 DEF Turn, Cmd
<1>10. \A i : \A u \in Conversations \ {v} : (Turn(u, i)' <=> Turn(u, i)) /\ Cmd(u, i)' = Cmd(u, i)
  BY <1>7, <1>8 DEF Turn, Cmd
<1>11. \A i, j : Turn(v, i)' /\ ~Turn(v, i) /\ Turn(v, j)' /\ ~Turn(v, j) => i = j
  BY <1>1, <1>2, <1>3, <1>7, <1>8 DEF Turn
<1>12. \A u \in Conversations, i \in Nat : Turn(u, i) => Turn(u, i)' /\ Cmd(u, i)' = Cmd(u, i)
  BY <1>9, <1>10
<1>13. \A u \in Conversations, i \in Nat : Turn(u, i)' /\ ~Turn(u, i) => u = v /\ Cmd(u, i)' = d
  BY <1>9, <1>10
<1>14. Persists
  BY <1>7, <1>12 DEF Persists
<1>15. \A u \in Conversations, i \in Nat : Turn(u, i) => Cmd(u, i).id # c
  BY <1>1 DEF Recorded, Turn, Cmd
<1>16. \A u \in Conversations, i \in Nat : Turn(u, i) => Cmd(u, i) \in Command
  BY TurnType DEF IInv
<1>17. \A u \in Conversations, i \in Nat : Turn(u, i) /\ Cmd(u, i).status = "running" =>
          Cmd(u, i).session # s
  <2> SUFFICES ASSUME NEW u \in Conversations, NEW i \in Nat, Turn(u, i), Cmd(u, i).status = "running",
                      Cmd(u, i).session = s
               PROVE  FALSE
    OBVIOUS
  <2>1. holder[s] = Cmd(u, i).id /\ Cmd(u, i).id \in Commands
    BY <1>16 DEF IInv, Ledger, Command
  <2> QED
    BY <1>1, <2>1, CoordinationAssumption
<1>18. \A u, w \in Conversations, i, j \in Nat :
          Turn(u, i)' /\ Turn(w, j)' /\ Cmd(u, i)'.id = Cmd(w, j)'.id => u = w /\ i = j
  <2> SUFFICES ASSUME NEW u \in Conversations, NEW w \in Conversations, NEW i \in Nat, NEW j \in Nat,
                      Turn(u, i)', Turn(w, j)', Cmd(u, i)'.id = Cmd(w, j)'.id
               PROVE  u = w /\ i = j
    OBVIOUS
  <2>1. CASE Turn(u, i) /\ Turn(w, j)
    BY <1>12, <2>1 DEF IInv, Ledger
  <2>2. CASE ~Turn(u, i) /\ ~Turn(w, j)
    BY <1>11, <1>13, <2>2
  <2>3. CASE Turn(u, i) /\ ~Turn(w, j)
    BY <1>12, <1>13, <1>15, <2>3
  <2>4. CASE ~Turn(u, i) /\ Turn(w, j)
    BY <1>12, <1>13, <1>15, <2>4
  <2> QED
    BY <2>3, <2>4, <2>1, <2>2
<1>19. \A u \in Conversations, i \in Nat : Turn(u, i)' =>
          (Cmd(u, i)'.status = "running" => holder'[Cmd(u, i)'.session] = Cmd(u, i)'.id)
  <2> SUFFICES ASSUME NEW u \in Conversations, NEW i \in Nat, Turn(u, i)'
               PROVE  Cmd(u, i)'.status = "running" => holder'[Cmd(u, i)'.session] = Cmd(u, i)'.id
    OBVIOUS
  <2>1. CASE Turn(u, i)
    <3>1. Cmd(u, i)' = Cmd(u, i) /\ Cmd(u, i).session \in Sessions
      BY <1>12, <1>16, <2>1 DEF Command
    <3>2. Cmd(u, i).status = "running" => holder'[Cmd(u, i).session] = holder[Cmd(u, i).session]
      BY <1>1, <1>17, <2>1, <3>1 DEF IInv, TypeOK
    <3> QED
      BY <2>1, <3>1, <3>2 DEF IInv, Ledger
  <2>2. CASE ~Turn(u, i)
    BY <1>1, <1>13, <2>2 DEF IInv, TypeOK
  <2> QED
    BY <2>1, <2>2
<1>20. Ledger'
  BY <1>18, <1>19 DEF Ledger
<1> QED
  BY <1>6, <1>13, <1>14, <1>20

LEMMA PromptStep ==
    ASSUME IInv, NEW v \in Conversations, NEW c \in Commands, ManualPrompt(v, c)
    PROVE  IInv' /\ Persists
<1> DEFINE s == worker[v].selected
<1>1. /\ Exists(v) /\ Accepts(v, s, c, worker[v].revision) /\ Send(v, s, c, Nobody)
      /\ UNCHANGED <<enabled, tasks, saved, call, native, created, stopped>>
  BY DEF ManualPrompt
<1>2. s \in Sessions
  BY <1>1 DEF IInv, TypeOK, Exists, Conversation
<1>3. Nobody \notin Tasks
  BY CoordinationAssumption
<1>4. /\ worker' \in [Conversations -> Conversation \cup {NoConversation}]
      /\ holder' \in [Sessions -> Commands \cup {Nobody, "direct"}]
      /\ \A u \in Conversations, i \in Nat : Turn(u, i)' /\ ~Turn(u, i) => Cmd(u, i)'.by = Nobody
      /\ Persists /\ Ledger'
  BY <1>1, <1>2, <1>3, Sent
<1>5. TypeOK'
  BY <1>1, <1>4 DEF IInv, TypeOK
<1>6. \A t \in Tasks : SentNoMore(t)
  BY <1>3, <1>4 DEF SentNoMore
<1> QED
  BY <1>1, <1>4, <1>5, <1>6, StopsStay, TasksAlone DEF IInv

\* A session becomes busy, or free of a turn that is recorded.
LEMMA HolderSteps ==
    ASSUME IInv, NEW s \in Sessions, DirectPrompt(s) \/ ReleaseTurn(s)
    PROVE  IInv'
<1>1. /\ UNCHANGED <<enabled, tasks, saved, call, worker, native, created, stopped>>
      /\ \/ holder[s] = Nobody /\ holder' = [holder EXCEPT ![s] = "direct"]
         \/ ~Running(holder[s]) /\ holder' = [holder EXCEPT ![s] = Nobody]
  BY DEF DirectPrompt, ReleaseTurn, Linkable
<1>2. TypeOK'
  BY <1>1 DEF IInv, TypeOK
<1>3. /\ Persists /\ \A t \in Tasks : SentNoMore(t)
      /\ \A u, i : (Turn(u, i)' <=> Turn(u, i)) /\ Cmd(u, i)' = Cmd(u, i)
  BY <1>1, OutsideKept
<1>4. ASSUME NEW u \in Conversations, NEW i \in Nat, Turn(u, i), Cmd(u, i).status = "running"
      PROVE  Cmd(u, i).session # s
  <2>1. Cmd(u, i).id \in Commands /\ Cmd(u, i).id # Nobody
    BY <1>4, TurnType, CoordinationAssumption DEF IInv, Command
  <2>2. Running(Cmd(u, i).id)
    BY <1>4 DEF Running, Turn, Cmd
  <2>3. holder[Cmd(u, i).session] = Cmd(u, i).id
    BY <1>4 DEF IInv, Ledger
  <2> QED
    BY <1>1, <2>1, <2>2, <2>3
<1>5. \A u \in Conversations, i \in Nat : Turn(u, i) => Cmd(u, i).session \in Sessions
  BY TurnType DEF IInv, Command
<1>6. \A x \in Sessions \ {s} : holder'[x] = holder[x]
  BY <1>1 DEF IInv, TypeOK
<1>7. Ledger'
  BY <1>3, <1>4, <1>5, <1>6 DEF IInv, Ledger
<1> QED
  BY <1>1, <1>2, <1>3, <1>7, StopsStay, TasksAlone DEF IInv

\* Commands change in status alone, and only the running ones.
LEMMA StatusOnly ==
    ASSUME IInv, worker' \in [Conversations -> Conversation \cup {NoConversation}],
           \A v \in Conversations : Exists(v)' <=> Exists(v),
           \A v \in Conversations : Exists(v) => DOMAIN worker'[v].commands = DOMAIN worker[v].commands,
           \A v \in Conversations, i \in Nat : Turn(v, i) =>
              /\ Cmd(v, i)'.id = Cmd(v, i).id
              /\ Cmd(v, i)'.session = Cmd(v, i).session
              /\ Cmd(v, i)'.by = Cmd(v, i).by
              /\ Cmd(v, i)'.status = Cmd(v, i).status \/ Cmd(v, i).status = "running"
              /\ Cmd(v, i)'.status = "running" =>
                    Cmd(v, i).status = "running" /\ holder'[Cmd(v, i).session] = holder[Cmd(v, i).session]
    PROVE  /\ Persists /\ \A t \in Tasks : SentNoMore(t)
           /\ \A v, i : Turn(v, i)' <=> Turn(v, i)
           /\ Ledger'
<1>1. \A v, i : Turn(v, i)' <=> Turn(v, i)
  BY DEF Turn
<1>2. Persists /\ \A t \in Tasks : SentNoMore(t)
  BY <1>1 DEF Persists, SentNoMore
<1>3. Ledger'
  BY <1>1 DEF IInv, Ledger
<1> QED
  BY <1>1, <1>2, <1>3

LEMMA RecordStep ==
    ASSUME IInv, NEW v \in Conversations, Exists(v), NEW n \in DOMAIN worker[v].commands,
           NEW status \in {"complete", "uncertain"}, RecordTurn(v, n, status)
    PROVE  IInv' /\ Persists
<1>1. /\ worker[v].commands[n].status = "running"
      /\ worker' = [worker EXCEPT ![v].commands[n].status = status]
      /\ UNCHANGED <<enabled, tasks, saved, call, native, holder, created, stopped>>
  BY DEF RecordTurn
<1>2. Turn(v, n)
  BY DEF Turn
<1>3. /\ worker[v] \in Conversation /\ worker[v].commands \in Seq(Command)
      /\ n \in 1..Len(worker[v].commands) /\ worker[v].commands[n] \in Command
  BY <1>2, TurnType DEF IInv, Cmd
<1>4. PICK d \in Command, old \in Seq(Command) :
         /\ d = [worker[v].commands[n] EXCEPT !.status = status]
         /\ old = worker[v].commands
  BY <1>3 DEF Command
<1>5. PICK commands \in Seq(Command) : commands = [old EXCEPT ![n] = d]
  <2>1. n \in 1..Len(old)
    BY <1>3, <1>4
  <2>2. [old EXCEPT ![n] = d] \in Seq(Command)
    BY ONLY <2>1, <1>4, ExceptSeq, old \in Seq(Command), d \in Command
  <2> QED
    BY <2>2
<1>6. PICK new \in Conversation : new = [worker[v] EXCEPT !.commands = commands]
  BY <1>3, <1>5, CommandsUpdate
<1>7. worker' = [worker EXCEPT ![v] = new]
  BY <1>1, <1>4, <1>5, <1>6
<1>8. new.commands = commands
  BY <1>3, <1>5, <1>6, CommandsUpdate
<1>9. new # NoConversation
  BY DEF NoConversation, Conversation
<1>10. /\ worker' \in [Conversations -> Conversation \cup {NoConversation}]
       /\ worker'[v] = new /\ \A u \in Conversations \ {v} : worker'[u] = worker[u]
  BY <1>7 DEF IInv, TypeOK
<1>11. TypeOK'
  BY <1>1, <1>10 DEF IInv, TypeOK
<1>12. \A u \in Conversations : Exists(u)' <=> Exists(u)
  BY <1>9, <1>10 DEF Exists
<1>13. \A u \in Conversations : Exists(u) => DOMAIN worker'[u].commands = DOMAIN worker[u].commands
  BY <1>4, <1>5, <1>8, <1>10
<1>14. /\ d.id = Cmd(v, n).id /\ d.session = Cmd(v, n).session /\ d.by = Cmd(v, n).by
       /\ d.status = status /\ Cmd(v, n).status = "running"
  BY <1>1, <1>3, <1>4 DEF Command, Cmd
<1>15. \A u \in Conversations, i \in Nat : Turn(u, i) =>
          IF u = v /\ i = n THEN Cmd(u, i)' = d ELSE Cmd(u, i)' = Cmd(u, i)
  <2>1. \A i \in DOMAIN old : commands[i] = IF i = n THEN d ELSE old[i]
    BY <1>5
  <2>2. \A i : Turn(v, i) => i \in DOMAIN old /\ Cmd(v, i) = old[i] /\ Cmd(v, i)' = commands[i]
    BY <1>4, <1>8, <1>10 DEF Turn, Cmd
  <2>3. \A i : \A u \in Conversations \ {v} : Cmd(u, i)' = Cmd(u, i)
    BY <1>10 DEF Cmd
  <2> QED
    BY <2>1, <2>2, <2>3
<1>16. Persists /\ (\A t \in Tasks : SentNoMore(t)) /\ Ledger'
  BY <1>1, <1>10, <1>12, <1>13, <1>14, <1>15, StatusOnly
<1> QED
  BY <1>1, <1>11, <1>16, StopsStay, TasksAlone DEF IInv

LEMMA ModeStep ==
    ASSUME IInv, NEW v \in Conversations, SetMode(v)
    PROVE  IInv'
<1>1. /\ enabled' = [enabled EXCEPT ![v] = ~@]
      /\ UNCHANGED <<tasks, saved, call, worker, native, holder, created, stopped>>
  BY DEF SetMode, outside
<1>2. TypeOK'
  BY <1>1 DEF IInv, TypeOK
<1>3. Ledger'
  BY <1>1, OutsideKept DEF IInv, Ledger
<1> QED
  BY <1>1, <1>2, <1>3, OutsideKept, StopsStay, TasksAlone DEF IInv

\* The turn a stop reaches runs, so it holds its session.
LEMMA StopStep ==
    ASSUME IInv, NEW o \in Conversations, NEW t \in Tasks, Stop(o, t)
    PROVE  IInv'
<1> DEFINE e == tasks[t]
           v == e.conversation
<1>1. /\ UNCHANGED <<enabled, tasks, saved, call, worker, native, holder, created>>
      /\ stopped' = stopped \cup {Interrupt(t)}
      /\ e # NoTask /\ v # Nothing
  BY DEF Stop, Addressable, outside
<1>2. PICK i \in DOMAIN worker[v].commands :
         /\ worker[v].commands[i].session = e.target
         /\ worker[v].commands[i].id = Last(e.commands)
         /\ worker[v].commands[i].status = "running"
  BY DEF Stop, Latest
<1>3. e \in Task /\ v \in Conversations /\ e.commands \in Seq(Commands)
  BY <1>1, EntryType DEF IInv, Task
<1>4. Entry(t, e)
  BY <1>1 DEF IInv, Kept
<1>5. Exists(v) /\ Len(e.commands) # 0
  BY <1>1, <1>4 DEF Entry
<1>6. Turn(v, i) /\ i \in Nat
  BY <1>2, <1>3, <1>5, TurnType DEF IInv, Turn
<1>7. Cmd(v, i).id = Last(e.commands) /\ Cmd(v, i).session = e.target /\ Cmd(v, i).status = "running"
  BY <1>2 DEF Cmd
<1>8. Last(e.commands) \in Commands
  BY <1>3, <1>5 DEF Last
<1>9. holder[e.target] = Last(e.commands)
  BY <1>3, <1>6, <1>7 DEF IInv, Ledger
<1>10. /\ Interrupt(t) \in [task : Tasks, state : {"starting", "active", "uncertain"},
                             last : Commands, turn : Commands \cup {Nobody, "direct"}]
       /\ Interrupt(t).turn = Interrupt(t).last
  BY <1>3, <1>8, <1>9 DEF Interrupt, Task
<1>11. TypeOK'
  BY <1>1, <1>10 DEF IInv, TypeOK
<1>12. StopsNamed'
  BY <1>1, <1>10 DEF IInv, StopsNamed
<1>13. Ledger'
  BY <1>1, OutsideKept DEF IInv, Ledger
<1> QED
  BY <1>1, <1>11, <1>12, <1>13, OutsideKept, TasksAlone

----------------------------------------
(* Saving: one entry changes, in memory and perhaps in the file.                 *)

LEMMA NoTaskIsNone == NoTask \notin Task
  BY DEF NoTask, Task

LEMMA UncertainEntry ==
    ASSUME NEW e \in Task
    PROVE  Uncertain(e) \in Task /\ SameRecord(Uncertain(e), e)
  BY DEF Uncertain, Task, SameRecord

LEMMA EntryUpdate ==
    ASSUME NEW e \in Task, NEW s \in Sessions
    PROVE  LET x == [e EXCEPT !.target = s]
           IN  x \in Task /\ x.conversation = e.conversation /\ x.commands = e.commands
  BY DEF Task

LEMMA WorkerUpdate ==
    ASSUME NEW e \in Task, NEW v \in Conversations
    PROVE  LET x == [e EXCEPT !.conversation = v]
           IN  x \in Task /\ x.conversation = v /\ x.commands = e.commands
  BY DEF Task

LEMMA EntryOfRecord ==
    ASSUME NEW t, NEW e, NEW d, SameRecord(e, d), Entry(t, d)
    PROVE  Entry(t, e)
  BY DEF SameRecord, Entry, Accounts

\* A task that was sent nothing has a sound entry with its first command.
LEMMA FirstEntry ==
    ASSUME NEW t, NEW e, SentNothing(t), Len(e.commands) = 1,
           e.conversation # Nothing => Exists(e.conversation)
    PROVE  Entry(t, e)
  BY DEF SentNothing, Entry, Accounts

\* Of an unchanged outside, the parts of the invariant that a saved entry concerns.
LEMMA Saving ==
    ASSUME IInv, UNCHANGED <<worker, holder, stopped>>,
           NEW t \in Tasks, NEW x \in Task, Entry(t, x),
           tasks' = [tasks EXCEPT ![t] = x], saved' = tasks' \/ saved' = saved,
           \/ x.conversation = Nothing
           \/ \A u \in Tasks \ {t} : tasks[u] # NoTask => tasks[u].conversation # x.conversation,
           saved[t] # NoTask => saved[t].conversation \in {Nothing, x.conversation}
    PROVE  /\ tasks' \in [Tasks -> Task \cup {NoTask}]
           /\ saved' \in [Tasks -> Task \cup {NoTask}]
           /\ Ledger' /\ Kept(tasks)' /\ Kept(saved)' /\ Agree' /\ StopsNamed'
           /\ tasks'[t] = x /\ x # NoTask
           /\ \A u \in Tasks : saved[u] # NoTask => saved'[u] # NoTask
<1>1. /\ \A u \in Tasks : tasks'[u] = IF u = t THEN x ELSE tasks[u]
      /\ x # NoTask
      /\ tasks' \in [Tasks -> Task \cup {NoTask}]
      /\ saved' \in [Tasks -> Task \cup {NoTask}]
  BY NoTaskIsNone DEF IInv, TypeOK
<1>2. Ledger'
  BY OutsideKept DEF IInv, Ledger
<1>3. \A u \in Tasks : SentNothing(u)' <=> SentNothing(u)
  BY OutsideKept DEF SentNothing
<1>4. \A u, e : Entry(u, e)' <=> Entry(u, e)
  BY OutsideKept DEF Entry, Accounts
<1>5. ASSUME NEW u \in Tasks
      PROVE  IF tasks'[u] = NoTask THEN SentNothing(u)' ELSE Entry(u, tasks[u])'
  <2>1. PICK e : e = tasks'[u]
    OBVIOUS
  <2>2. IF e = NoTask THEN SentNothing(u) ELSE Entry(u, e)
    BY <1>1, <2>1 DEF IInv, Kept
  <2>3. IF e = NoTask THEN SentNothing(u)' ELSE Entry(u, e)'
    BY <1>3, <1>4, <2>2
  <2> QED
    BY <2>1, <2>3 DEF Entry, Accounts
<1>6. Kept(tasks)'
  BY <1>5 DEF Kept
<1>7. ASSUME NEW u \in Tasks
      PROVE  IF saved'[u] = NoTask THEN SentNothing(u)' ELSE Entry(u, saved[u])'
  <2>1. PICK e : e = saved'[u]
    OBVIOUS
  <2>2. IF e = NoTask THEN SentNothing(u) ELSE Entry(u, e)
    BY <1>1, <2>1 DEF IInv, Kept
  <2>3. IF e = NoTask THEN SentNothing(u)' ELSE Entry(u, e)'
    BY <1>3, <1>4, <2>2
  <2> QED
    BY <2>1, <2>3 DEF Entry, Accounts
<1>8. Kept(saved)'
  BY <1>7 DEF Kept
<1>9. Agree'
  BY <1>1 DEF IInv, Agree
<1>10. StopsNamed'
  BY StopsStay, OutsideKept DEF IInv
<1> QED
  BY <1>1, <1>2, <1>6, <1>8, <1>9, <1>10 DEF IInv, Agree

\* The two ways of saving, as the lemma above wants them.
LEMMA SaveForms ==
    ASSUME NEW t, NEW x, Save(t, x) \/ KeepInMemory(t, x)
    PROVE  tasks' = [tasks EXCEPT ![t] = x] /\ (saved' = tasks' \/ saved' = saved)
  BY DEF Save, KeepInMemory

LEMMA StartCreateStep ==
    ASSUME IInv, NEW o \in Conversations, NEW t \in Tasks, NEW c \in Commands, StartCreate(o, t, c)
    PROVE  IInv'
<1>1. PICK x \in Task :
         x = [owner |-> o, conversation |-> Nothing, target |-> Nothing,
              commands |-> <<c>>, state |-> "starting"]
  <2>1. <<c>> \in Seq(Commands)
    OBVIOUS
  <2>2. [owner |-> o, conversation |-> Nothing, target |-> Nothing,
         commands |-> <<c>>, state |-> "starting"] \in Task
    BY <2>1 DEF Task
  <2> QED
    BY <2>2
<1>2. /\ call = NoCall /\ tasks[t] = NoTask /\ Save(t, x)
      /\ call' = [task |-> t, entry |-> x, revision |-> 0, stage |-> "create"]
      /\ UNCHANGED <<enabled, worker, native, holder, created, stopped>>
  BY <1>1 DEF StartCreate, Idle, outside
<1>3. x.conversation = Nothing /\ Len(x.commands) = 1
  BY <1>1
<1>4. SentNothing(t) /\ saved[t] = NoTask /\ created[t] = 0
  BY <1>2 DEF IInv, Kept, Agree, Creations
<1>5. Entry(t, x)
  BY <1>3, <1>4, FirstEntry
<1>6. /\ tasks' \in [Tasks -> Task \cup {NoTask}]
      /\ saved' \in [Tasks -> Task \cup {NoTask}]
      /\ Ledger' /\ Kept(tasks)' /\ Kept(saved)' /\ Agree' /\ StopsNamed'
      /\ tasks'[t] = x /\ x # NoTask
      /\ \A u \in Tasks : saved[u] # NoTask => saved'[u] # NoTask
  BY <1>2, <1>3, <1>4, <1>5, SaveForms, Saving
<1>7. saved'[t] = x
  BY <1>2, <1>6 DEF Save
<1>8. call' \in Call
  BY <1>2, CoordinationAssumption DEF Call
<1>9. TypeOK'
  BY <1>2, <1>6, <1>8 DEF IInv, TypeOK
<1>10. call'.stage = "create" /\ call'.task = t /\ call'.entry = x
  BY <1>2
<1>11. SentNothing(t)'
  BY <1>2, <1>4, OutsideKept DEF SentNothing
<1>12. InProgress'
  BY <1>2, <1>3, <1>4, <1>6, <1>7, <1>10, <1>11 DEF InProgress, Opening, SentNothing
<1>13. Creations'
  BY <1>2, <1>6 DEF IInv, Creations
<1> QED
  BY <1>6, <1>9, <1>12, <1>13 DEF IInv

\* What holds of an operation that may still create its worker.
LEMMA OpeningFacts ==
    ASSUME IInv, NEW t, NEW e, t = call.task, e = call.entry,
           call.stage \in {"create", "target", "conversation"}
    PROVE  /\ t \in Tasks /\ e \in Task /\ Opening(t, e) /\ Len(e.commands) = 1
           /\ e.conversation = Nothing /\ Entry(t, e) /\ SentNothing(t)
           /\ saved[t] # NoTask /\ saved[t].conversation = Nothing
           /\ call \in Call
<1>1. t \in Tasks /\ e \in Task /\ call \in Call
  BY CallType DEF IInv
<1>2. Opening(t, e) /\ Len(e.commands) = 1
  BY DEF IInv, InProgress
<1> QED
  BY <1>1, <1>2, FirstEntry DEF Opening

\* Creation is given up: at whatever stage, and with or without a session made.
LEMMA GiveUpKept ==
    ASSUME IInv, UNCHANGED <<worker, holder, stopped>>,
           NEW t, NEW e, t = call.task, e = call.entry,
           call.stage \in {"create", "target", "conversation"}, GiveUp(t, e)
    PROVE  /\ tasks' \in [Tasks -> Task \cup {NoTask}]
           /\ saved' \in [Tasks -> Task \cup {NoTask}]
           /\ Ledger' /\ Kept(tasks)' /\ Kept(saved)' /\ Agree' /\ StopsNamed'
           /\ \A u \in Tasks : saved[u] # NoTask => saved'[u] # NoTask
           /\ call' = NoCall /\ InProgress'
<1>1. /\ t \in Tasks /\ e \in Task /\ Entry(t, e) /\ e.conversation = Nothing
      /\ saved[t].conversation = Nothing
  BY OpeningFacts
<1>2. PICK x \in Task : x = Uncertain(e) /\ SameRecord(x, e)
  BY <1>1, UncertainEntry
<1>3. Entry(t, x) /\ x.conversation = Nothing
  BY <1>1, <1>2, EntryOfRecord DEF SameRecord
<1>4. (Save(t, x) \/ KeepInMemory(t, x)) /\ call' = NoCall
  BY <1>2 DEF GiveUp
<1>5. InProgress'
  BY <1>4 DEF InProgress, NoCall
<1> QED
  BY <1>1, <1>3, <1>4, <1>5, SaveForms, Saving

LEMMA CreateSessionStep ==
    ASSUME IInv, NEW s \in Sessions, CreateSession(s)
    PROVE  IInv'
<1>1. PICK t, e : t = call.task /\ e = call.entry
  OBVIOUS
<1>2. /\ call.stage = "create"
      /\ native' = native \cup {s}
      /\ created' = [created EXCEPT ![t] = @ + 1]
      /\ UNCHANGED <<enabled, worker, holder, stopped>>
  BY <1>1 DEF CreateSession
<1>3. /\ t \in Tasks /\ e \in Task /\ Opening(t, e) /\ Len(e.commands) = 1 /\ e.conversation = Nothing
      /\ saved[t] # NoTask /\ created[t] = 0 /\ call \in Call
  BY <1>1, <1>2, OpeningFacts DEF Opening
<1>4. created' \in [Tasks -> Nat] /\ created'[t] = 1
      /\ \A u \in Tasks \ {t} : created'[u] = created[u]
  BY <1>2, <1>3 DEF IInv, TypeOK
<1>5. CASE call' = [call EXCEPT !.stage = "target", !.entry.target = s] /\ UNCHANGED <<tasks, saved>>
  <2>1. PICK x \in Task : x = [e EXCEPT !.target = s] /\ x.conversation = Nothing /\ x.commands = e.commands
    BY <1>3, EntryUpdate
  <2>2. call' = [call EXCEPT !.stage = "target", !.entry = x]
    BY <1>1, <1>5, <2>1
  <2>3. call' \in Call /\ call'.stage = "target" /\ call'.entry = x /\ call'.task = t
    BY <1>1, <1>3, <2>2 DEF Call
  <2>4. TypeOK'
    BY <1>2, <1>4, <1>5, <2>3 DEF IInv, TypeOK
  <2>5. Ledger' /\ StopsNamed'
    BY <1>2, OutsideKept, StopsStay DEF IInv, Ledger
  <2>6. Kept(tasks)' /\ Kept(saved)'
    BY <1>2, <1>5, OutsideKept DEF IInv, Kept, Entry, Accounts, SentNothing
  <2>7. Agree' /\ Creations'
    BY <1>3, <1>4, <1>5 DEF IInv, Agree, Creations
  <2>8. SentNothing(t)'
    BY <1>2, <1>3, OutsideKept DEF SentNothing, Opening
  <2>9. InProgress'
    BY <1>3, <1>5, <2>1, <2>3, <2>8 DEF InProgress, Opening, SentNothing
  <2> QED
    BY <2>4, <2>5, <2>6, <2>7, <2>9 DEF IInv
<1>6. CASE GiveUp(t, e)
  <2>1. /\ tasks' \in [Tasks -> Task \cup {NoTask}]
        /\ saved' \in [Tasks -> Task \cup {NoTask}]
        /\ Ledger' /\ Kept(tasks)' /\ Kept(saved)' /\ Agree' /\ StopsNamed'
        /\ \A u \in Tasks : saved[u] # NoTask => saved'[u] # NoTask
        /\ call' = NoCall /\ InProgress'
    BY <1>1, <1>2, <1>6, GiveUpKept
  <2>2. TypeOK'
    BY <1>2, <1>4, <2>1 DEF IInv, TypeOK
  <2>3. Creations'
    BY <1>3, <1>4, <2>1 DEF IInv, Creations
  <2> QED
    BY <2>1, <2>2, <2>3 DEF IInv
<1> QED
  BY <1>1, <1>5, <1>6 DEF CreateSession

LEMMA FailureSteps ==
    ASSUME IInv, CreateFails \/ ConversationFails \/ (call.stage = "target" /\ GiveUp(call.task, call.entry)
              /\ UNCHANGED <<enabled, outside, created, stopped>>)
    PROVE  IInv'
<1>1. PICK t, e : t = call.task /\ e = call.entry
  OBVIOUS
<1>2. /\ call.stage \in {"create", "target", "conversation"} /\ GiveUp(t, e)
      /\ UNCHANGED <<enabled, worker, native, holder, created, stopped>>
  BY <1>1 DEF CreateFails, ConversationFails, outside
<1>3. /\ tasks' \in [Tasks -> Task \cup {NoTask}]
      /\ saved' \in [Tasks -> Task \cup {NoTask}]
      /\ Ledger' /\ Kept(tasks)' /\ Kept(saved)' /\ Agree' /\ StopsNamed'
      /\ \A u \in Tasks : saved[u] # NoTask => saved'[u] # NoTask
      /\ call' = NoCall /\ InProgress'
  BY <1>1, <1>2, GiveUpKept
<1>4. TypeOK'
  BY <1>2, <1>3 DEF IInv, TypeOK
<1>5. Creations'
  BY <1>2, <1>3 DEF IInv, Creations
<1> QED
  BY <1>3, <1>4, <1>5 DEF IInv

LEMMA RecordTargetStep == ASSUME IInv, RecordTarget PROVE IInv'
<1>1. PICK t, e : t = call.task /\ e = call.entry
  OBVIOUS
<1>2. call.stage = "target" /\ UNCHANGED <<enabled, worker, native, holder, created, stopped>>
  BY DEF RecordTarget, outside
<1>3. CASE GiveUp(t, e)
  BY <1>1, <1>2, <1>3, FailureSteps DEF outside
<1>4. CASE Save(t, e) /\ call' = [call EXCEPT !.stage = "conversation"]
  <2>1. /\ t \in Tasks /\ e \in Task /\ Entry(t, e) /\ e.conversation = Nothing
        /\ Len(e.commands) = 1 /\ SentNothing(t)
        /\ saved[t].conversation = Nothing /\ call \in Call
    BY <1>1, <1>2, OpeningFacts
  <2>2. /\ tasks' \in [Tasks -> Task \cup {NoTask}]
        /\ saved' \in [Tasks -> Task \cup {NoTask}]
        /\ Ledger' /\ Kept(tasks)' /\ Kept(saved)' /\ Agree' /\ StopsNamed'
        /\ tasks'[t] = e /\ e # NoTask
        /\ \A u \in Tasks : saved[u] # NoTask => saved'[u] # NoTask
    BY <1>2, <1>4, <2>1, SaveForms, Saving
  <2>3. saved'[t] = e
    BY <1>4, <2>2 DEF Save
  <2>4. call' \in Call /\ call'.stage = "conversation" /\ call'.task = t /\ call'.entry = e
    BY <1>1, <1>4, <2>1 DEF Call
  <2>5. TypeOK'
    BY <1>2, <2>2, <2>4 DEF IInv, TypeOK
  <2>6. SentNothing(t)'
    BY <1>2, <2>1, OutsideKept DEF SentNothing
  <2>7. InProgress'
    BY <2>3, <2>4, <2>6, <2>1, <2>2 DEF InProgress, Opening, SentNothing
  <2>8. Creations'
    BY <1>2, <2>2 DEF IInv, Creations
  <2> QED
    BY <2>2, <2>5, <2>7, <2>8 DEF IInv
<1> QED
  BY <1>1, <1>3, <1>4 DEF RecordTarget

\* Nobody else can have a worker that did not exist.
LEMMA CreateConversationStep ==
    ASSUME IInv, NEW v \in Conversations, CreateConversation(v)
    PROVE  IInv' /\ Persists
<1>1. PICK t, e : t = call.task /\ e = call.entry
  OBVIOUS
<1>2. /\ call.stage = "conversation" /\ ~Exists(v)
      /\ Linkable(e.target)
      /\ worker' = [worker EXCEPT ![v] = Fresh(e.target)]
      /\ call' = [call EXCEPT !.stage = "reserve", !.entry.conversation = v, !.revision = 1]
      /\ UNCHANGED <<enabled, tasks, saved, native, holder, created, stopped>>
  BY <1>1 DEF CreateConversation
<1>3. /\ t \in Tasks /\ e \in Task /\ Opening(t, e) /\ Len(e.commands) = 1 /\ SentNothing(t)
      /\ saved[t].conversation = Nothing /\ call \in Call
  BY <1>1, <1>2, OpeningFacts
<1>4. e.target \in Sessions
  BY <1>2 DEF Linkable, IInv, TypeOK
<1>5. /\ worker' \in [Conversations -> Conversation \cup {NoConversation}]
      /\ \A u, i : (Turn(u, i)' <=> Turn(u, i)) /\ (Turn(u, i) => Cmd(u, i)' = Cmd(u, i))
      /\ Exists(v)' /\ Persists /\ (\A u \in Tasks : SentNoMore(u)) /\ Ledger'
  BY <1>2, <1>4, Appears
<1>6. PICK x \in Task : x = [e EXCEPT !.conversation = v] /\ x.conversation = v /\ x.commands = e.commands
  BY <1>3, WorkerUpdate
<1>7. call' = [call EXCEPT !.stage = "reserve", !.entry = x, !.revision = 1]
  BY <1>1, <1>2, <1>6
<1>8. call' \in Call /\ call'.stage = "reserve" /\ call'.entry = x /\ call'.task = t
  <2>1. 1 \in 0..MaxRevision
    BY CoordinationAssumption
  <2>2. PICK k \in Call : k = call
    BY <1>3
  <2>3. LET n == [k EXCEPT !.stage = "reserve", !.entry = x, !.revision = 1]
        IN  n \in Call /\ n.stage = "reserve" /\ n.entry = x /\ n.task = k.task
    BY <2>1 DEF Call
  <2> QED
    BY <1>1, <1>7, <2>2, <2>3
<1>9. TypeOK'
  BY <1>2, <1>5, <1>8 DEF IInv, TypeOK
<1>10. StopsNamed'
  BY <1>2, <1>5, StopsStay DEF IInv
<1>11. Kept(tasks)' /\ Kept(saved)'
  BY <1>2, <1>5, EntriesStay DEF Covered
<1>12. Agree' /\ Creations'
  BY <1>2 DEF IInv, Agree, Creations
<1>13. \A u \in Tasks : tasks[u] # NoTask => tasks[u].conversation # v
  BY <1>2, CoordinationAssumption DEF IInv, Kept, Entry
<1>14. SentNothing(t)'
  BY <1>3, <1>5, SentNothingStays
<1>15. InProgress'
  BY <1>2, <1>3, <1>5, <1>6, <1>8, <1>13, <1>14 DEF InProgress, Reserving, SentNothing
<1> QED
  BY <1>5, <1>9, <1>10, <1>11, <1>12, <1>15 DEF IInv

\* No task has the worker: that is checked when it is taken.
LEMMA StartExistingStep ==
    ASSUME IInv, NEW o \in Conversations, NEW t \in Tasks, NEW c \in Commands,
           NEW v \in Conversations, StartExisting(o, t, c, v)
    PROVE  IInv'
<1>1. /\ tasks[t] = NoTask /\ Exists(v)
      /\ \A u \in Tasks : tasks[u] # NoTask => tasks[u].conversation # v
      /\ UNCHANGED <<enabled, tasks, saved, worker, native, holder, created, stopped>>
  BY DEF StartExisting, outside
<1>2. worker[v] \in Conversation
  BY <1>1 DEF IInv, TypeOK, Exists
<1>3. PICK x \in Task :
         x = [owner |-> o, conversation |-> v, target |-> worker[v].selected,
              commands |-> <<c>>, state |-> "starting"]
  <2>1. <<c>> \in Seq(Commands) /\ worker[v].selected \in Sessions
    BY <1>2 DEF Conversation
  <2>2. [owner |-> o, conversation |-> v, target |-> worker[v].selected,
         commands |-> <<c>>, state |-> "starting"] \in Task
    BY <2>1 DEF Task
  <2> QED
    BY <2>2
<1>4. call' = [task |-> t, stage |-> "reserve", revision |-> worker[v].revision, entry |-> x]
  BY <1>3 DEF StartExisting
<1>5. worker[v].revision \in 0..MaxRevision
  BY <1>2, CoordinationAssumption DEF Conversation
<1>6. call' \in Call /\ call'.stage = "reserve" /\ call'.entry = x /\ call'.task = t
  BY <1>4, <1>5 DEF Call
<1>7. TypeOK'
  BY <1>1, <1>6 DEF IInv, TypeOK
<1>8. Ledger' /\ StopsNamed'
  BY <1>1, OutsideKept, StopsStay DEF IInv, Ledger
<1>9. Persists /\ \A u \in Tasks : SentNoMore(u)
  BY <1>1, OutsideKept
<1>10. Kept(tasks)' /\ Kept(saved)'
  BY <1>1, <1>9, EntriesStay DEF Covered
<1>11. Agree' /\ Creations'
  BY <1>1 DEF IInv, Agree, Creations
<1>12. SentNothing(t) /\ saved[t] = NoTask
  BY <1>1 DEF IInv, Kept, Agree
<1>13. SentNothing(t)'
  BY <1>9, <1>12, SentNothingStays
<1>14. Exists(v)'
  BY <1>1, OutsideKept
<1>15. x.conversation = v /\ Len(x.commands) = 1
  BY <1>3
<1>16. InProgress'
  BY <1>1, <1>6, <1>12, <1>13, <1>14, <1>15 DEF InProgress, Reserving, SentNothing
<1> QED
  BY <1>7, <1>8, <1>10, <1>11, <1>16 DEF IInv

LEMMA ReserveStep == ASSUME IInv, Reserve PROVE IInv'
<1>1. PICK t, e : t = call.task /\ e = call.entry
  OBVIOUS
<1>2. call.stage = "reserve" /\ UNCHANGED <<enabled, worker, native, holder, created, stopped>>
  BY DEF Reserve, outside
<1>3. t \in Tasks /\ e \in Task /\ call \in Call
  BY <1>1, <1>2, CallType DEF IInv
<1>4. Reserving(t, e) /\ Len(e.commands) = 1
  BY <1>1, <1>2 DEF IInv, InProgress
<1>5. Entry(t, e)
  BY <1>4, FirstEntry DEF Reserving
<1>6. CASE Save(t, e) /\ call' = [call EXCEPT !.stage = "chat"]
  <2>1. /\ tasks' \in [Tasks -> Task \cup {NoTask}]
        /\ saved' \in [Tasks -> Task \cup {NoTask}]
        /\ Ledger' /\ Kept(tasks)' /\ Kept(saved)' /\ Agree' /\ StopsNamed'
        /\ tasks'[t] = e /\ e # NoTask
        /\ \A u \in Tasks : saved[u] # NoTask => saved'[u] # NoTask
    BY <1>2, <1>3, <1>4, <1>5, <1>6, SaveForms, Saving DEF Reserving
  <2>2. saved'[t] = e
    BY <1>6, <2>1 DEF Save
  <2>3. call' \in Call /\ call'.stage = "chat" /\ call'.task = t /\ call'.entry = e
    BY <1>1, <1>3, <1>6 DEF Call
  <2>4. TypeOK'
    BY <1>2, <2>1, <2>3 DEF IInv, TypeOK
  <2>5. InProgress'
    BY <1>4, <2>1, <2>2, <2>3 DEF InProgress, Reserving, Dispatching, SameRecord
  <2>6. Creations'
    BY <1>2, <2>1 DEF IInv, Creations
  <2> QED
    BY <2>1, <2>4, <2>5, <2>6 DEF IInv
<1>7. CASE KeepInMemory(t, Uncertain(e)) /\ call' = NoCall
  <2>1. PICK x \in Task : x = Uncertain(e) /\ SameRecord(x, e)
    BY <1>3, UncertainEntry
  <2>2. Entry(t, x) /\ x.conversation = e.conversation
    BY <1>5, <2>1, EntryOfRecord DEF SameRecord
  <2>3. /\ tasks' \in [Tasks -> Task \cup {NoTask}]
        /\ saved' \in [Tasks -> Task \cup {NoTask}]
        /\ Ledger' /\ Kept(tasks)' /\ Kept(saved)' /\ Agree' /\ StopsNamed'
        /\ \A u \in Tasks : saved[u] # NoTask => saved'[u] # NoTask
    BY <1>2, <1>3, <1>4, <1>7, <2>1, <2>2, SaveForms, Saving DEF Reserving
  <2>4. TypeOK'
    BY <1>2, <1>7, <2>3 DEF IInv, TypeOK
  <2>5. InProgress'
    BY <1>7 DEF InProgress, NoCall
  <2>6. Creations'
    BY <1>2, <2>3 DEF IInv, Creations
  <2> QED
    BY <2>3, <2>4, <2>5, <2>6 DEF IInv
<1> QED
  BY <1>1, <1>6, <1>7 DEF Reserve

\* What is on record of the task an operation prompts for.
LEMMA DispatchFacts ==
    ASSUME IInv, NEW t, NEW e, t = call.task, e = call.entry, call.stage \in {"chat", "record"}
    PROVE  /\ t \in Tasks /\ e \in Task /\ call \in Call
           /\ e.conversation \in Conversations /\ e.commands \in Seq(Commands)
           /\ tasks[t] # NoTask /\ saved[t] # NoTask
           /\ SameRecord(e, tasks[t]) /\ SameRecord(e, saved[t])
           /\ Entry(t, tasks[t]) /\ Entry(t, e)
           /\ Exists(e.conversation) /\ Len(e.commands) # 0
<1>1. t \in Tasks /\ e \in Task /\ call \in Call /\ e.commands \in Seq(Commands)
  BY CallType DEF IInv
<1>2. Dispatching(t, e)
  BY DEF IInv, InProgress
<1>3. Entry(t, tasks[t])
  BY <1>1, <1>2 DEF IInv, Kept, Dispatching
<1>4. Entry(t, e)
  BY <1>2, <1>3, EntryOfRecord DEF Dispatching
<1>5. Exists(e.conversation) /\ Len(e.commands) # 0
  BY <1>2, <1>4, CoordinationAssumption DEF Entry, Dispatching
<1> QED
  BY <1>1, <1>2, <1>3, <1>4, <1>5 DEF Dispatching

LEMMA StateUpdate ==
    ASSUME NEW k \in Call, NEW state \in {"active", "uncertain"}
    PROVE  LET n == [k EXCEPT !.stage = "record", !.entry.state = state]
           IN  /\ n \in Call /\ n.stage = "record" /\ n.task = k.task
               /\ SameRecord(n.entry, k.entry)
<1>1. PICK e \in Task : e = k.entry
  BY DEF Call
<1>2. PICK x \in Task : x = [e EXCEPT !.state = state] /\ SameRecord(x, e)
  <2>1. [e EXCEPT !.state = state] \in Task /\ SameRecord([e EXCEPT !.state = state], e)
    BY DEF Task, SameRecord
  <2> QED
    BY <2>1
<1>3. [k EXCEPT !.stage = "record", !.entry.state = state] = [k EXCEPT !.stage = "record", !.entry = x]
  BY <1>1, <1>2 DEF Call
<1>4. LET n == [k EXCEPT !.stage = "record", !.entry = x]
      IN  n \in Call /\ n.stage = "record" /\ n.task = k.task /\ n.entry = x
  BY <1>2 DEF Call
<1> QED
  BY <1>1, <1>2, <1>3, <1>4

LEMMA ChatStep == ASSUME IInv, Chat PROVE IInv' /\ Persists
<1>1. PICK t, e : t = call.task /\ e = call.entry
  OBVIOUS
<1>2. call.stage = "chat" /\ UNCHANGED <<enabled, tasks, saved, native, created, stopped>>
  BY DEF Chat
<1>3. /\ t \in Tasks /\ e \in Task /\ call \in Call
      /\ e.conversation \in Conversations /\ e.commands \in Seq(Commands)
      /\ tasks[t] # NoTask /\ saved[t] # NoTask
      /\ SameRecord(e, tasks[t]) /\ SameRecord(e, saved[t])
      /\ Exists(e.conversation) /\ Len(e.commands) # 0
  BY <1>1, <1>2, DispatchFacts
<1>4. PICK state \in {"active", "uncertain"} :
         call' = [call EXCEPT !.stage = "record", !.entry.state = state]
  BY DEF Chat
<1>5. PICK x : x = call'.entry
  OBVIOUS
<1>6. call' \in Call /\ call'.stage = "record" /\ call'.task = t /\ SameRecord(x, e)
  <2>1. PICK k \in Call : k = call
    BY <1>3
  <2>2. k.task = t /\ k.entry = e /\ e \in Task
    BY <1>1, <1>3, <2>1
  <2>3. call' = [k EXCEPT !.stage = "record", !.entry.state = state]
    BY <1>4, <2>1
  <2> QED
    BY <1>5, <2>2, <2>3, StateUpdate
<1>7. InProgress'
  BY <1>2, <1>3, <1>5, <1>6 DEF InProgress, Dispatching, SameRecord
<1>8. Agree' /\ Creations'
  BY <1>2 DEF IInv, Agree, Creations
<1>9. CASE UNCHANGED <<worker, holder>>
  <2>1. Persists /\ \A u \in Tasks : Covered(u)
    BY <1>9, OutsideKept DEF Covered
  <2>2. Kept(tasks)' /\ Kept(saved)'
    BY <1>2, <2>1, EntriesStay
  <2>3. Ledger' /\ StopsNamed'
    BY <1>2, <1>9, <2>1, OutsideKept, StopsStay DEF IInv, Ledger
  <2>4. TypeOK'
    BY <1>2, <1>6, <1>9 DEF IInv, TypeOK
  <2> QED
    BY <1>7, <1>8, <2>1, <2>2, <2>3, <2>4 DEF IInv
<1>10. CASE /\ Accepts(e.conversation, e.target, Last(e.commands), call.revision)
            /\ Send(e.conversation, e.target, Last(e.commands), t)
  <2>1. PICK v, s, c : v = e.conversation /\ s = e.target /\ c = Last(e.commands)
    OBVIOUS
  <2>. v \in Conversations /\ c \in Commands
    BY <1>3, <2>1 DEF Last
  <2>2. s \in Sessions
    BY <1>3, <1>10, <2>1 DEF Accepts, Exists, IInv, TypeOK, Conversation
  <2>3. /\ worker' \in [Conversations -> Conversation \cup {NoConversation}]
        /\ holder' \in [Sessions -> Commands \cup {Nobody, "direct"}]
        /\ \A u \in Conversations, i \in Nat : Turn(u, i)' /\ ~Turn(u, i) =>
              /\ u = v
              /\ Cmd(u, i)' = [id |-> c, session |-> s, status |-> "running", by |-> t]
        /\ Persists
        /\ Ledger'
    BY <1>3, <1>10, <2>1, <2>2, Sent
  <2>4. Contains(e.commands, c)
    BY <1>3, <2>1 DEF Contains, Last
  <2>5. Covered(t)
    <3>1. \A d \in {tasks[t], saved[t]} :
             d.conversation = v /\ d.target = s /\ Contains(d.commands, c)
      BY <1>3, <2>1, <2>4 DEF SameRecord
    <3> QED
      BY <1>3, <2>3, <3>1 DEF Covered
  <2>6. \A u \in Tasks \ {t} : Covered(u)
    BY <2>3 DEF Covered, SentNoMore
  <2>7. Kept(tasks)' /\ Kept(saved)'
    BY <1>2, <2>3, <2>5, <2>6, EntriesStay
  <2>8. TypeOK'
    BY <1>2, <1>6, <2>3 DEF IInv, TypeOK
  <2>9. StopsNamed'
    BY <1>2, <2>3, StopsStay DEF IInv
  <2> QED
    BY <1>7, <1>8, <2>3, <2>7, <2>8, <2>9 DEF IInv
<1> QED
  BY <1>1, <1>9, <1>10 DEF Chat

LEMMA RecordOutcomeStep == ASSUME IInv, RecordOutcome PROVE IInv'
<1>1. PICK t, e : t = call.task /\ e = call.entry
  OBVIOUS
<1>2. /\ call.stage = "record" /\ call' = NoCall
      /\ Save(t, e) \/ KeepInMemory(t, Uncertain(e))
      /\ UNCHANGED <<enabled, worker, native, holder, created, stopped>>
  BY <1>1 DEF RecordOutcome, outside
<1>3. /\ t \in Tasks /\ e \in Task /\ Entry(t, e) /\ tasks[t] # NoTask /\ e.conversation \in Conversations
      /\ SameRecord(e, tasks[t]) /\ SameRecord(e, saved[t])
  BY <1>1, <1>2, DispatchFacts
<1>4. PICK x \in Task : SameRecord(x, e) /\ (Save(t, x) \/ KeepInMemory(t, x))
  BY <1>2, <1>3, UncertainEntry DEF SameRecord
<1>5. Entry(t, x) /\ x.conversation = tasks[t].conversation /\ x.conversation = saved[t].conversation
  BY <1>3, <1>4, EntryOfRecord DEF SameRecord
<1>6. \A u \in Tasks \ {t} : tasks[u] # NoTask => tasks[u].conversation # x.conversation
  BY <1>3, <1>4, <1>5, CoordinationAssumption DEF IInv, Agree, SameRecord
<1>7. /\ tasks' \in [Tasks -> Task \cup {NoTask}]
      /\ saved' \in [Tasks -> Task \cup {NoTask}]
      /\ Ledger' /\ Kept(tasks)' /\ Kept(saved)' /\ Agree' /\ StopsNamed'
      /\ \A u \in Tasks : saved[u] # NoTask => saved'[u] # NoTask
  BY <1>2, <1>3, <1>4, <1>5, <1>6, SaveForms, Saving
<1>8. TypeOK'
  BY <1>2, <1>7 DEF IInv, TypeOK
<1>9. InProgress'
  BY <1>2 DEF InProgress, NoCall
<1>10. Creations'
  BY <1>2, <1>7 DEF IInv, Creations
<1> QED
  BY <1>7, <1>8, <1>9, <1>10 DEF IInv

\* The last command is complete, so the next one may be put behind it.
LEMMA FollowUpStep ==
    ASSUME IInv, NEW o \in Conversations, NEW t \in Tasks, NEW c \in Commands,
           NEW r \in 1..MaxRevision, FollowUp(o, t, c, r)
    PROVE  IInv'
<1>1. PICK d : d = tasks[t]
  OBVIOUS
<1>2. /\ call = NoCall /\ d # NoTask /\ d.conversation # Nothing
      /\ "complete" \in StatusOf(d.conversation, Last(d.commands))
      /\ UNCHANGED <<enabled, worker, native, holder, created, stopped>>
  BY <1>1 DEF FollowUp, Addressable, Idle, outside
<1>3. d \in Task /\ d.conversation \in Conversations /\ d.commands \in Seq(Commands)
  BY <1>1, <1>2, EntryType DEF IInv, Task
<1>4. Entry(t, d) /\ Exists(d.conversation) /\ Len(d.commands) # 0
  BY <1>1, <1>2 DEF IInv, Kept, Entry
<1>5. PICK commands \in Seq(Commands) : commands = Append(d.commands, c)
  <2>1. Append(d.commands, c) \in Seq(Commands)
    BY <1>3
  <2> QED
    BY <2>1
<1>6. PICK x \in Task :
         /\ x = [d EXCEPT !.commands = commands, !.state = "starting"]
         /\ x.conversation = d.conversation /\ x.target = d.target /\ x.commands = commands
  <2>1. LET x == [d EXCEPT !.commands = commands, !.state = "starting"]
        IN  /\ x \in Task
            /\ x.conversation = d.conversation /\ x.target = d.target /\ x.commands = commands
    BY <1>3 DEF Task
  <2> QED
    BY <2>1
<1>7. Save(t, x) /\ call' = [task |-> t, entry |-> x, revision |-> r, stage |-> "chat"]
  BY <1>1, <1>5, <1>6 DEF FollowUp
<1>8. /\ Len(commands) = Len(d.commands) + 1
      /\ \A i \in 1..Len(d.commands) : commands[i] = d.commands[i]
  BY <1>3, <1>5
<1>9. Done(d.conversation, Last(d.commands))
  <2>1. PICK i \in DOMAIN worker[d.conversation].commands :
           /\ worker[d.conversation].commands[i].id = Last(d.commands)
           /\ worker[d.conversation].commands[i].status = "complete"
    BY <1>2 DEF StatusOf
  <2>2. Turn(d.conversation, i) /\ i \in Nat
    BY <1>3, <1>4, <2>1, TurnType DEF Turn, IInv
  <2> QED
    BY <2>1, <2>2 DEF Done, Cmd
<1>10. Entry(t, x)
  <2>1. Accounts(t, x)
    <3>1. \A z : Contains(d.commands, z) => Contains(x.commands, z)
      BY <1>3, <1>6, <1>8 DEF Contains
    <3> QED
      BY <1>4, <1>6, <3>1 DEF Entry, Accounts
  <2>2. ASSUME NEW i \in 1..(Len(x.commands) - 1) PROVE Done(x.conversation, x.commands[i])
    <3>1. i \in 1..Len(d.commands) /\ x.commands[i] = d.commands[i] /\ x.conversation = d.conversation
      BY <1>3, <1>6, <1>8
    <3>2. CASE i = Len(d.commands)
      BY <1>9, <3>1, <3>2 DEF Last
    <3>3. CASE i # Len(d.commands)
      <4>1. i \in 1..(Len(d.commands) - 1)
        BY <1>3, <3>1, <3>3
      <4> QED
        BY <1>4, <3>1, <4>1 DEF Entry
    <3> QED
      BY <3>2, <3>3
  <2>3. Len(x.commands) # 0
    BY <1>3, <1>6, <1>8
  <2> QED
    BY <1>4, <1>6, <2>1, <2>2, <2>3 DEF Entry
<1>11. \A u \in Tasks \ {t} : tasks[u] # NoTask => tasks[u].conversation # x.conversation
  BY <1>1, <1>2, <1>6 DEF IInv, Agree
<1>12. saved[t] # NoTask => saved[t].conversation \in {Nothing, x.conversation}
  BY <1>1, <1>6 DEF IInv, Agree
<1>13. /\ tasks' \in [Tasks -> Task \cup {NoTask}]
       /\ saved' \in [Tasks -> Task \cup {NoTask}]
       /\ Ledger' /\ Kept(tasks)' /\ Kept(saved)' /\ Agree' /\ StopsNamed'
       /\ tasks'[t] = x /\ x # NoTask
       /\ \A u \in Tasks : saved[u] # NoTask => saved'[u] # NoTask
  BY <1>2, <1>7, <1>10, <1>11, <1>12, SaveForms, Saving
<1>14. saved'[t] = x
  BY <1>7, <1>13 DEF Save
<1>15. call' \in Call /\ call'.stage = "chat" /\ call'.task = t /\ call'.entry = x
  BY <1>7, CoordinationAssumption DEF Call
<1>16. TypeOK'
  BY <1>2, <1>13, <1>15 DEF IInv, TypeOK
<1>17. InProgress'
  BY <1>3, <1>6, <1>13, <1>14, <1>15 DEF InProgress, Dispatching, SameRecord
<1>18. Creations'
  BY <1>2, <1>13 DEF IInv, Creations
<1> QED
  BY <1>13, <1>16, <1>17, <1>18 DEF IInv

----------------------------------------
(* The process.                                                                  *)

LEMMA InterruptedType ==
    ASSUME NEW d \in Command
    PROVE  /\ Interrupted(d) \in Command
           /\ Interrupted(d).id = d.id /\ Interrupted(d).session = d.session
           /\ Interrupted(d).by = d.by
           /\ Interrupted(d).status = d.status \/ d.status = "running"
           /\ Interrupted(d).status # "running"
  BY DEF Interrupted, Command

LEMMA AfterwardsType ==
    ASSUME NEW e \in Task
    PROVE  Afterwards(e) \in Task /\ SameRecord(Afterwards(e), e)
<1>1. Uncertain(e) \in Task /\ SameRecord(Uncertain(e), e)
  BY UncertainEntry
<1> QED
  BY <1>1 DEF Afterwards, SameRecord

\* The turns that run are recorded as interrupted, in conversations as they were.
LEMMA RestartWorker ==
    ASSUME IInv, Restart
    PROVE  /\ worker' \in [Conversations -> Conversation \cup {NoConversation}]
           /\ Persists /\ (\A t \in Tasks : SentNoMore(t)) /\ Ledger'
<1>1. /\ worker' = [v \in Conversations |->
                      IF Exists(v)
                      THEN [worker[v] EXCEPT !.commands =
                              [i \in DOMAIN worker[v].commands |-> Interrupted(worker[v].commands[i])]]
                      ELSE NoConversation]
  BY DEF Restart
<1>2. ASSUME NEW v \in Conversations, Exists(v)
      PROVE  /\ worker'[v] \in Conversation
             /\ DOMAIN worker'[v].commands = DOMAIN worker[v].commands
             /\ \A i \in DOMAIN worker[v].commands :
                   worker'[v].commands[i] = Interrupted(worker[v].commands[i])
  <2>1. PICK w \in Conversation : w = worker[v]
    BY <1>2 DEF IInv, TypeOK, Exists
  <2>2. PICK n \in Nat : n = Len(w.commands) /\ w.commands \in [1..n -> Command]
    BY DEF Conversation
  <2>3. PICK commands : commands = [i \in DOMAIN w.commands |-> Interrupted(w.commands[i])]
    OBVIOUS
  <2>4. commands \in [1..n -> Command]
    BY <2>2, <2>3, InterruptedType
  <2>5. commands \in Seq(Command)
    BY <2>4
  <2>6. [w EXCEPT !.commands = commands] \in Conversation
        /\ [w EXCEPT !.commands = commands].commands = commands
    BY <2>5, CommandsUpdate
  <2>7. worker'[v] = [w EXCEPT !.commands = commands]
    BY <1>1, <1>2, <2>1, <2>3
  <2> QED
    BY <2>1, <2>3, <2>6, <2>7
<1>3. \A v \in Conversations : ~Exists(v) => worker'[v] = NoConversation
  BY <1>1
<1>4. worker' \in [Conversations -> Conversation \cup {NoConversation}]
  BY <1>1, <1>2, <1>3
<1>5. \A v \in Conversations : Exists(v)' <=> Exists(v)
  BY <1>2, <1>3 DEF Exists, NoConversation, Conversation
<1>6. ASSUME NEW v \in Conversations, NEW i \in Nat, Turn(v, i)
      PROVE  Cmd(v, i)' = Interrupted(Cmd(v, i)) /\ Cmd(v, i) \in Command
  BY <1>2, <1>6, TurnType DEF IInv, Turn, Cmd
<1>7. Persists /\ (\A t \in Tasks : SentNoMore(t)) /\ Ledger'
  BY <1>2, <1>4, <1>5, <1>6, InterruptedType, StatusOnly
<1> QED
  BY <1>4, <1>7

LEMMA RestartStep == ASSUME IInv, Restart PROVE IInv' /\ Persists
<1>1. /\ tasks' = [t \in Tasks |-> Afterwards(saved[t])]
      /\ call' = NoCall
      /\ holder' = [s \in Sessions |-> Nobody]
      /\ UNCHANGED <<enabled, saved, native, created, stopped>>
  BY DEF Restart
<1>2. /\ worker' \in [Conversations -> Conversation \cup {NoConversation}]
      /\ Persists /\ (\A t \in Tasks : SentNoMore(t)) /\ Ledger'
  BY RestartWorker
<1>3. \A t \in Tasks : Covered(t)
  BY <1>2 DEF Covered
<1>4. Kept(saved)'
  BY <1>1, <1>2, <1>3, FileStays
<1>5. ASSUME NEW t \in Tasks
      PROVE  IF saved[t] = NoTask THEN tasks'[t] = NoTask
             ELSE tasks'[t] \in Task /\ SameRecord(tasks'[t], saved[t])
  <2>1. CASE saved[t] = NoTask
    BY <1>1, <2>1 DEF Afterwards, NoTask
  <2>2. CASE saved[t] # NoTask
    BY <1>1, <2>2, EntryType, AfterwardsType DEF IInv
  <2> QED
    BY <2>1, <2>2
<1>6. Kept(tasks)'
  <2> SUFFICES ASSUME NEW t \in Tasks
               PROVE  IF tasks'[t] = NoTask THEN SentNothing(t)' ELSE Entry(t, tasks[t])'
    BY DEF Kept
  <2>1. PICK e, x : e = saved[t] /\ x = tasks'[t]
    OBVIOUS
  <2>2. IF e = NoTask THEN SentNothing(t)' ELSE Entry(t, e)'
    BY <1>2, <1>3, <2>1, EntryPersists
  <2>3. CASE e = NoTask
    BY <1>5, <2>1, <2>2, <2>3
  <2>4. CASE e # NoTask
    <3>1. SameRecord(x, e)
      BY <1>5, <2>1, <2>4
    <3>2. Entry(t, x)'
      BY <2>2, <2>4, <3>1 DEF Entry, Accounts, SameRecord
    <3>3. x # NoTask
      BY <1>5, <2>1, <2>4, NoTaskIsNone
    <3> QED
      BY <2>1, <3>2, <3>3 DEF Entry, Accounts
  <2> QED
    BY <2>3, <2>4
<1>7. \A t \in Tasks : saved[t] # NoTask <=> tasks'[t] # NoTask
  BY <1>5, NoTaskIsNone
<1>8. \A t \in Tasks : saved[t] # NoTask => tasks'[t].conversation = saved[t].conversation
  BY <1>5 DEF SameRecord
<1>9. Agree'
  BY <1>1, <1>7, <1>8 DEF IInv, Agree
<1>10. InProgress' /\ Creations'
  BY <1>1 DEF IInv, InProgress, Creations, NoCall
<1>11. StopsNamed'
  BY <1>1, <1>2, StopsStay DEF IInv
<1>12. tasks' \in [Tasks -> Task \cup {NoTask}]
  BY <1>1, <1>5 DEF IInv, TypeOK
<1>13. TypeOK'
  BY <1>1, <1>2, <1>12 DEF IInv, TypeOK
<1> QED
  BY <1>2, <1>4, <1>6, <1>9, <1>10, <1>11, <1>13 DEF IInv

LEMMA InitIInv == Init => IInv
<1> SUFFICES ASSUME Init PROVE IInv
  OBVIOUS
<1>1. PICK p \in Prepared :
         /\ worker = [v \in Conversations |->
                        IF v \in DOMAIN p THEN Fresh(p[v]) ELSE NoConversation]
         /\ native = {p[v] : v \in DOMAIN p}
  BY DEF Init
<1>2. DOMAIN p \subseteq Conversations /\ \A v \in DOMAIN p : p[v] \in Sessions
  BY CoordinationAssumption
<1>3. \A s \in Sessions : Fresh(s) \in Conversation /\ Fresh(s).commands = <<>>
  BY CoordinationAssumption DEF Fresh, Conversation
<1>4. worker \in [Conversations -> Conversation \cup {NoConversation}] /\ native \in SUBSET Sessions
  BY <1>1, <1>2, <1>3
<1>5. TypeOK
  BY <1>4 DEF Init, TypeOK
<1>6. \A v, i : ~Turn(v, i)
  BY <1>1, <1>2, <1>3 DEF Turn, Exists
<1>7. Ledger
  BY <1>6 DEF Ledger
<1>8. Kept(tasks) /\ Kept(saved)
  BY <1>6 DEF Init, Kept, SentNothing
<1>9. Agree /\ InProgress /\ Creations /\ StopsNamed
  BY DEF Init, Agree, InProgress, NoCall, Creations, StopsNamed
<1> QED
  BY <1>5, <1>7, <1>8, <1>9 DEF IInv

LEMMA NextIInv == IInv /\ [Next]_vars => IInv'
<1> SUFFICES ASSUME IInv, [Next]_vars PROVE IInv'
  OBVIOUS
<1>1. ASSUME NEW v \in Conversations, NEW s \in Sessions, ManualSwitch(v, s) \/ ManualCreate(v, s)
      PROVE  IInv'
  BY <1>1, SwitchStep, CreateStep
<1>2. ASSUME NEW v \in Conversations, NEW c \in Commands, ManualPrompt(v, c)
      PROVE  IInv'
  BY <1>2, PromptStep
<1>3. ASSUME NEW v \in Conversations, NEW status \in {"complete", "uncertain"}, Exists(v),
             NEW i \in DOMAIN worker[v].commands, RecordTurn(v, i, status)
      PROVE  IInv'
  BY <1>3, RecordStep
<1>4. ASSUME NEW v \in Conversations, SetMode(v) PROVE IInv'
  BY <1>4, ModeStep
<1>5. ASSUME NEW s \in Sessions, DirectPrompt(s) \/ ReleaseTurn(s) PROVE IInv'
  BY <1>5, HolderSteps
<1>6. ASSUME NEW o \in Conversations, NEW t \in Tasks, NEW c \in Commands,
             \/ StartCreate(o, t, c)
             \/ \E v \in Conversations : StartExisting(o, t, c, v)
             \/ \E r \in 1..MaxRevision : FollowUp(o, t, c, r)
      PROVE  IInv'
  BY <1>6, StartCreateStep, StartExistingStep, FollowUpStep
<1>7. ASSUME NEW o \in Conversations, NEW t \in Tasks, Stop(o, t) PROVE IInv'
  BY <1>7, StopStep
<1>8. CASE Continue
  BY <1>8, CreateSessionStep, CreateConversationStep, FailureSteps, RecordTargetStep, ReserveStep,
     ChatStep, RecordOutcomeStep DEF Continue
<1>9. CASE Restart
  BY <1>9, RestartStep
<1>10. CASE UNCHANGED vars
  <2>1. /\ UNCHANGED <<enabled, tasks, saved, call, worker, native, holder, created, stopped>>
    BY <1>10 DEF vars, outside
  <2>2. TypeOK'
    BY <2>1 DEF IInv, TypeOK
  <2>3. Ledger'
    BY <2>1, OutsideKept DEF IInv, Ledger
  <2> QED
    BY <2>1, <2>2, <2>3, OutsideKept, StopsStay, TasksAlone DEF IInv
<1> QED
  BY <1>1, <1>2, <1>3, <1>4, <1>5, <1>6, <1>7, <1>8, <1>9, <1>10 DEF Next

----------------------------------------

\* Everything a task did is accounted for through failed saves and restarts: one session
\* was created for it at most, every prompt it sent is in the file with its worker, and
\* each was sent only after the one before had completed.
THEOREM TasksAreAccountedFor == Spec => []TasksKeepAccount
<1>1. IInv => TasksKeepAccount
  <2> SUFFICES ASSUME IInv PROVE TasksKeepAccount
    OBVIOUS
  <2>1. CreatesOnce
    BY DEF IInv, TypeOK, Creations, CreatesOnce
  <2>2. ASSUME NEW v \in Conversations, Exists(v), NEW i \in DOMAIN worker[v].commands
        PROVE  Turn(v, i) /\ Cmd(v, i) = worker[v].commands[i] /\ i \in Nat
    BY <2>2, TurnType DEF IInv, Turn, Cmd
  <2>3. SentIsReserved
    BY <2>2 DEF IInv, Kept, SentNothing, Entry, Accounts, SentIsReserved
  <2>4. ASSUME NEW t \in Tasks, tasks[t] # NoTask, NEW n \in 1..(Len(tasks[t].commands) - 1)
        PROVE  StatusOf(tasks[t].conversation, tasks[t].commands[n]) = {"complete"}
    <3>1. PICK v, c : v = tasks[t].conversation /\ c = tasks[t].commands[n]
      OBVIOUS
    <3>2. PICK i \in Nat : Turn(v, i) /\ Cmd(v, i).id = c /\ Cmd(v, i).status = "complete"
      BY <2>4, <3>1 DEF IInv, Kept, Entry, Done
    <3>3. v \in Conversations /\ Exists(v) /\ i \in DOMAIN worker[v].commands
      BY <3>2 DEF Turn
    <3>4. \A j \in DOMAIN worker[v].commands : worker[v].commands[j].id = c => j = i
      BY <2>2, <3>2, <3>3 DEF IInv, Ledger
    <3>5. worker[v].commands[i].id = c /\ worker[v].commands[i].status = "complete"
      BY <3>2 DEF Cmd
    <3>6. StatusOf(v, c) = {"complete"}
      BY <3>3, <3>4, <3>5 DEF StatusOf
    <3> QED
      BY <3>1, <3>6
  <2>5. PriorCommandsComplete
    BY <2>4 DEF PriorCommandsComplete
  <2>6. TypeOK
    BY DEF IInv
  <2> QED
    BY <2>1, <2>3, <2>5, <2>6 DEF TasksKeepAccount
<1> QED
  BY <1>1, InitIInv, NextIInv, PTL DEF Spec

----------------------------------------
(* Whom a stop reaches.  An active task was told that its last prompt was taken,  *)
(* and so it was: by its entry in memory, by that in the file and by that of the  *)
(* operation in progress.                                                         *)

Acknowledged(t, e) == e.state = "active" => Last(e.commands) \in SentBy(t)

Acks ==
    /\ \A t \in Tasks : Acknowledged(t, tasks[t]) /\ Acknowledged(t, saved[t])
    /\ call.stage # "none" => Acknowledged(call.task, call.entry)
    /\ \A x \in stopped : x.state = "active" => x.turn \in SentBy(x.task)

LEMMA StepPersists == IInv /\ [Next]_vars => Persists
<1> SUFFICES ASSUME IInv, [Next]_vars PROVE Persists
  OBVIOUS
<1>1. CASE worker' = worker
  BY <1>1, OutsideKept
<1>2. ASSUME NEW v \in Conversations, NEW s \in Sessions, ManualSwitch(v, s) \/ ManualCreate(v, s)
      PROVE  Persists
  BY <1>2, SwitchStep, CreateStep
<1>3. ASSUME NEW v \in Conversations, NEW c \in Commands, ManualPrompt(v, c) PROVE Persists
  BY <1>3, PromptStep
<1>4. ASSUME NEW v \in Conversations, NEW status \in {"complete", "uncertain"}, Exists(v),
             NEW i \in DOMAIN worker[v].commands, RecordTurn(v, i, status)
      PROVE  Persists
  BY <1>4, RecordStep
<1>5. ASSUME NEW v \in Conversations, CreateConversation(v) PROVE Persists
  BY <1>5, CreateConversationStep
<1>6. CASE Chat \/ Restart
  BY <1>6, ChatStep, RestartStep
<1>7. ASSUME NEW o \in Conversations, NEW t \in Tasks, NEW c \in Commands,
             NEW v \in Conversations, NEW k,
             StartCreate(o, t, c) \/ StartExisting(o, t, c, v) \/ FollowUp(o, t, c, k)
      PROVE  worker' = worker
  BY <1>7 DEF outside, StartCreate, StartExisting, FollowUp
<1>8. ASSUME NEW o \in Conversations, NEW t \in Tasks, Stop(o, t) PROVE worker' = worker
  BY <1>8 DEF outside, Stop
<1>9. CASE UNCHANGED vars
  BY <1>9, <1>1 DEF vars, outside
<1>10. ASSUME Continue PROVE Persists
  <2>1. (\E s \in Sessions : CreateSession(s)) => worker' = worker
    BY DEF CreateSession
  <2>2. CreateFails \/ RecordTarget \/ ConversationFails \/ Reserve \/ RecordOutcome
           => worker' = worker
    BY DEF outside, CreateFails, RecordTarget, ConversationFails, Reserve, RecordOutcome
  <2> QED
    BY <1>1, <1>5, <1>6, <1>10, <2>1, <2>2 DEF Continue
<1>11. ASSUME NEW v \in Conversations, SetMode(v) PROVE Persists
  BY <1>1, <1>11 DEF SetMode, outside
<1>12. ASSUME NEW s \in Sessions, DirectPrompt(s) \/ ReleaseTurn(s) PROVE Persists
  BY <1>1, <1>12 DEF DirectPrompt, ReleaseTurn
<1> QED
  BY <1>1, <1>2, <1>3, <1>4, <1>6, <1>7, <1>8, <1>9, <1>10, <1>11, <1>12 DEF Next

\* What a task sent it has sent.
LEMMA SentByGrows ==
    ASSUME TypeOK, Persists, NEW t \in Tasks, NEW c \in SentBy(t)
    PROVE  c \in SentBy(t)'
<1>1. PICK v \in Conversations : Exists(v) /\ \E i \in DOMAIN worker[v].commands :
              worker[v].commands[i].id = c /\ worker[v].commands[i].by = t
  BY DEF SentBy
<1>2. PICK i \in DOMAIN worker[v].commands :
              worker[v].commands[i].id = c /\ worker[v].commands[i].by = t
  BY <1>1
<1>3. Turn(v, i) /\ Cmd(v, i).id = c /\ Cmd(v, i).by = t /\ i \in Nat
  BY <1>1, <1>2, TurnType DEF Turn, Cmd
<1>4. Turn(v, i)' /\ Cmd(v, i)'.id = c /\ Cmd(v, i)'.by = t
  BY <1>3 DEF Persists
<1> QED
  BY <1>4 DEF SentBy, Turn, Cmd

\* The prompt of a task that its conversation took is on record.
LEMMA SentIsRecorded ==
    ASSUME IInv, NEW v \in Conversations, NEW s, NEW c \in Commands,
           NEW who, NEW r, Accepts(v, s, c, r), Send(v, s, c, who)
    PROVE  c \in SentBy(who)'
<1> DEFINE d == [id |-> c, session |-> s, status |-> "running", by |-> who]
           old == worker[v].commands
           new == [worker[v] EXCEPT !.commands = Append(old, d)]
<1>1. Exists(v) /\ worker' = [worker EXCEPT ![v] = new]
  BY DEF Accepts, Send
<1>2. worker[v] \in Conversation /\ old \in Seq(Command)
  BY <1>1 DEF IInv, TypeOK, Exists, Conversation
<1>3. new.commands = Append(old, d) /\ new.revision \in 1..MaxRevision
  BY <1>2 DEF Conversation
<1>4. worker'[v] = new
  BY <1>1 DEF IInv, TypeOK
<1>5. Exists(v)'
  BY <1>3, <1>4 DEF Exists, NoConversation
<1>6. /\ Len(old) + 1 \in DOMAIN worker'[v].commands
      /\ worker'[v].commands[Len(old) + 1] = d
  BY <1>2, <1>3, <1>4
<1>7. d.id = c /\ d.by = who
  OBVIOUS
<1> QED
  BY <1>5, <1>6, <1>7 DEF SentBy

\* No step but Chat makes an entry active: the others keep entries or copy one.
LEMMA AcksStay ==
    ASSUME IInv, IInv', Persists, Acks,
           \A t \in Tasks : \/ tasks'[t] = tasks[t] \/ tasks'[t] = saved[t]
                            \/ call.stage # "none" /\ t = call.task /\ tasks'[t] = call.entry
                            \/ tasks'[t].state # "active",
           \A t \in Tasks : \/ saved'[t] = tasks[t] \/ saved'[t] = saved[t]
                            \/ call.stage # "none" /\ t = call.task /\ saved'[t] = call.entry
                            \/ saved'[t].state # "active",
           call'.stage # "none" =>
              \/ /\ call.stage # "none" /\ call'.task = call.task
                 /\ call'.entry.state = call.entry.state
                 /\ call'.entry.commands = call.entry.commands
              \/ call'.entry.state # "active"
              \/ Last(call'.entry.commands) \in SentBy(call.task)',
           \A x \in stopped' \ stopped : x.state = "active" => x.turn \in SentBy(x.task)
    PROVE  Acks'
<1>1. \A t \in Tasks : \A c \in SentBy(t) : c \in SentBy(t)'
  BY SentByGrows DEF IInv
<1>2. call.stage # "none" => call.task \in Tasks
  BY CallType DEF IInv
<1>3. \A t \in Tasks : Acknowledged(t, tasks[t])' /\ Acknowledged(t, saved[t])'
  BY <1>1, <1>2 DEF Acks, Acknowledged
<1>4. ASSUME call'.stage # "none", call'.entry.state = "active"
      PROVE  Last(call'.entry.commands) \in SentBy(call.task)'
  <2>1. CASE /\ call.stage # "none" /\ call'.task = call.task
             /\ call'.entry.state = call.entry.state
             /\ call'.entry.commands = call.entry.commands
    <3>1. PICK t \in Tasks : t = call.task
      BY <1>2, <2>1
    <3>2. PICK commands : commands = call.entry.commands
      OBVIOUS
    <3>3. Last(commands) \in SentBy(t)
      BY <1>4, <2>1, <3>1, <3>2 DEF Acks, Acknowledged
    <3>4. Last(commands) \in SentBy(t)'
      BY <1>1, <3>3
    <3> QED
      BY <2>1, <3>1, <3>2, <3>4 DEF SentBy
  <2> QED
    BY <1>4, <2>1
<1>5. \A x \in stopped' : x.state = "active" => x.turn \in SentBy(x.task)'
  <2>1. \A x \in stopped' \ stopped : x.state = "active" => x.turn \in SentBy(x.task)
    OBVIOUS
  <2>2. \A x \in stopped' : x.task \in Tasks
    BY DEF IInv, TypeOK
  <2> QED
    BY <1>1, <2>1, <2>2 DEF Acks
<1> QED
  BY <1>3, <1>4, <1>5 DEF Acks, Acknowledged

LEMMA NextAcks == IInv /\ IInv' /\ Acks /\ [Next]_vars => Acks'
<1> SUFFICES ASSUME IInv, IInv', Acks, [Next]_vars PROVE Acks'
  OBVIOUS
<1>1. Persists
  BY StepPersists
<1>2. CASE UNCHANGED <<tasks, saved, call, stopped>>
  BY <1>1, <1>2, AcksStay
<1>3. ASSUME NEW t \in Tasks, NEW e, Save(t, e) \/ KeepInMemory(t, e), stopped' = stopped,
             e.state # "active" \/ (call.stage # "none" /\ t = call.task /\ e = call.entry),
             \/ call'.stage = "none" \/ call'.entry.state # "active"
             \/ /\ call.stage # "none" /\ call'.task = call.task
                /\ call'.entry = call.entry
      PROVE  Acks'
  <2>1. \A u \in Tasks : tasks'[u] = (IF u = t THEN e ELSE tasks[u])
    BY <1>3 DEF Save, KeepInMemory, IInv, TypeOK
  <2>2. \A u \in Tasks : saved'[u] = tasks'[u] \/ saved'[u] = saved[u]
    BY <1>3 DEF Save, KeepInMemory
  <2> QED
    BY <1>1, <1>3, <2>1, <2>2, AcksStay
<1>4. \A e \in Task : Uncertain(e).state = "uncertain"
  BY DEF Uncertain, Task
<1>5. ASSUME NEW o \in Conversations, NEW t \in Tasks, NEW c \in Commands, StartCreate(o, t, c)
      PROVE  Acks'
  BY <1>3, <1>5 DEF StartCreate
<1>6. ASSUME NEW o \in Conversations, NEW t \in Tasks, NEW c \in Commands,
             NEW v \in Conversations, StartExisting(o, t, c, v)
      PROVE  Acks'
  BY <1>1, <1>6, AcksStay DEF StartExisting
<1>7. ASSUME NEW o \in Conversations, NEW t \in Tasks, NEW c \in Commands, NEW k,
             FollowUp(o, t, c, k)
      PROVE  Acks'
  <2>1. PICK e : /\ e = [tasks[t] EXCEPT !.commands = Append(tasks[t].commands, c), !.state = "starting"]
                 /\ Save(t, e) /\ stopped' = stopped
                 /\ call' = [task |-> t, entry |-> e, revision |-> k, stage |-> "chat"]
    BY <1>7 DEF FollowUp
  <2>2. tasks[t] \in Task
    BY <1>7 DEF FollowUp, Addressable, IInv, TypeOK
  <2>3. e.state = "starting"
    BY <2>1, <2>2 DEF Task
  <2> QED
    BY <1>3, <2>1, <2>3
<1>8. ASSUME NEW o \in Conversations, NEW t \in Tasks, Stop(o, t) PROVE Acks'
  <2>1. /\ UNCHANGED <<tasks, saved, call>>
        /\ stopped' = stopped \cup {Interrupt(t)}
    BY <1>8 DEF Stop
  <2>2. Interrupt(t).turn = Interrupt(t).last
    BY <2>1 DEF IInv, StopsNamed
  <2>3. Interrupt(t).state = "active" => Interrupt(t).turn \in SentBy(t)
    BY <2>2 DEF Interrupt, Acks, Acknowledged
  <2>4. Interrupt(t).task = t
    BY DEF Interrupt
  <2> QED
    BY <1>1, <2>1, <2>3, <2>4, AcksStay
<1>9. ASSUME call.stage # "none", NEW k \in Call, k = call, stopped' = stopped,
             NEW s, \/ CreateSession(s) \/ CreateFails \/ RecordTarget
                    \/ ConversationFails \/ Reserve \/ RecordOutcome
      PROVE  Acks'
  <2>1. call.task \in Tasks /\ call.entry \in Task
    BY <1>9, CallType DEF IInv
  <2>2. Uncertain(call.entry).state = "uncertain"
    BY <1>4, <2>1
  <2>3. ASSUME GiveUp(call.task, call.entry) PROVE Acks'
    BY <1>3, <1>9, <2>1, <2>2, <2>3 DEF GiveUp, NoCall
  <2>4. CASE CreateSession(s)
    <3>1. CASE /\ call' = [call EXCEPT !.stage = "target", !.entry.target = s]
               /\ UNCHANGED <<tasks, saved>>
      <4>1. LET n == [k EXCEPT !.stage = "target", !.entry.target = s]
            IN  /\ n.task = k.task /\ n.entry.state = k.entry.state
                /\ n.entry.commands = k.entry.commands
        BY DEF Call, Task
      <4> QED
        BY <1>1, <1>9, <3>1, <4>1, AcksStay
    <3> QED
      BY <2>3, <2>4, <3>1 DEF CreateSession
  <2>5. CASE RecordTarget \/ Reserve
    <3>1. ASSUME NEW at, call' = [call EXCEPT !.stage = at]
          PROVE  call'.task = call.task /\ call'.entry = call.entry
      BY <1>9, <3>1 DEF Call
    <3>2. ASSUME Save(call.task, call.entry), NEW at, call' = [call EXCEPT !.stage = at]
          PROVE  Acks'
      BY <1>3, <1>9, <2>1, <3>1, <3>2
    <3>3. ASSUME KeepInMemory(call.task, Uncertain(call.entry)), call' = NoCall
          PROVE  Acks'
      BY <1>3, <1>9, <2>1, <2>2, <3>3 DEF NoCall
    <3> QED
      BY <2>3, <2>5, <3>2, <3>3 DEF RecordTarget, Reserve
  <2>6. CASE RecordOutcome
    BY <1>3, <1>9, <2>1, <2>2, <2>6 DEF RecordOutcome, NoCall
  <2> QED
    BY <1>9, <2>3, <2>4, <2>5, <2>6 DEF CreateFails, ConversationFails
<1>10. ASSUME NEW v \in Conversations, CreateConversation(v) PROVE Acks'
  <2>1. call.stage = "conversation" /\ UNCHANGED <<tasks, saved, stopped>>
        /\ call' = [call EXCEPT !.stage = "reserve", !.entry.conversation = v, !.revision = 1]
    BY <1>10 DEF CreateConversation
  <2>2. PICK k \in Call : k = call
    BY <2>1, CallType DEF IInv
  <2>3. LET n == [k EXCEPT !.stage = "reserve", !.entry.conversation = v, !.revision = 1]
        IN  /\ n.task = k.task /\ n.entry.state = k.entry.state
            /\ n.entry.commands = k.entry.commands
    BY DEF Call, Task
  <2> QED
    BY <1>1, <2>1, <2>2, <2>3, AcksStay
<1>11. CASE Chat
  <2>1. call.stage = "chat" /\ UNCHANGED <<tasks, saved, stopped>>
    BY <1>11 DEF Chat
  <2>2. PICK k \in Call : k = call
    BY <2>1, CallType DEF IInv
  <2>3. \A state \in {"active", "uncertain"} :
           LET n == [k EXCEPT !.stage = "record", !.entry.state = state]
           IN  /\ n.task = k.task /\ n.entry.state = state /\ n.entry.commands = k.entry.commands
    BY DEF Call, Task
  <2>4. CASE call' = [call EXCEPT !.stage = "record", !.entry.state = "uncertain"]
    BY <1>1, <2>1, <2>2, <2>3, <2>4, AcksStay
  <2>5. CASE /\ call' = [call EXCEPT !.stage = "record", !.entry.state = "active"]
             /\ Accepts(call.entry.conversation, call.entry.target, Last(call.entry.commands), call.revision)
             /\ Send(call.entry.conversation, call.entry.target, Last(call.entry.commands), call.task)
    <3>1. PICK v, c, t : v = call.entry.conversation /\ c = Last(call.entry.commands) /\ t = call.task
      OBVIOUS
    <3>2. v \in Conversations /\ c \in Commands
      BY <2>1, <3>1, DispatchFacts DEF Last
    <3>3. c \in SentBy(t)'
      BY <2>5, <3>1, <3>2, SentIsRecorded
    <3>4. call'.task = t /\ Last(call'.entry.commands) = c
      BY <2>2, <2>3, <2>5, <3>1
    <3>5. Last(call'.entry.commands) \in SentBy(call.task)'
      BY <3>3, <3>4 DEF SentBy
    <3> QED
      BY <1>1, <2>1, <3>5, AcksStay
  <2> QED
    BY <1>11, <2>4, <2>5 DEF Chat
<1>12. CASE Restart
  <2>1. \A t \in Tasks : tasks'[t] = saved[t] \/ tasks'[t].state # "active"
    <3>1. \A t \in Tasks : tasks'[t] = Afterwards(saved[t])
      BY <1>12 DEF Restart
    <3>2. \A e \in Task : Afterwards(e) = e \/ Afterwards(e).state = "uncertain"
      BY <1>4 DEF Afterwards
    <3>3. Afterwards(NoTask) = NoTask
      BY DEF Afterwards, NoTask
    <3> QED
      BY <3>1, <3>2, <3>3 DEF IInv, TypeOK
  <2>2. UNCHANGED <<saved, stopped>> /\ call'.stage = "none"
    BY <1>12 DEF Restart, NoCall
  <2> QED
    BY <1>1, <2>1, <2>2, AcksStay
<1>13. CASE Continue
  <2>1. ASSUME NEW s, \/ CreateSession(s) \/ CreateFails \/ RecordTarget
                      \/ ConversationFails \/ Reserve \/ RecordOutcome
        PROVE  call.stage # "none" /\ stopped' = stopped
    BY <2>1 DEF CreateSession, CreateFails, RecordTarget, ConversationFails, Reserve, RecordOutcome
  <2>2. call.stage # "none" => call \in Call
    BY CallType DEF IInv
  <2> QED
    BY <1>9, <1>10, <1>11, <1>13, <2>1, <2>2 DEF Continue
<1>14. ASSUME NEW v \in Conversations, NEW s \in Sessions, ManualSwitch(v, s) \/ ManualCreate(v, s)
       PROVE  Acks'
  BY <1>2, <1>14 DEF ManualSwitch, ManualCreate
<1>15. ASSUME NEW v \in Conversations, NEW c \in Commands, ManualPrompt(v, c) PROVE Acks'
  BY <1>2, <1>15 DEF ManualPrompt
<1>16. ASSUME NEW v \in Conversations, NEW i, NEW status, RecordTurn(v, i, status) \/ SetMode(v)
       PROVE  Acks'
  BY <1>2, <1>16 DEF RecordTurn, SetMode
<1>17. ASSUME NEW s \in Sessions, DirectPrompt(s) \/ ReleaseTurn(s) PROVE Acks'
  BY <1>2, <1>17 DEF DirectPrompt, ReleaseTurn
<1>18. CASE UNCHANGED vars
  BY <1>2, <1>18 DEF vars
<1> QED
  BY <1>5, <1>6, <1>7, <1>8, <1>12, <1>13, <1>14, <1>15, <1>16, <1>17, <1>18 DEF Next

\* For any tasks and commands, whoever chose them: a stop reaches the turn with the
\* identity of the task's last prompt, and of a task that was told its prompt was
\* taken it is the one the task sent.
THEOREM StopsReachTheirTurn == Spec => []StopsItsTurn
<1>1. Init => Acks
  BY DEF Init, Acks, Acknowledged, NoTask, NoCall
<1>2. IInv /\ Acks => StopsItsTurn
  BY DEF IInv, StopsNamed, Acks, StopsItsTurn
<1> QED
  BY <1>1, <1>2, InitIInv, NextIInv, NextAcks, PTL DEF Spec

\* No two tasks have the same worker, nor do they after a restart.
THEOREM WorkersAreNotShared ==
    Spec => []\A t, u \in Tasks :
                 tasks[t] # NoTask /\ tasks[u] # NoTask /\ tasks[t].conversation # Nothing
                    /\ tasks[t].conversation = tasks[u].conversation => t = u
<1>1. IInv => \A t, u \in Tasks :
                 tasks[t] # NoTask /\ tasks[u] # NoTask /\ tasks[t].conversation # Nothing
                    /\ tasks[t].conversation = tasks[u].conversation => t = u
  BY DEF IInv, Agree
<1> QED
  BY <1>1, InitIInv, NextIInv, PTL DEF Spec
========================================
