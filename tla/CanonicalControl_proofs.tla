------------------------ MODULE CanonicalControl_proofs ------------------------
(* Theorems about CanonicalControl for any actions, sessions, models, requests *)
(* and commands, and every bound.                                              *)
EXTENDS CanonicalControl, TLAPS

--------------------------------------------------------------------------------
(* The inductive invariant.  What an action has done so far is told by its       *)
(* receipt and, while it runs, by its handler.                                  *)

Known(a) == receipts[a] # NoReceipt
Status(a) == receipts[a].status

\* A receipt is of its own action, and only a model control goes on without locks.
Filed(a) ==
    /\ Known(a) => receipts[a].proposal.action = a
    /\ Status(a) = "running" => receipts[a].proposal.kind = "model"
    /\ Status(a) = "running" <=> job[a] # "none"

\* How often an action has acted, and as what.
Acted(a) ==
    /\ Status(a) \in {"absent", "prepared", "rejected"} => effects[a] = 0
    /\ Status(a) = "completed" => effects[a] = 1
    /\ job[a] \in {"reserved", "checked", "rejected"} => effects[a] = 0
    /\ job[a] = "completed" => effects[a] = 1
    /\ effects[a] \in {0, 1}
    /\ effects[a] # 0 => Known(a) /\ took[a] = receipts[a].proposal

\* A model control that may still change the model holds the session.
Holds(a) == job[a] \in {"reserved", "checked"} => holder[receipts[a].proposal.session] = a

\* A switch that took effect made a later revision of the conversation.
Behind(a) == Switched(a) => receipts[a].proposal.revision < revision

\* A request that can be answered was asked, and was not answered.
Open(r) ==
    /\ r \in pending => asked[r].session # Nothing /\ decisions[r] = 0
    /\ asked[r].session = Nothing => decisions[r] = 0
    /\ decisions[r] \in {0, 1}

Sound ==
    /\ \A a \in Actions : Filed(a) /\ Acted(a) /\ Holds(a) /\ Behind(a)
    /\ \A a, b \in Actions :
          Switched(a) /\ Switched(b)
             /\ receipts[a].proposal.revision = receipts[b].proposal.revision => a = b
    /\ \A r \in Requests : Open(r)

IInv == TypeOK /\ Sound

LEMMA InitIInv == Init => IInv
<1> SUFFICES ASSUME Init PROVE IInv
  OBVIOUS
<1>1. TypeOK
  BY ControlAssumption DEF Init, TypeOK, NoReceipt, NoProposal
<1>2. Sound
  BY DEF Init, Sound, Known, Status, Filed, Acted, Holds, Behind, Switched, Open, NoReceipt
<1> QED
  BY <1>1, <1>2 DEF IInv

--------------------------------------------------------------------------------
(* What goes on around the controls. *)

LEMMA AroundSteps ==
    ASSUME IInv,
           \/ \E s \in Sessions : ManualSwitch(s) \/ OpenOwner(s)
           \/ \E c \in Commands : StartTurn(c) \/ RecordTurn(c)
           \/ \E c \in Commands, s \in Sessions : ReleaseTurn(c, s)
    PROVE  IInv'
<1>1. /\ UNCHANGED <<incarnation, receipts, issued, job, questions, history>>
      /\ revision' = revision \/ revision' = revision + 1
      /\ selected' \in Sessions /\ links' \in SUBSET Sessions /\ owners' \in SUBSET Sessions
      /\ holder' \in [Sessions -> Actions \cup Commands \cup {Nobody}]
      /\ command' \in [Commands -> {"unused", "running", "settled"}]
      /\ \A a \in Actions, s \in Sessions : holder[s] = a => holder'[s] = a
  BY ControlAssumption
     DEF IInv, TypeOK, ManualSwitch, OpenOwner, StartTurn, RecordTurn, ReleaseTurn, conversation
<1>2. TypeOK'
  BY <1>1 DEF IInv, TypeOK, questions, history
<1>3. \A a \in Actions : job[a] # "none" => receipts[a].proposal.session \in Sessions
  BY DEF IInv, Sound, TypeOK, Filed, Status, Receipt, NoReceipt, Proposal
<1>4. ASSUME NEW a \in Actions PROVE (Filed(a) /\ Acted(a) /\ Holds(a) /\ Behind(a))'
  <2>1. Filed(a)' /\ Acted(a)'
    BY <1>1 DEF IInv, Sound, Filed, Acted, Known, Status, history
  <2>2. Holds(a)'
    BY <1>1, <1>3 DEF IInv, Sound, Holds
  <2>3. receipts[a] # NoReceipt => receipts[a].proposal.revision \in Nat
    BY DEF IInv, TypeOK, Receipt, Proposal
  <2>4. Behind(a)'
    BY <1>1, <2>3 DEF IInv, TypeOK, Sound, Behind, Switched, NoReceipt
  <2> QED
    BY <2>1, <2>2, <2>4
<1>5. Sound'
  BY <1>1, <1>4 DEF IInv, Sound, Switched, Open, questions
<1> QED
  BY <1>2, <1>5 DEF IInv

LEMMA QuestionSteps ==
    ASSUME IInv, NEW r \in Requests,
           (\E s \in Sessions : Ask(r, s)) \/ Withdraw(r) \/ ManualAnswer(r)
    PROVE  IInv'
<1>1. /\ UNCHANGED <<incarnation, receipts, issued, job, conversation, native, history>>
      /\ pending' \in SUBSET Requests
      /\ asked' \in [Requests -> [session : Sessions \cup {Nothing}, origin : Commands \cup {Nobody}]]
      /\ decisions' \in [Requests -> Nat]
  BY DEF IInv, TypeOK, Ask, Withdraw, ManualAnswer
<1>2. TypeOK'
  BY <1>1 DEF IInv, TypeOK, conversation, native, history
<1>3. \A q \in Requests : Open(q)'
  BY ControlAssumption DEF IInv, TypeOK, Sound, Open, Ask, Withdraw, ManualAnswer
<1>4. Sound'
  BY <1>1, <1>3
     DEF IInv, Sound, Known, Status, Filed, Acted, Holds, Behind, Switched, conversation, native, history
<1> QED
  BY <1>2, <1>4 DEF IInv

--------------------------------------------------------------------------------
(* Preparation and commit. *)

\* One receipt changes; the others are as sound as before if their sessions are held.
LEMMA OthersStay ==
    ASSUME IInv, NEW a \in Actions,
           \A b \in Actions \ {a} :
              /\ UNCHANGED <<receipts[b], job[b], effects[b], took[b]>>
              /\ \A s \in Sessions : holder[s] = b => holder'[s] = b,
           revision' \in Nat, revision <= revision'
    PROVE  \A b \in Actions \ {a} : (Filed(b) /\ Acted(b) /\ Holds(b) /\ Behind(b))'
<1> SUFFICES ASSUME NEW b \in Actions \ {a}
             PROVE  (Filed(b) /\ Acted(b) /\ Holds(b) /\ Behind(b))'
  OBVIOUS
<1>1. Filed(b)' /\ Acted(b)'
  BY DEF IInv, Sound, Filed, Acted, Known, Status
<1>2. receipts[b] # NoReceipt =>
         receipts[b].proposal.session \in Sessions /\ receipts[b].proposal.revision \in Nat
  BY DEF IInv, TypeOK, Receipt, Proposal
<1>3. Holds(b)'
  BY <1>2 DEF IInv, Sound, Filed, Holds, Status, NoReceipt
<1>4. Behind(b)'
  BY <1>2 DEF IInv, TypeOK, Sound, Behind, Switched, NoReceipt
<1> QED
  BY <1>1, <1>3, <1>4

LEMMA ReserveSteps ==
    ASSUME IInv, NEW a \in Actions, NEW kind \in {"switch", "model", "request"},
           NEW what \in Sessions \cup Models \cup Requests, Reserve(a, kind, what)
    PROVE  IInv'
<1> DEFINE p == [action |-> a, incarnation |-> incarnation, kind |-> kind,
                 revision |-> revision, session |-> selected, what |-> what]
<1>1. /\ receipts[a] = NoReceipt
      /\ receipts' = [receipts EXCEPT ![a] = [proposal |-> p, status |-> "prepared"]]
      /\ issued' = issued \cup {p}
      /\ UNCHANGED <<incarnation, job, conversation, native, questions, history>>
  BY DEF Reserve, IdentityFree
<1>2. p \in Proposal
  BY DEF IInv, TypeOK, Proposal
<1>3. [proposal |-> p, status |-> "prepared"] \in Receipt
  BY <1>2 DEF Receipt
<1>4. TypeOK'
  BY <1>1, <1>2, <1>3 DEF IInv, TypeOK, conversation, native, questions, history
<1>5. receipts'[a] = [proposal |-> p, status |-> "prepared"]
  BY <1>1 DEF IInv, TypeOK
<1>6. \A b \in Actions \ {a} : (Filed(b) /\ Acted(b) /\ Holds(b) /\ Behind(b))'
  BY <1>1, OthersStay DEF IInv, TypeOK, conversation, native, history
<1>7. job[a] = "none" /\ effects[a] = 0
  BY <1>1 DEF IInv, Sound, Filed, Acted, Status, NoReceipt
<1>8. (Filed(a) /\ Acted(a) /\ Holds(a) /\ Behind(a))'
  BY <1>1, <1>5, <1>7 DEF Filed, Acted, Holds, Behind, Known, Status, NoReceipt, Switched, history
<1>9. Sound'
  BY <1>1, <1>5, <1>6, <1>8 DEF IInv, TypeOK, Sound, Switched, Open, conversation, questions
<1> QED
  BY <1>4, <1>9 DEF IInv

LEMMA ProposalOf ==
    ASSUME IInv, NEW a \in Actions, receipts[a] # NoReceipt
    PROVE  /\ receipts[a] \in Receipt
           /\ receipts[a].proposal \in Proposal
           /\ receipts[a].proposal.session \in Sessions
           /\ receipts[a].proposal.revision \in Nat
  BY DEF IInv, TypeOK, Receipt, Proposal

LEMMA NewStatus ==
    ASSUME IInv, NEW a \in Actions, receipts[a] # NoReceipt,
           NEW status \in {"prepared", "running"} \cup Final, SetStatus(a, status)
    PROVE  /\ receipts' \in [Actions -> Receipt \cup {NoReceipt}]
           /\ receipts'[a] = [proposal |-> receipts[a].proposal, status |-> status]
           /\ \A b \in Actions \ {a} : receipts'[b] = receipts[b]
<1>1. receipts' = [receipts EXCEPT ![a] = [receipts[a] EXCEPT !.status = status]]
  BY DEF SetStatus
<1>2. receipts[a] \in Receipt
  BY ProposalOf
<1>3. [receipts[a] EXCEPT !.status = status] = [proposal |-> receipts[a].proposal, status |-> status]
  BY <1>2 DEF Receipt
<1>4. [proposal |-> receipts[a].proposal, status |-> status] \in Receipt
  BY ProposalOf DEF Receipt
<1> QED
  BY <1>1, <1>3, <1>4 DEF IInv, TypeOK

\* What a commit relies on.
LEMMA BoundFacts ==
    ASSUME IInv, NEW p \in issued, Bound(p)
    PROVE  /\ p.action \in Actions /\ p \in Proposal
           /\ receipts[p.action] # NoReceipt
           /\ receipts[p.action].proposal = p
           /\ Status(p.action) = "prepared"
           /\ job[p.action] = "none" /\ effects[p.action] = 0
<1>1. p \in Proposal /\ p.action \in Actions
  BY DEF IInv, TypeOK, Proposal
<1>2. receipts[p.action].status = "prepared" /\ receipts[p.action].proposal = p
  BY DEF Bound
<1>3. receipts[p.action] # NoReceipt
  BY <1>2 DEF NoReceipt
<1> QED
  BY <1>1, <1>2, <1>3 DEF IInv, Sound, Filed, Acted, Status

LEMMA RejectStep ==
    ASSUME IInv, NEW p \in issued, Reject(p)
    PROVE  IInv'
<1> DEFINE a == p.action
<1>1. /\ a \in Actions /\ p \in Proposal /\ receipts[a] # NoReceipt /\ receipts[a].proposal = p
      /\ Status(a) = "prepared" /\ job[a] = "none" /\ effects[a] = 0
  BY BoundFacts DEF Reject
<1>2. /\ receipts' \in [Actions -> Receipt \cup {NoReceipt}]
      /\ receipts'[a] = [proposal |-> p, status |-> "rejected"]
      /\ \A b \in Actions \ {a} : receipts'[b] = receipts[b]
  BY <1>1, NewStatus DEF Reject, Final
<1>3. UNCHANGED <<incarnation, issued, job, conversation, native, questions, history>>
  BY DEF Reject
<1>4. TypeOK'
  BY <1>2, <1>3 DEF IInv, TypeOK, conversation, native, questions, history
<1>5. \A b \in Actions \ {a} : (Filed(b) /\ Acted(b) /\ Holds(b) /\ Behind(b))'
  BY <1>1, <1>2, <1>3, OthersStay DEF IInv, TypeOK, conversation, native, history
<1>6. p.action = a
  OBVIOUS
<1>7. (Filed(a) /\ Acted(a) /\ Holds(a) /\ Behind(a))'
  BY <1>1, <1>2, <1>3, <1>6 DEF Filed, Acted, Holds, Behind, Known, Status, NoReceipt, Switched, history
<1>8. Sound'
  BY <1>1, <1>2, <1>3, <1>5, <1>7 DEF IInv, Sound, Switched, Open, questions
<1> QED
  BY <1>4, <1>8 DEF IInv

LEMMA CommitRequestStep ==
    ASSUME IInv, NEW p \in issued, CommitRequest(p)
    PROVE  IInv'
<1> DEFINE a == p.action
<1>1. /\ a \in Actions /\ p \in Proposal /\ receipts[a] # NoReceipt /\ receipts[a].proposal = p
      /\ Status(a) = "prepared" /\ job[a] = "none" /\ effects[a] = 0
  BY BoundFacts DEF CommitRequest, Acceptable
<1>2. /\ receipts' \in [Actions -> Receipt \cup {NoReceipt}]
      /\ receipts'[a] = [proposal |-> p, status |-> "completed"]
      /\ \A b \in Actions \ {a} : receipts'[b] = receipts[b]
  BY <1>1, NewStatus DEF CommitRequest, Final
<1>3. /\ UNCHANGED <<incarnation, issued, job, conversation, native, asked>>
      /\ effects' = [effects EXCEPT ![a] = @ + 1]
      /\ took' = [took EXCEPT ![a] = p]
      /\ p.what \in pending /\ p.kind = "request"
      /\ pending' = pending \ {p.what}
      /\ decisions' = [decisions EXCEPT ![p.what] = @ + 1]
  BY DEF CommitRequest, TakeEffect, Decidable
<1>4. TypeOK'
  BY <1>1, <1>2, <1>3 DEF IInv, TypeOK, conversation, native
<1>5. \A b \in Actions \ {a} : (Filed(b) /\ Acted(b) /\ Holds(b) /\ Behind(b))'
  BY <1>1, <1>2, <1>3, OthersStay DEF IInv, TypeOK, conversation, native
<1>6. effects'[a] = 1 /\ took'[a] = p /\ p.action = a
  BY <1>1, <1>3 DEF IInv, TypeOK
<1>7. (Filed(a) /\ Acted(a) /\ Holds(a) /\ Behind(a))'
  BY <1>1, <1>2, <1>3, <1>6 DEF Filed, Acted, Holds, Behind, Known, Status, NoReceipt, Switched
<1>8. \A r \in Requests : Open(r)'
  BY <1>3 DEF IInv, TypeOK, Sound, Open
<1>9. Sound'
  BY <1>1, <1>2, <1>3, <1>5, <1>7, <1>8 DEF IInv, Sound, Switched
<1> QED
  BY <1>4, <1>9 DEF IInv

LEMMA CommitSwitchStep ==
    ASSUME IInv, NEW p \in issued, CommitSwitch(p)
    PROVE  IInv'
<1> DEFINE a == p.action
<1>1. /\ a \in Actions /\ p \in Proposal /\ receipts[a] # NoReceipt /\ receipts[a].proposal = p
      /\ Status(a) = "prepared" /\ job[a] = "none" /\ effects[a] = 0
  BY BoundFacts DEF CommitSwitch, Acceptable
<1>2. /\ UNCHANGED <<incarnation, issued, job, links, native, questions>>
      /\ p.kind = "switch" /\ p.revision = revision /\ p.what \in links
  BY DEF CommitSwitch, Acceptable, TargetUnchanged
<1>3. p.action = a
  OBVIOUS
<1>4. CASE selected' = p.what /\ revision' = revision + 1 /\ SetStatus(a, "completed") /\ TakeEffect(p)
  <2>1. /\ receipts' \in [Actions -> Receipt \cup {NoReceipt}]
        /\ receipts'[a] = [proposal |-> p, status |-> "completed"]
        /\ \A b \in Actions \ {a} : receipts'[b] = receipts[b]
    BY <1>1, <1>4, NewStatus DEF Final
  <2>2. effects' = [effects EXCEPT ![a] = @ + 1] /\ took' = [took EXCEPT ![a] = p]
    BY <1>4 DEF TakeEffect
  <2>3. TypeOK'
    BY <1>1, <1>2, <1>4, <2>1, <2>2 DEF IInv, TypeOK, native, questions
  <2>4. \A b \in Actions \ {a} : (Filed(b) /\ Acted(b) /\ Holds(b) /\ Behind(b))'
    BY <1>1, <1>2, <1>4, <2>1, <2>2, OthersStay DEF IInv, TypeOK, native
  <2>5. effects'[a] = 1 /\ took'[a] = p
    BY <1>1, <2>2 DEF IInv, TypeOK
  <2>6. (Filed(a) /\ Acted(a) /\ Holds(a) /\ Behind(a))'
    BY <1>1, <1>2, <1>3, <1>4, <2>1, <2>5
       DEF IInv, TypeOK, Filed, Acted, Holds, Behind, Known, Status, NoReceipt, Switched
  <2>7. \A b \in Actions \ {a} : Switched(b)' => receipts'[b].proposal.revision < revision
    BY <2>1 DEF IInv, Sound, Behind, Switched
  <2>8. \A b, c \in Actions :
           (Switched(b) /\ Switched(c)
              /\ receipts[b].proposal.revision = receipts[c].proposal.revision => b = c)'
    BY <1>1, <1>2, <2>1, <2>7 DEF IInv, TypeOK, Sound, Switched
  <2>9. Sound'
    BY <1>2, <2>4, <2>6, <2>8 DEF IInv, Sound, Open, questions
  <2> QED
    BY <2>3, <2>9 DEF IInv
<1>5. CASE SetStatus(a, "uncertain") /\ UNCHANGED <<selected, revision, history>>
  <2>1. /\ receipts' \in [Actions -> Receipt \cup {NoReceipt}]
        /\ receipts'[a] = [proposal |-> p, status |-> "uncertain"]
        /\ \A b \in Actions \ {a} : receipts'[b] = receipts[b]
    BY <1>1, <1>5, NewStatus DEF Final
  <2>2. TypeOK'
    BY <1>2, <1>5, <2>1 DEF IInv, TypeOK, native, questions, history
  <2>3. \A b \in Actions \ {a} : (Filed(b) /\ Acted(b) /\ Holds(b) /\ Behind(b))'
    BY <1>1, <1>2, <1>5, <2>1, OthersStay DEF IInv, TypeOK, native, history
  <2>4. (Filed(a) /\ Acted(a) /\ Holds(a) /\ Behind(a))'
    BY <1>1, <1>2, <1>3, <1>5, <2>1
       DEF Filed, Acted, Holds, Behind, Known, Status, NoReceipt, Switched, history
  <2>5. Sound'
    BY <1>2, <2>1, <2>3, <2>4 DEF IInv, Sound, Switched, Open, questions
  <2> QED
    BY <2>2, <2>5 DEF IInv
<1> QED
  BY <1>4, <1>5 DEF CommitSwitch

LEMMA ReserveModelStep ==
    ASSUME IInv, NEW p \in issued, ReserveModel(p)
    PROVE  IInv'
<1> DEFINE a == p.action
<1>1. /\ a \in Actions /\ p \in Proposal /\ receipts[a] # NoReceipt /\ receipts[a].proposal = p
      /\ Status(a) = "prepared" /\ job[a] = "none" /\ effects[a] = 0
  BY BoundFacts DEF ReserveModel, Acceptable
<1>2. /\ receipts' \in [Actions -> Receipt \cup {NoReceipt}]
      /\ receipts'[a] = [proposal |-> p, status |-> "running"]
      /\ \A b \in Actions \ {a} : receipts'[b] = receipts[b]
  BY <1>1, NewStatus DEF ReserveModel
<1>3. /\ UNCHANGED <<incarnation, issued, conversation, owners, command, questions, history>>
      /\ p.kind = "model" /\ p.session \in Sessions /\ holder[p.session] = Nobody
      /\ holder' = [holder EXCEPT ![p.session] = a]
      /\ job' = [job EXCEPT ![a] = "reserved"]
  BY <1>1 DEF ReserveModel, Proposal
<1>4. TypeOK'
  BY <1>1, <1>2, <1>3 DEF IInv, TypeOK, conversation, questions, history
<1>5. \A b \in Actions \ {a} : (Filed(b) /\ Acted(b) /\ Holds(b) /\ Behind(b))'
  BY <1>1, <1>2, <1>3, OthersStay, ControlAssumption DEF IInv, TypeOK, conversation, history
<1>6. job'[a] = "reserved" /\ holder'[p.session] = a /\ p.action = a
  BY <1>1, <1>3 DEF IInv, TypeOK
<1>7. (Filed(a) /\ Acted(a) /\ Holds(a) /\ Behind(a))'
  BY <1>1, <1>2, <1>3, <1>6 DEF Filed, Acted, Holds, Behind, Known, Status, NoReceipt, Switched, history
<1>8. Sound'
  BY <1>1, <1>2, <1>3, <1>5, <1>7 DEF IInv, Sound, Switched, Open, questions
<1> QED
  BY <1>4, <1>8 DEF IInv

--------------------------------------------------------------------------------
(* The rest of a model control, and the process. *)

LEMMA InHand ==
    ASSUME IInv, NEW a \in Actions, job[a] # "none"
    PROVE  /\ receipts[a] # NoReceipt /\ Status(a) = "running"
           /\ receipts[a].proposal \in Proposal
           /\ receipts[a].proposal.action = a
           /\ receipts[a].proposal.kind = "model"
           /\ receipts[a].proposal.session \in Sessions
<1>1. receipts[a] # NoReceipt /\ Status(a) = "running"
  BY DEF IInv, Sound, Filed, Status, NoReceipt
<1> QED
  BY <1>1, ProposalOf DEF IInv, Sound, Filed, Known

LEMMA CheckModelsStep == ASSUME IInv, NEW a \in Actions, CheckModels(a) PROVE IInv'
<1>1. /\ job[a] = "reserved"
      /\ \E found \in {"checked", "rejected"} : job' = [job EXCEPT ![a] = found]
      /\ UNCHANGED <<incarnation, receipts, issued, conversation, native, questions, history>>
  BY DEF CheckModels
<1>2. job'[a] \in {"checked", "rejected"}
  BY <1>1 DEF IInv, TypeOK
<1>3. TypeOK'
  BY <1>1 DEF IInv, TypeOK, Final, conversation, native, questions, history
<1>4. \A b \in Actions \ {a} : (Filed(b) /\ Acted(b) /\ Holds(b) /\ Behind(b))'
  BY <1>1, OthersStay DEF IInv, TypeOK, conversation, native, history
<1>5. (Filed(a) /\ Acted(a) /\ Holds(a) /\ Behind(a))'
  BY <1>1, <1>2, InHand
     DEF IInv, Sound, Filed, Acted, Holds, Behind, Known, Status, Switched, native, history
<1>6. Sound'
  BY <1>1, <1>4, <1>5 DEF IInv, Sound, Switched, Open, questions
<1> QED
  BY <1>3, <1>6 DEF IInv

LEMMA SelectModelStep == ASSUME IInv, NEW a \in Actions, SelectModel(a) PROVE IInv'
<1> DEFINE p == receipts[a].proposal
<1>1. job[a] = "checked"
  BY DEF SelectModel
<1>2. /\ receipts[a] # NoReceipt /\ Status(a) = "running"
      /\ p \in Proposal /\ p.action = a /\ effects[a] = 0
  BY <1>1, InHand DEF IInv, Sound, Acted
<1>3. /\ effects' = [effects EXCEPT ![a] = @ + 1]
      /\ took' = [took EXCEPT ![a] = p]
      /\ \E end \in {"completed", "uncertain"} : job' = [job EXCEPT ![a] = end]
      /\ UNCHANGED <<incarnation, receipts, issued, conversation, native, questions>>
  BY <1>2 DEF SelectModel, TakeEffect
<1>4. TypeOK'
  BY <1>2, <1>3 DEF IInv, TypeOK, Final, conversation, native, questions
<1>5. \A b \in Actions \ {a} : (Filed(b) /\ Acted(b) /\ Holds(b) /\ Behind(b))'
  BY <1>3, OthersStay DEF IInv, TypeOK, conversation, native
<1>6. effects'[a] = 1 /\ took'[a] = p /\ job'[a] \in {"completed", "uncertain"}
  BY <1>2, <1>3 DEF IInv, TypeOK
<1>7. (Filed(a) /\ Acted(a) /\ Holds(a) /\ Behind(a))'
  BY <1>1, <1>2, <1>3, <1>6
     DEF IInv, Sound, Filed, Acted, Holds, Behind, Known, Status, Switched
<1>8. Sound'
  BY <1>3, <1>5, <1>7 DEF IInv, Sound, Switched, Open, questions
<1> QED
  BY <1>4, <1>8 DEF IInv

LEMMA ReleaseModelStep == ASSUME IInv, NEW a \in Actions, ReleaseModel(a) PROVE IInv'
<1> DEFINE s == receipts[a].proposal.session
<1>1. /\ job[a] \in Final /\ holder[s] = a
      /\ holder' = [holder EXCEPT ![s] = Nobody]
      /\ UNCHANGED <<incarnation, receipts, issued, job, conversation, owners, command,
                     questions, history>>
  BY DEF ReleaseModel
<1>2. TypeOK'
  BY <1>1 DEF IInv, TypeOK, conversation, questions, history
<1>3. \A b \in Actions \ {a} : (Filed(b) /\ Acted(b) /\ Holds(b) /\ Behind(b))'
  BY <1>1, OthersStay DEF IInv, TypeOK, conversation, history
<1>4. (Filed(a) /\ Acted(a) /\ Holds(a) /\ Behind(a))'
  BY <1>1
     DEF IInv, Sound, Filed, Acted, Holds, Behind, Known, Status, Switched, Final, conversation, history
<1>5. Sound'
  BY <1>1, <1>3, <1>4 DEF IInv, Sound, Switched, Open, questions
<1> QED
  BY <1>2, <1>5 DEF IInv

LEMMA RecordModelStep == ASSUME IInv, NEW a \in Actions, RecordModel(a) PROVE IInv'
<1> DEFINE p == receipts[a].proposal
<1>1. /\ job[a] \in Final /\ SetStatus(a, job[a])
      /\ job' = [job EXCEPT ![a] = "none"]
      /\ UNCHANGED <<incarnation, issued, conversation, native, questions, history>>
  BY DEF RecordModel
<1>2. /\ receipts[a] # NoReceipt /\ p \in Proposal /\ p.action = a /\ p.kind = "model"
  BY <1>1, InHand DEF Final
<1>3. /\ receipts' \in [Actions -> Receipt \cup {NoReceipt}]
      /\ receipts'[a] = [proposal |-> p, status |-> job[a]]
      /\ \A b \in Actions \ {a} : receipts'[b] = receipts[b]
  BY <1>1, <1>2, NewStatus
<1>4. TypeOK'
  BY <1>1, <1>3 DEF IInv, TypeOK, conversation, native, questions, history
<1>5. \A b \in Actions \ {a} : (Filed(b) /\ Acted(b) /\ Holds(b) /\ Behind(b))'
  BY <1>1, <1>3, OthersStay DEF IInv, TypeOK, conversation, native, history
<1>6. job'[a] = "none"
  BY <1>1 DEF IInv, TypeOK
<1>7. (Filed(a) /\ Acted(a) /\ Holds(a) /\ Behind(a))'
  BY <1>1, <1>2, <1>3, <1>6
     DEF IInv, Sound, Filed, Acted, Holds, Behind, Known, Status, NoReceipt, Switched, Final, history
<1>8. \A b \in Actions : Switched(b)' => Switched(b) /\ receipts'[b] = receipts[b]
  BY <1>2, <1>3 DEF Switched
<1>9. Sound'
  BY <1>1, <1>5, <1>7, <1>8 DEF IInv, Sound, Open, questions
<1> QED
  BY <1>4, <1>9 DEF IInv

LEMMA RestartStep == ASSUME IInv, Restart PROVE IInv'
<1>1. TypeOK'
  <2>1. incarnation' \in 1..MaxIncarnation
    BY ControlAssumption DEF Restart, IInv, TypeOK
  <2>2. /\ receipts' \in [Actions -> Receipt \cup {NoReceipt}]
        /\ took' \in [Actions -> Proposal \cup {NoProposal}]
        /\ job' \in [Actions -> {"none", "reserved", "checked"} \cup Final]
        /\ effects' \in [Actions -> Nat]
    BY DEF Restart
  <2>3. /\ owners' \in SUBSET Sessions /\ pending' \in SUBSET Requests
        /\ holder' \in [Sessions -> Actions \cup Commands \cup {Nobody}]
        /\ command' \in [Commands -> {"unused", "running", "settled"}]
    BY DEF Restart, IInv, TypeOK
  <2> QED
    BY <2>1, <2>2, <2>3 DEF Restart, IInv, TypeOK, conversation
<1>2. \A a \in Actions : (Filed(a) /\ Acted(a) /\ Holds(a) /\ Behind(a) /\ ~Switched(a))'
  BY DEF Restart, Filed, Acted, Holds, Behind, Known, Status, Switched, NoReceipt
<1>3. \A r \in Requests : Open(r)'
  BY DEF Restart, IInv, Sound, Open
<1> QED
  BY <1>1, <1>2, <1>3 DEF IInv, Sound

LEMMA NextIInv == IInv /\ [Next]_vars => IInv'
<1> SUFFICES ASSUME IInv, [Next]_vars PROVE IInv'
  OBVIOUS
<1>1. CASE \/ \E s \in Sessions : ManualSwitch(s) \/ OpenOwner(s)
           \/ \E c \in Commands : StartTurn(c) \/ RecordTurn(c)
           \/ \E c \in Commands, s \in Sessions : ReleaseTurn(c, s)
  BY <1>1, AroundSteps
<1>2. ASSUME NEW r \in Requests, (\E s \in Sessions : Ask(r, s)) \/ Withdraw(r) \/ ManualAnswer(r)
      PROVE  IInv'
  BY <1>2, QuestionSteps
<1>3. ASSUME NEW a \in Actions,
             \/ \E s \in Sessions : PrepareSwitch(a, s)
             \/ \E x \in Models : PrepareModel(a, x)
             \/ \E r \in Requests : PrepareRequest(a, r)
      PROVE  IInv'
  BY <1>3, ReserveSteps DEF PrepareSwitch, PrepareModel, PrepareRequest
<1>4. ASSUME NEW a \in Actions, Continue(a) PROVE IInv'
  BY <1>4, CheckModelsStep, SelectModelStep, ReleaseModelStep, RecordModelStep DEF Continue
<1>5. ASSUME NEW p \in issued, Commit(p) PROVE IInv'
  BY <1>5, RejectStep, CommitRequestStep, CommitSwitchStep, ReserveModelStep DEF Commit
<1>6. CASE Restart
  BY <1>6, RestartStep
<1>7. CASE UNCHANGED vars
  BY <1>7 DEF vars, conversation, native, questions, history, IInv, TypeOK, Sound, Known, Status,
              Filed, Acted, Holds, Behind, Switched, Open
<1> QED
  BY <1>1, <1>2, <1>3, <1>4, <1>5, <1>6, <1>7 DEF Next

--------------------------------------------------------------------------------

\* An action takes effect once at most in a process, exactly as it was prepared there;
\* a request is answered once, by hand or by an action; and of the switches prepared
\* against one revision of the conversation one at most completes.
THEOREM ActionsActAsPrepared == Spec => []ActsAsPrepared
<1>1. IInv => ActsAsPrepared
  <2> SUFFICES ASSUME IInv PROVE ActsAsPrepared
    OBVIOUS
  <2>1. EffectOnce
    BY DEF IInv, Sound, Acted, Open, EffectOnce
  <2>2. ActedAsPrepared
    BY DEF IInv, Sound, Acted, Known, ActedAsPrepared
  <2>3. OneSwitchPerRevision
    BY DEF IInv, Sound, OneSwitchPerRevision
  <2> QED
    BY <2>1, <2>2, <2>3 DEF IInv, ActsAsPrepared
<1> QED
  BY <1>1, InitIInv, NextIInv, PTL DEF Spec

\* A receipt that says rejected stands for an action that did nothing, one that says
\* completed for an action that took effect.
THEOREM ReceiptsAreHonest == Spec => []ReceiptIsHonest
<1>1. IInv => ReceiptIsHonest
  BY DEF IInv, Sound, Acted, Status, ReceiptIsHonest
<1> QED
  BY <1>1, InitIInv, NextIInv, PTL DEF Spec

\* A receipt is running exactly as long as a handler has the model control in hand, and
\* the session is held until the model can no longer change.
THEOREM ModelControlsAreInHand == Spec => []AcceptedIsInHand
<1>1. IInv => AcceptedIsInHand
  BY DEF IInv, Sound, Filed, Holds, Status, AcceptedIsInHand
<1> QED
  BY <1>1, InitIInv, NextIInv, PTL DEF Spec
================================================================================
