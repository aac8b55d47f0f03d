---------------------------- MODULE CommandDelivery ----------------------------
(***************************************************************************)
(* What the session service promises about a prompt command, whatever      *)
(* route it arrived on: the command is reserved before the native agent    *)
(* sees it, the agent sees it at most once, and a command that was settled *)
(* (complete or uncertain) is never delivered again, restarts included.    *)
(* SessionService is the detailed specification that implements this one.  *)
(***************************************************************************)
EXTENDS Naturals

CONSTANT Commands

VARIABLES
    phase,       \* what the durable records and live turns say of a command
    deliveries   \* how often the native agent was handed the command

vars == <<phase, deliveries>>

Phases == {"unused", "reserved", "delivered", "settled"}

TypeOK ==
    /\ phase \in [Commands -> Phases]
    /\ deliveries \in [Commands -> Nat]

Init ==
    /\ phase = [c \in Commands |-> "unused"]
    /\ deliveries = [c \in Commands |-> 0]

\* The bookkeeping moves a command may make; a crash moves several at once.
Moves ==
    {<<"unused", "reserved">>, <<"unused", "settled">>,
     <<"reserved", "settled">>, <<"delivered", "settled">>}

Keep ==
    /\ phase' \in [Commands -> Phases]
    /\ \A c \in Commands : phase'[c] # phase[c] => <<phase[c], phase'[c]>> \in Moves
    /\ UNCHANGED deliveries

Deliver(c) ==
    /\ phase[c] = "reserved"
    /\ phase' = [phase EXCEPT ![c] = "delivered"]
    /\ deliveries' = [deliveries EXCEPT ![c] = @ + 1]

Next == Keep \/ \E c \in Commands : Deliver(c)

Spec == Init /\ [][Next]_vars

\* A command is delivered at most once, and only after it was reserved.
DeliveredOnce ==
    \A c \in Commands :
        /\ deliveries[c] <= 1
        /\ phase[c] \in {"unused", "reserved"} => deliveries[c] = 0
================================================================================
