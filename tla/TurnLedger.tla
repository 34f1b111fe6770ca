----------------------------- MODULE TurnLedger -----------------------------
(***************************************************************************)
(* What a chat promises about its turns, whoever opens and closes them:    *)
(* turns open one after another; a turn is claimed by one closer, once;    *)
(* the claimed turn is written closed in the log at most once, and its     *)
(* result is published once, after the claim, and never changes.           *)
(*                                                                         *)
(* TurnLifecycle implements it: see Ledger there.                          *)
(***************************************************************************)
EXTENDS Naturals

CONSTANTS
    MaxTurns,   \* bound: turns opened
    Closers,    \* the closers a result can name
    Running     \* the result of a turn that has none yet

VARIABLES
    opened,     \* how many turns were opened: they are named 1..opened
    claimed,    \* the turns a closer claimed
    closes,     \* how many turn_close entries the log holds for each turn
    result      \* the closer whose result was published, or Running

vars == <<opened, claimed, closes, result>>

Turns == 1..MaxTurns

Init ==
    /\ opened = 0
    /\ claimed = {}
    /\ closes = [t \in Turns |-> 0]
    /\ result = [t \in Turns |-> Running]

\* A turn is opened, by a caller or by the agent.
Open ==
    /\ opened < MaxTurns
    /\ opened' = opened + 1
    /\ UNCHANGED <<claimed, closes, result>>

\* One closer wins an open turn.
Claim(t) ==
    /\ t \in 1..opened /\ t \notin claimed
    /\ claimed' = claimed \cup {t}
    /\ UNCHANGED <<opened, closes, result>>

\* The winner appends the turn_close; an append that fails leaves none.
Append(t) ==
    /\ t \in claimed /\ closes[t] = 0 /\ result[t] = Running
    /\ closes' = [closes EXCEPT ![t] = 1]
    /\ UNCHANGED <<opened, claimed, result>>

\* The winner publishes the result every waiter reads.
Publish(t, c) ==
    /\ t \in claimed /\ result[t] = Running
    /\ result' = [result EXCEPT ![t] = c]
    /\ UNCHANGED <<opened, claimed, closes>>

Next ==
    \/ Open
    \/ \E t \in Turns : Claim(t) \/ Append(t) \/ \E c \in Closers : Publish(t, c)

Spec == Init /\ [][Next]_vars
=============================================================================
