--------------------------- MODULE EffectContract ---------------------------
(***************************************************************************)
(* What the interpreter promises the layer that dispatches its effects,    *)
(* whatever an effect does to the provider.  An effect reports once.       *)
(* Until then it may change the world.  Afterwards nothing of it does,     *)
(* unless it reported an uncertain outcome: then at most one call is still *)
(* under way, and it lands at most once.  A caller may therefore act on a  *)
(* terminal result at once, and has to reconcile after an uncertain one.   *)
(***************************************************************************)
CONSTANTS
    Effects,
    Terminal,   \* the terminal results
    Uncertain   \* the result that leaves the outcome of a call open

VARIABLES
    world,    \* the provider's durable state
    outcome,  \* what each effect has reported, "none" before
    owed      \* whether a call of it may still land

vars == <<world, outcome, owed>>

Init ==
    /\ outcome = [e \in Effects |-> "none"]
    /\ owed = [e \in Effects |-> FALSE]

(* A pending effect works on the provider.                                 *)
Act(e) ==
    /\ outcome[e] = "none"
    /\ UNCHANGED <<outcome, owed>>

(* It reports a terminal result, possibly with its last change.            *)
Settle(e) ==
    /\ outcome[e] = "none"
    /\ \E kind \in Terminal : outcome' = [outcome EXCEPT ![e] = kind]
    /\ UNCHANGED owed

(* It reports an uncertain one: after a read that failed, about a call     *)
(* that was refused, executed or lost, or about one still under way.       *)
GiveUp(e) ==
    /\ outcome[e] = "none"
    /\ outcome' = [outcome EXCEPT ![e] = Uncertain]
    /\ UNCHANGED owed \/ owed' = [owed EXCEPT ![e] = TRUE]

(* The call an uncertain effect left under way is executed or refused.     *)
Land(e) ==
    /\ outcome[e] = Uncertain /\ owed[e]
    /\ owed' = [owed EXCEPT ![e] = FALSE]
    /\ UNCHANGED outcome

Next == \E e \in Effects : Act(e) \/ Settle(e) \/ GiveUp(e) \/ Land(e)

Spec == Init /\ [][Next]_vars
=============================================================================
