-------------------------- MODULE ActionGovernance --------------------------
(***************************************************************************)
(* What the agent layer promises about actions on a user's workspace,      *)
(* without workers, transactions, memory or failures: an action is carried *)
(* out only after its gate was opened, a path is created once and by one   *)
(* run, and a run is shown as completed only while its effect is there.    *)
(***************************************************************************)
CONSTANTS Runs, Targets, NoRun, Target, Mutating

VARIABLES
    opened,   \* runs that may act: planned without approval, or approved
    creator,  \* creator[x]: the run that created x, or NoRun
    whole,    \* created targets whose content is complete
    shown     \* runs shown to their owner as completed

vars == <<opened, creator, whole, shown>>

Init ==
    /\ opened = {}
    /\ creator = [x \in Targets |-> NoRun]
    /\ whole = {}
    /\ shown = {}

Open(r) ==
    /\ opened' = opened \cup {r}
    /\ UNCHANGED <<creator, whole, shown>>

\* A gated run creates its free target, with all of its content or without.
Create(r) ==
    /\ r \in opened \cap Mutating
    /\ creator[Target[r]] = NoRun
    /\ creator' = [creator EXCEPT ![Target[r]] = r]
    /\ whole' \in {whole, whole \cup {Target[r]}}
    /\ UNCHANGED <<opened, shown>>

Fill(r) ==
    /\ creator[Target[r]] = r
    /\ whole' = whole \cup {Target[r]}
    /\ UNCHANGED <<opened, creator, shown>>

Show(r) ==
    /\ r \in opened
    /\ r \in Mutating => creator[Target[r]] = r /\ Target[r] \in whole
    /\ shown' = shown \cup {r}
    /\ UNCHANGED <<opened, creator, whole>>

\* A completed run may be shown in another status again.
Hide(r) ==
    /\ shown' = shown \ {r}
    /\ UNCHANGED <<opened, creator, whole>>

Next == \E r \in Runs : Open(r) \/ Create(r) \/ Fill(r) \/ Show(r) \/ Hide(r)

Spec == Init /\ [][Next]_vars
=============================================================================
