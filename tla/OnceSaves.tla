-------------------------------- MODULE OnceSaves --------------------------------
(***************************************************************************)
(* What the guards of a mutation promise (services/concurrency.py,         *)
(* services/idempotency.py, workflow/_common.py), without versions, leases *)
(* or keys: a save replaces only what its editor had before their eyes, it *)
(* takes effect once, and every answer tells what it did.                  *)
(***************************************************************************)
EXTENDS Naturals

CONSTANTS
    Candidates, \* candidate decisions
    Saves,      \* saves that editors write
    Imports,    \* procurement imports
    None

VARIABLES
    current, \* what a candidate holds: its scoring and the save that changed it
    base,    \* what the editor of a save had read
    effect,  \* the candidates that a save changed
    told,    \* the answer that the editor got
    made     \* quotes and deliveries made from an import

vars == <<current, base, effect, told, made>>

Init ==
    /\ current = [c \in Candidates |-> [score |-> 0, by |-> None]]
    /\ base = [s \in Saves |-> None]
    /\ effect = [s \in Saves |-> None]
    /\ told = [s \in Saves |-> None]
    /\ made = [i \in Imports |-> 0]

\* An editor has read the candidates that a save is about.
Read(s, C) ==
    /\ base[s] = None
    /\ base' = [base EXCEPT ![s] = [c \in C |-> current[c]]]
    /\ UNCHANGED <<current, effect, told, made>>

\* A save takes effect, on every candidate that still is as it was read.
Save(s, C) ==
    /\ base[s] # None /\ effect[s] = None
    /\ C \subseteq DOMAIN base[s]
    /\ \A c \in C : current[c] = base[s][c]
    /\ current' = [c \in Candidates |->
          IF c \in C THEN [score |-> current[c].score, by |-> s] ELSE current[c]]
    /\ effect' = [effect EXCEPT ![s] = C]
    /\ told' \in {told, [told EXCEPT ![s] = C]}
    /\ UNCHANGED <<base, made>>

\* The editor is told what the save did.
Tell(s) ==
    /\ effect[s] # None
    /\ told' = [told EXCEPT ![s] = effect[s]]
    /\ UNCHANGED <<current, base, effect, made>>

\* Candidates are scored anew.
Score(C) ==
    /\ current' = [c \in Candidates |->
          IF c \in C THEN [score |-> current[c].score + 1, by |-> None] ELSE current[c]]
    /\ UNCHANGED <<base, effect, told, made>>

\* An import becomes one quote or delivery.
Make(i) ==
    /\ made[i] = 0
    /\ made' = [made EXCEPT ![i] = 1]
    /\ UNCHANGED <<current, base, effect, told>>

Next ==
    \/ \E s \in Saves : Tell(s) \/ \E C \in SUBSET Candidates : Read(s, C) \/ Save(s, C)
    \/ \E C \in SUBSET Candidates : Score(C)
    \/ \E i \in Imports : Make(i)

Spec == Init /\ [][Next]_vars

================================================================================
