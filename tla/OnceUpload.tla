------------------------------ MODULE OnceUpload ------------------------------
(***************************************************************************)
(* What an idempotency key promises to a client that uploads files: the    *)
(* key stands for one request body for ever, that body takes effect at     *)
(* most once, and whoever is answered is told what took effect.            *)
(***************************************************************************)
CONSTANTS
    Keys,      \* idempotency keys of one user and route
    Bodies,    \* request bodies
    Answers,   \* the answers: which execution took effect
    None       \* no body

VARIABLES
    bound,  \* bound[k]: the body the key stands for
    took,   \* took[k]: the executions that took effect under the key
    told    \* the answers given: <<key, body, answer>>

Init ==
    /\ bound = [k \in Keys |-> None]
    /\ took \in [Keys -> {{}} \cup {{a} : a \in Answers}]
    /\ told = {}

Bind(k, b) ==
    /\ bound[k] = None
    /\ bound' = [bound EXCEPT ![k] = b]
    /\ UNCHANGED <<took, told>>

\* The bound body takes effect, and the client may learn it in the same step.
TakeEffect(k, a) ==
    /\ bound[k] # None
    /\ took[k] = {}
    /\ took' = [took EXCEPT ![k] = {a}]
    /\ told' \in {told, told \cup {<<k, bound[k], a>>}}
    /\ UNCHANGED bound

Tell(k, a) ==
    /\ bound[k] # None
    /\ a \in took[k]
    /\ told' = told \cup {<<k, bound[k], a>>}
    /\ UNCHANGED <<bound, took>>

Next ==
    \E k \in Keys :
        \/ \E b \in Bodies : Bind(k, b)
        \/ \E a \in Answers : TakeEffect(k, a) \/ Tell(k, a)

Spec == Init /\ [][Next]_<<bound, took, told>>
================================================================================
