------------------------------- MODULE Ledger -------------------------------
(***************************************************************************)
(* What a multipart download promises about bytes, whatever ranges, splits *)
(* and retirements it uses: a byte is handed to one worker at a time and   *)
(* at most once between two restarts, it lands only while it is held, a    *)
(* restart forgets nothing but what is known to have landed, and the       *)
(* download succeeds only when every byte has landed.                      *)
(***************************************************************************)
EXTENDS Integers

CONSTANTS Bytes, Workers

VARIABLES
    todo,       \* bytes nobody has been asked to fetch
    held,       \* worker -> bytes it was handed and has not let go of
    landed,     \* bytes in the staging file
    verdict     \* "none" while running, then "ok" or "error"

vars == <<todo, held, landed, verdict>>

Nothing == [w \in Workers |-> {}]

Init == todo = Bytes /\ held = Nothing /\ landed = {} /\ verdict = "none"

\* Worker w is handed bytes that nobody was handed before.
Take(w, S) ==
    /\ verdict = "none"
    /\ held[w] = {}
    /\ S \subseteq todo
    /\ todo' = todo \ S
    /\ held' = [held EXCEPT ![w] = S]
    /\ UNCHANGED <<landed, verdict>>

Land(w) ==
    /\ verdict = "none"
    /\ landed' = landed \cup held[w]
    /\ UNCHANGED <<todo, held, verdict>>

LetGo(w) ==
    /\ verdict = "none"
    /\ held[w] \subseteq landed
    /\ held' = [held EXCEPT ![w] = {}]
    /\ UNCHANGED <<todo, landed, verdict>>

Succeed ==
    /\ verdict = "none"
    /\ landed = Bytes
    /\ verdict' = "ok"
    /\ UNCHANGED <<todo, held, landed>>

GiveUp ==
    /\ verdict = "none"
    /\ verdict' = "error"
    /\ UNCHANGED <<todo, held, landed>>

\* A crash or a new download: the workers are gone.
Restart ==
    /\ verdict # "ok"
    /\ todo' = Bytes /\ held' = Nothing /\ verdict' = "none"
    /\ UNCHANGED landed

\* The new download knows of some landed bytes, or starts the file over.
Recall ==
    /\ verdict = "none"
    /\ held = Nothing
    /\ \E known \in SUBSET landed : todo' = Bytes \ known
    /\ UNCHANGED <<held, landed, verdict>>

StartOver ==
    /\ verdict = "none"
    /\ held = Nothing
    /\ todo' = Bytes /\ landed' = {}
    /\ UNCHANGED <<held, verdict>>

Next ==
    \/ \E w \in Workers : Land(w) \/ LetGo(w) \/ \E S \in SUBSET todo : Take(w, S)
    \/ Succeed \/ GiveUp \/ Restart \/ Recall \/ StartOver

Spec == Init /\ [][Next]_vars

-----------------------------------------------------------------------------
(* What follows for whoever implements it *)

TypeOK ==
    /\ todo \subseteq Bytes /\ landed \subseteq Bytes
    /\ held \in [Workers -> SUBSET Bytes]
    /\ verdict \in {"none", "ok", "error"}

\* At every moment each byte is in the file, in somebody's hands, or still to
\* be handed out: splits, retirements and restarts lose none.
NothingLost ==
    \A b \in Bytes : b \in todo \/ b \in landed \/ \E w \in Workers : b \in held[w]

\* No byte is in two hands at once, nor handed out again while it is held.
HandedOnce ==
    \A w \in Workers :
        /\ held[w] \cap todo = {}
        /\ \A v \in Workers : v # w => held[v] \cap held[w] = {}

=============================================================================
