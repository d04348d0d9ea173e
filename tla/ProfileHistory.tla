--------------------------- MODULE ProfileHistory ---------------------------
(***************************************************************************)
(* What the profile store promises (ADR-0003, items 1, 3 and 5), without   *)
(* its transactions, locks, conflicts or entity types: each entity has a   *)
(* history to which committed changes append one version at a time, every  *)
(* appended version is announced by an event of the same commit, nothing   *)
(* rewrites a version, and an identifier that was retired never returns.   *)
(***************************************************************************)
EXTENDS Naturals, Sequences

CONSTANTS Entities, Documents

VARIABLES
    phase,     \* phase[e]: "unborn", "live" or "gone"
    history,   \* history[e]: the versions of e, oldest first
    announced  \* the <<entity, version>> pairs an event announces

vars == <<phase, history, announced>>

Init ==
    /\ phase = [e \in Entities |-> "unborn"]
    /\ history = [e \in Entities |-> <<>>]
    /\ announced = {}

Begin(e, d) ==
    /\ phase[e] = "unborn"
    /\ phase' = [phase EXCEPT ![e] = "live"]
    /\ history' = [history EXCEPT ![e] = <<d>>]
    /\ announced' = announced \cup {<<e, 1>>}

Extend(e, d) ==
    /\ phase[e] = "live"
    /\ history' = [history EXCEPT ![e] = Append(@, d)]
    /\ announced' = announced \cup {<<e, Len(history[e]) + 1>>}
    /\ UNCHANGED phase

Retire(e) ==
    /\ phase[e] = "live"
    /\ phase' = [phase EXCEPT ![e] = "gone"]
    /\ history' = [history EXCEPT ![e] = <<>>]
    /\ announced' = {a \in announced : a[1] # e}

\* One commit that extends e with what it absorbs of x, and retires x.
Absorb(e, x, d) ==
    /\ e # x
    /\ phase[e] = "live" /\ phase[x] = "live"
    /\ phase' = [phase EXCEPT ![x] = "gone"]
    /\ history' = [history EXCEPT ![e] = Append(@, d), ![x] = <<>>]
    /\ announced' = {a \in announced : a[1] # x}
                        \cup {<<e, Len(history[e]) + 1>>}

Next ==
    \E e \in Entities :
        \/ Retire(e)
        \/ \E d \in Documents :
            \/ Begin(e, d)
            \/ Extend(e, d)
            \/ \E x \in Entities : Absorb(e, x, d)

Spec == Init /\ [][Next]_vars
=============================================================================
