------------------------------- MODULE Upload -------------------------------
(***************************************************************************)
(* What an upload in parts promises its client, whatever carries it out:   *)
(* it ends at most once, with success only if the server has every part of *)
(* the file, and it never speaks to a client that has abandoned it.        *)
(***************************************************************************)
EXTENDS Naturals

CONSTANT MaxParts       \* bound on the parts of a file

VARIABLES
    parts,      \* how many parts the file has
    stored,     \* the parts the server has
    phase

vars == <<parts, stored, phase>>

Init ==
    /\ parts \in 0..MaxParts
    /\ stored = {}
    /\ phase = "idle"

Begin ==
    /\ phase = "idle"
    /\ phase' = "running"
    /\ UNCHANGED <<parts, stored>>

(* A part that is on its way may arrive after its client has gone. *)
Store(p) ==
    /\ phase # "idle"
    /\ stored' = stored \cup {p}
    /\ UNCHANGED <<parts, phase>>

End(result) ==
    /\ phase = "running"
    /\ result = "success" => stored = 0..(parts - 1)
    /\ phase' = result
    /\ UNCHANGED <<parts, stored>>

Abandon ==
    /\ phase \in {"idle", "running"}
    /\ phase' = "abandoned"
    /\ UNCHANGED <<parts, stored>>

Next ==
    \/ Begin
    \/ \E p \in 0..(parts - 1) : Store(p)
    \/ \E result \in {"success", "fail"} : End(result)
    \/ Abandon

Spec == Init /\ [][Next]_vars
=============================================================================
