------------------------------- MODULE MCRun -------------------------------
(***************************************************************************)
(* Instances of MaintenanceRun for TLC.                                    *)
(***************************************************************************)
EXTENDS MaintenanceRun, TLC

CONSTANTS a, b

OneTable == {a}
TwoTables == {a, b}

Plain == [dry_run |-> FALSE, force |-> FALSE, skip_active_vacuum |-> FALSE,
          skip_locked |-> FALSE, lag_gate |-> FALSE]
Gated == [Plain EXCEPT !.lag_gate = TRUE]

(* The runner of phase 5 polls the dead tuples and discovers twice, that   *)
(* of phase 2 does neither and analyzes.                                   *)
KindsOfMode == {{2}, {5}}
ModePairs == {{p, q} : p, q \in 1..7}

(* Every combination of flags with a mode of each kind, and the default    *)
(* flags with every one or two modes.                                      *)
EveryOption ==
    [policy : Policy, modes : KindsOfMode] \cup [policy : {Plain}, modes : ModePairs]

Bloat == [policy : {Plain}, modes : {{4}}]
BloatGatedOrNot == [policy : {Plain, Gated}, modes : {{4}}]
NeverVacuumedAndFreeze == [policy : {Plain}, modes : {{1, 3}}]
=============================================================================
