------------------------------ MODULE Template ------------------------------
(* The template pallet: one number anybody may store, or add one to.       *)
EXTENDS Naturals

CONSTANT MaxU32     \* the largest number stored

ASSUME TemplateAssumption == MaxU32 \in Nat \ {0}

VARIABLE something  \* Something: Option<u32>, None is {}

TemplateInit == something = {}

DoSomething(value) == something' = {value}

(* cause_error: nothing stored, or an overflow, is an error.               *)
CauseError == \E old \in something : old < MaxU32 /\ something' = {old + 1}
=============================================================================
