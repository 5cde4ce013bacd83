----------------------------- MODULE Interactor -----------------------------
(* The form that calls anything the API has (Interactor.js): an interaction*)
(* type, a pallet, a callable of it and the inputs of its parameters. The  *)
(* menus and the fields are state of their own, set by effects; React runs *)
(* the effects of a render before the next event, so a choice and its      *)
(* effects are one step. An effect that looks up what does not exist throws*)
(* and React takes the whole application down.                             *)
EXTENDS TxButton

CONSTANTS
    Api,            \* Api[type][pallet]: callable -> fields, as the metadata says
    JsonRpc         \* jsonrpc: the same for the requests that are described

VARIABLES
    interxType,
    formState,      \* palletRpc, callable, inputParams
    palletRPCs,     \* the menu of pallets
    callables,      \* the menu of callables
    paramFields,    \* the fields shown
    thrown          \* an effect threw

interactorVars == <<interxType, formState, palletRPCs, callables, paramFields, thrown>>

InteractionTypes == {"EXTRINSIC", "QUERY", "RPC", "CONSTANT"}

InitFormState == [palletRpc |-> "", callable |-> "", inputParams |-> <<>>]

PalletsOf(type) == {p \in DOMAIN Api[type] : DOMAIN Api[type][p] # {}}

Known(type, p) == p \in DOMAIN Api[type]
Exists(type, p, callable) == Known(type, p) /\ callable \in DOMAIN Api[type][p]

(* updateParamFields: a request without a description has no fields, and   *)
(* a constant has none.                                                    *)
FieldsOf(type, p, callable) ==
    CASE type = "CONSTANT" -> <<>>
      [] type = "RPC" -> IF p \in DOMAIN JsonRpc /\ callable \in DOMAIN JsonRpc[p]
                         THEN JsonRpc[p][callable] ELSE <<>>
      [] OTHER -> Api[type][p][callable]

(* The three effects, after the choice of a type, a pallet or a callable.  *)
(* Without a pallet the menu of callables stays as it was.                 *)
Effects ==
    LET p == formState'.palletRpc
        callable == formState'.callable
        chosen == p # "" /\ callable # ""
    IN  /\ palletRPCs' = PalletsOf(interxType')
        /\ callables' = IF p = "" \/ ~Known(interxType', p) THEN callables
                        ELSE DOMAIN Api[interxType'][p]
        /\ thrown' = \/ p # "" /\ ~Known(interxType', p)
                     \/ chosen /\ interxType' \in {"QUERY", "EXTRINSIC"} /\ ~Exists(interxType', p, callable)
        /\ paramFields' = IF ~chosen \/ thrown' THEN <<>> ELSE FieldsOf(interxType', p, callable)

InteractorInit ==
    /\ interxType = "EXTRINSIC"
    /\ formState = InitFormState
    /\ palletRPCs = PalletsOf("EXTRINSIC")
    /\ callables = {}
    /\ paramFields = <<>>
    /\ thrown = FALSE

OnInterxTypeChange(type) ==
    /\ type # interxType
    /\ interxType' = type
    /\ formState' = InitFormState
    /\ Effects

\* Slip: the callable is kept.
ChoosePalletKeeping(p) ==
    /\ p \in palletRPCs
    /\ formState' = [formState EXCEPT !.palletRpc = p, !.inputParams = <<>>]
    /\ UNCHANGED interxType
    /\ Effects

(* onPalletCallableParamChange, for its three kinds of state.              *)
ChoosePallet(p) ==
    /\ p \in palletRPCs
    /\ formState' = [palletRpc |-> p, callable |-> "", inputParams |-> <<>>]
    /\ UNCHANGED interxType
    /\ Effects

ChooseCallable(callable) ==
    /\ callable \in callables
    /\ formState' = [formState EXCEPT !.callable = callable, !.inputParams = <<>>]
    /\ UNCHANGED interxType
    /\ Effects

Input(i, text) ==
    /\ i \in DOMAIN paramFields
    /\ formState' = [formState EXCEPT !.inputParams =
                       [n \in DOMAIN @ \cup {i} |-> IF n = i THEN text ELSE @[n]]]
    /\ UNCHANGED <<interxType, palletRPCs, callables, paramFields, thrown>>

(* InteractorSubmit: a group of three buttons for an extrinsic, one button *)
(* for all the others.                                                     *)
SubmitType(b) ==
    CASE b = "unsigned" -> "UNSIGNED-TX"
      [] b = "signed" -> "SIGNED-TX"
      [] b = "sudo" -> "SUDO-TX"
      [] OTHER -> interxType

GroupOf(type) == IF type = "EXTRINSIC" THEN {"unsigned", "signed", "sudo"} ELSE {"submit"}

Submit(b, account) ==
    /\ b \in GroupOf(interxType)
    /\ Press(b, SubmitType(b),
             [palletRpc |-> formState.palletRpc, callable |-> formState.callable,
              inputParams |-> formState.inputParams, paramFields |-> paramFields,
              about |-> ""], account)
    /\ UNCHANGED interactorVars

InteractorStep(texts, account) ==
    /\ ~thrown
    /\ \/ \E type \in InteractionTypes :
            /\ OnInterxTypeChange(type)
            /\ IF GroupOf(type) = GroupOf(interxType) THEN UNCHANGED txVars
               ELSE Replaced(GroupOf(interxType))
       \/ \E p \in palletRPCs : ChoosePallet(p) /\ UNCHANGED txVars
       \/ \E callable \in callables : ChooseCallable(callable) /\ UNCHANGED txVars
       \/ \E i \in DOMAIN paramFields, text \in texts : Input(i, text) /\ UNCHANGED txVars
       \/ \E b \in Buttons : Submit(b, account)

(***************************************************************************)
(* Properties.                                                             *)
(***************************************************************************)

(* Whatever is chosen in whatever order, a menu left from another type     *)
(* included, no effect looks up what the API does not have, and what the   *)
(* buttons would send exists, with its own fields and inputs for no others *)
(* (Interactor.js:50-55, 121-144).                                         *)
CallExists ==
    /\ ~thrown
    /\ LET p == formState.palletRpc
           callable == formState.callable
       IN  /\ p # "" /\ callable # "" =>
                Exists(interxType, p, callable) /\ paramFields = FieldsOf(interxType, p, callable)
           /\ DOMAIN formState.inputParams \subseteq DOMAIN paramFields
=============================================================================
