------------------------------ MODULE TxButton ------------------------------
(* The button that sends a transaction, a query or a request (TxButton.js). *)
(* It is not disabled while something it started is on its way: pressed     *)
(* again it ends the watching of what it started last, if the handle is     *)
(* stored by then. All buttons of a page write one status line.             *)
(*                                                                          *)
(* polkadot-js is external: the handle is there with the first value, each  *)
(* value is handed over by a timer of zero, which no unsubscribing stops.   *)
EXTENDS Naturals, Sequences, FiniteSets

CONSTANTS
    Buttons,        \* the buttons of a page
    SourceOf,       \* the wallet extension an account was injected by ...
    NoSource,       \* ... or none: the keyring holds its pair
    SudoKey,        \* the sudo key of the chain ...
    NoKey,          \* ... not loaded, or empty
    MaxSends        \* how often buttons are pressed

ASSUME TxButtonAssumption == MaxSends \in Nat

VARIABLES
    sends,          \* everything started, in order
    handle,         \* unsub of each button: 0, Promise or an index of sends
    instance,       \* how often the button was mounted
    status,         \* the start whose words the status line shows, or 0
    signer,         \* the signer of the API, one for the whole page
    sudoKey         \* sudoKey of the buttons

txVars == <<sends, handle, instance, status, signer, sudoKey>>

(* unsub of a sudo call is a promise, which the button does not call.      *)
Promise == MaxSends + 1

Types == {"QUERY", "RPC", "CONSTANT", "SIGNED-TX", "UNSIGNED-TX", "SUDO-TX", "UNCHECKED-SUDO-TX"}
IsSudo(type) == type \in {"SUDO-TX", "UNCHECKED-SUDO-TX"}
Signs(type) == IsSudo(type) \/ type = "SIGNED-TX"

TxButtonInit ==
    /\ sends = <<>>
    /\ handle = [b \in Buttons |-> 0]
    /\ instance = [b \in Buttons |-> 0]
    /\ status = 0
    /\ signer = NoSource
    /\ sudoKey = NoKey

(* loadSudoKey.                                                            *)
LoadSudoKey ==
    /\ sudoKey # SudoKey
    /\ sudoKey' = SudoKey
    /\ UNCHANGED <<sends, handle, instance, status, signer>>

(* What a field holds: a text, blanks, nothing typed or all of it erased;  *)
(* the number 0 and the object {} are the initial values of two forms.     *)
NotGiven == {"null", ""}
Falsy == NotGiven \cup {"blank", "number 0"}
InputOf(inputs, i) == IF i \in DOMAIN inputs THEN inputs[i] ELSE "null"

\* Slip: only the first field is looked at.
FirstParamFilled(fields, inputs) ==
    \A i \in DOMAIN fields \cap {1} : fields[i].optional \/ InputOf(inputs, i) \notin NotGiven

(* Blanks, the number 0 and {} pass for given.                             *)
AllParamsFilled(fields, inputs) ==
    \A i \in DOMAIN fields : fields[i].optional \/ InputOf(inputs, i) \notin NotGiven

(* The arguments of a call: every field with its value as its type wants   *)
(* it, null for an empty one; or, for RPC, the empty ones left out.        *)
Null == <<"null">>

TransformParams(fields, inputs, emptyAsNull) ==
    LET all == [i \in DOMAIN fields |->
                  IF InputOf(inputs, i) \in Falsy THEN Null
                  ELSE <<fields[i].type, InputOf(inputs, i)>>]
    IN  IF emptyAsNull THEN all ELSE SelectSeq(all, LAMBDA v : v # Null)

(* An unchecked sudo call takes the inputs as they are.                    *)
Arguments(type, attrs) ==
    IF type = "UNCHECKED-SUDO-TX" THEN [i \in DOMAIN attrs.inputParams |-> <<"raw", attrs.inputParams[i]>>]
    ELSE TransformParams(attrs.paramFields, attrs.inputParams, type # "RPC")

Enabled(type, attrs, account) ==
    /\ attrs.palletRpc # "" /\ attrs.callable # ""
    /\ AllParamsFilled(attrs.paramFields, attrs.inputParams)
    /\ IsSudo(type) => sudoKey # NoKey /\ account = sudoKey

InPhase(i, phase) == i \in DOMAIN sends /\ sends[i].phase = phase
Phase(i, phase) == sends' = [sends EXCEPT ![i].phase = phase]

Ended == {"over", "stopped"}

(* What b cannot stop any more when it is pressed again: a start whose     *)
(* handle it does not hold, or one with a value on its way (a history).    *)
Escapes(b, i) ==
    sends[i].button = b /\ sends[i].phase \notin Ended /\ (handle[b] # i \/ sends[i].due)

\* Slip: transaction does not unsubscribe.
UnsubscribedNot(b) ==
    [i \in DOMAIN sends |-> [sends[i] EXCEPT !.escaped = @ \/ Escapes(b, i)]]

Unsubscribed(b) ==
    [i \in DOMAIN sends |->
        [sends[i] EXCEPT !.phase = IF handle[b] = i THEN "stopped" ELSE @,
                         !.escaped = @ \/ Escapes(b, i)]]

(* transaction. about is the record an input names. A constant is there at once; a call that signs first asks  *)
(* for the account; the others are sent.                                   *)
Press(b, type, attrs, account) ==
    /\ Len(sends) < MaxSends
    /\ Enabled(type, attrs, account)
    /\ sends' = Append(Unsubscribed(b),
                  [button |-> b, instance |-> instance[b], type |-> type,
                   palletRpc |-> attrs.palletRpc, callable |-> attrs.callable,
                   fields |-> attrs.paramFields, inputs |-> attrs.inputParams,
                   args |-> Arguments(type, attrs), about |-> attrs.about, from |-> account,
                   phase |-> IF type = "CONSTANT" THEN "over"
                             ELSE IF Signs(type) THEN "account" ELSE "sent",
                   due |-> FALSE, escaped |-> FALSE, inBlock |-> FALSE])
    /\ handle' = [handle EXCEPT ![b] = IF @ = Promise THEN @ ELSE 0]
    /\ status' = Len(sends')
    /\ UNCHANGED <<instance, signer, sudoKey>>

Injected(i) == SourceOf[sends[i].from] # NoSource

(* setUnsub of the instance that started i.                                *)
Stored(i, value) ==
    IF instance[sends[i].button] = sends[i].instance
    THEN [handle EXCEPT ![sends[i].button] = value] ELSE handle

(* getFromAcct, then the call is built and handed to the signer.           *)
GetFromAcct(i) ==
    /\ InPhase(i, "account")
    /\ Phase(i, "signing")
    /\ signer' = IF Injected(i) THEN SourceOf[sends[i].from] ELSE signer
    /\ handle' = IF IsSudo(sends[i].type) THEN Stored(i, Promise) ELSE handle
    /\ UNCHANGED <<instance, status, sudoKey>>

(* The extension does not answer, the call does not build, or a query is   *)
(* refused: nothing catches it, the status line goes on saying "Sending...".*)
Throw(i) ==
    /\ \/ InPhase(i, "account")
       \/ InPhase(i, "sent") /\ sends[i].type \in {"QUERY", "RPC"}
    /\ Phase(i, "over")
    /\ signer' \in IF Signs(sends[i].type) /\ Injected(i) THEN {signer, SourceOf[sends[i].from]} ELSE {signer}
    /\ UNCHANGED <<handle, instance, status, sudoKey>>

(* signAndSend: the pair signs, or the signer the API has by now, which    *)
(* knows the accounts of its own extension only.                           *)
Sign(i) ==
    /\ InPhase(i, "signing")
    /\ Injected(i) => signer = SourceOf[sends[i].from]
    /\ Phase(i, "sent")
    /\ UNCHANGED <<handle, instance, status, signer, sudoKey>>

(* txErrHandler: the signer, the pool or the node refuses.                 *)
Refuse(i) ==
    /\ \/ InPhase(i, "signing")
       \/ InPhase(i, "sent") /\ sends[i].type \notin {"QUERY", "RPC"}
    /\ Phase(i, "over")
    /\ status' = i
    /\ handle' = IF IsSudo(sends[i].type) THEN handle ELSE Stored(i, 0)
    /\ UNCHANGED <<instance, signer, sudoKey>>

(* The first value, with the handle: the promise resolves.                 *)
FirstValue(i) ==
    /\ InPhase(i, "sent")
    /\ sends' = [sends EXCEPT ![i].phase = "watched", ![i].due = TRUE]
    /\ handle' = IF IsSudo(sends[i].type) THEN handle ELSE Stored(i, i)
    /\ UNCHANGED <<instance, status, signer, sudoKey>>

NextValue(i) ==
    /\ InPhase(i, "watched") /\ ~sends[i].due
    /\ sends' = [sends EXCEPT ![i].due = TRUE]
    /\ UNCHANGED <<handle, instance, status, signer, sudoKey>>

(* txResHandler, queryResHandler.                                          *)
ResHandler(i) ==
    /\ i \in DOMAIN sends /\ sends[i].due
    /\ sends' = [sends EXCEPT ![i].due = FALSE]
    /\ status' = i
    /\ UNCHANGED <<handle, instance, signer, sudoKey>>

(* Other buttons replace those of B: nothing is unsubscribed.              *)
Replaced(B) ==
    /\ handle' = [b \in Buttons |-> IF b \in B THEN 0 ELSE handle[b]]
    /\ instance' = [b \in Buttons |-> IF b \in B THEN instance[b] + 1 ELSE instance[b]]
    /\ UNCHANGED <<sends, status, signer, sudoKey>>

TxButtonStep ==
    \/ LoadSudoKey
    \/ \E i \in DOMAIN sends :
         \/ GetFromAcct(i) \/ Throw(i) \/ Sign(i) \/ Refuse(i)
         \/ FirstValue(i) \/ NextValue(i) \/ ResHandler(i)

(***************************************************************************)
(* Properties.                                                             *)
(***************************************************************************)

(* The status line is about the last button pressed, unless an earlier     *)
(* start could not be stopped: it belongs to another button, it is a sudo  *)
(* call, or its handle was not there, or was lost to another start of its  *)
(* button, or a value of it was on its way (TxButton.js:81, 103-105, 141). *)
StatusIsLatest ==
    status \notin {0, Len(sends)} =>
        LET s == sends[status]
        IN  s.escaped \/ s.button # sends[Len(sends)].button

(* An argument is passed for every field, converted by the type of that    *)
(* very field, and for a required one it is null only if blanks were typed *)
(* or the form's own number 0 was left (TxButton.js:157-208). Requests     *)
(* leave empty arguments out, which moves what follows them.               *)
ArgsFit ==
    \A i \in DOMAIN sends :
        LET s == sends[i]
        IN  s.type \notin {"RPC", "UNCHECKED-SUDO-TX"} =>
              /\ DOMAIN s.args = DOMAIN s.fields
              /\ \A n \in DOMAIN s.fields :
                   \/ s.args[n] = <<s.fields[n].type, InputOf(s.inputs, n)>>
                   \/ s.args[n] = Null /\ (s.fields[n].optional \/ InputOf(s.inputs, n) \in Falsy \ NotGiven)
=============================================================================
