------------------------------- MODULE Forms -------------------------------
(* The forms and buttons that send a transaction. All follow one protocol: *)
(* set the flag, wait for the account (tx.js), set the signer of the API,  *)
(* build the call, sign and send it, watch its status until it is finalized*)
(* and reset the flag. They differ in where their state lives, in what     *)
(* disables them and in which endings reset the flag (the rows below).     *)
(*                                                                         *)
(* A handler is a closure over the render in which the button was pressed. *)
(* Setting the state of an instance no longer mounted does nothing, but the*)
(* closure that closes a dialog belongs to the page: it closes whichever   *)
(* instance is open then. A dialog is closed at any time by its cross, so  *)
(* the Discard button, often disabled, adds nothing to Close.              *)
EXTENDS Uploads

CONSTANTS
    Accounts,       \* addresses
    SourceOf,       \* the wallet extension an account was injected by ...
    NoSource,       \* ... or none: the keyring holds its pair
    NoImage,        \* images: []
    MaxTyped,       \* how often a text is typed
    MaxMounts,      \* how often a dialog is opened
    MaxTxs          \* transactions started

(* own: the state lives in the content of the dialog, not in the page.     *)
(* text: what is typed; "required": missing, it is undefined and throws.   *)
(* amount: the call does not build from an amount that is no number.       *)
(* resets: the outer catch resets the flag. closes: finalized, the dialog  *)
(* is closed. clears: the drafts it empties. blocked: the flags that       *)
(* disable the button; opening: those that disable opening the dialog.     *)
PaymentForm ==
    [name |-> "createPayment", dialog |-> TRUE, own |-> TRUE, text |-> "optional",
     images |-> TRUE, amount |-> TRUE, resets |-> FALSE, closes |-> TRUE, clears |-> {},
     blocked |-> {"createPayment"}, opening |-> {}]

CancelPaymentConfirmation ==
    [name |-> "cancelPayment", dialog |-> TRUE, own |-> TRUE, text |-> "none",
     images |-> FALSE, amount |-> FALSE, resets |-> FALSE, closes |-> TRUE, clears |-> {},
     blocked |-> {"cancelPayment"}, opening |-> {}]

DisputeForm ==
    [name |-> "disputeOwned", dialog |-> TRUE, own |-> TRUE, text |-> "required",
     images |-> TRUE, amount |-> FALSE, resets |-> TRUE, closes |-> TRUE, clears |-> {},
     blocked |-> {"disputeOwned"}, opening |-> {}]

ResolverApplicationForm ==
    [name |-> "applyToBeResolver", dialog |-> TRUE, own |-> TRUE, text |-> "optional",
     images |-> FALSE, amount |-> FALSE, resets |-> FALSE, closes |-> TRUE, clears |-> {},
     blocked |-> {"applyToBeResolver"}, opening |-> {}]

ResolverDeletatingConfirmation ==
    [name |-> "stakeToResolver", dialog |-> TRUE, own |-> TRUE, text |-> "optional",
     images |-> FALSE, amount |-> TRUE, resets |-> FALSE, closes |-> TRUE, clears |-> {},
     blocked |-> {"stakeToResolver"}, opening |-> {}]

Faucet ==
    [name |-> "faucet", dialog |-> FALSE, own |-> FALSE, text |-> "none",
     images |-> FALSE, amount |-> FALSE, resets |-> TRUE, closes |-> FALSE, clears |-> {},
     blocked |-> {"faucet"}, opening |-> {}]

DepositPayment ==
    [name |-> "depositPayment", dialog |-> FALSE, own |-> FALSE, text |-> "none",
     images |-> FALSE, amount |-> FALSE, resets |-> TRUE, closes |-> FALSE, clears |-> {},
     blocked |-> {"depositPayment"}, opening |-> {}]

CompletePayment ==
    [name |-> "completePayment", dialog |-> FALSE, own |-> FALSE, text |-> "none",
     images |-> FALSE, amount |-> FALSE, resets |-> TRUE, closes |-> FALSE, clears |-> {},
     blocked |-> {"completePayment", "disputePayment"}, opening |-> {}]

DisputePayment ==
    [name |-> "disputePayment", dialog |-> TRUE, own |-> FALSE, text |-> "optional",
     images |-> TRUE, amount |-> FALSE, resets |-> TRUE, closes |-> TRUE, clears |-> {},
     blocked |-> {"disputePayment"}, opening |-> {"disputePayment", "completePayment"}]

SubmitProof ==
    [name |-> "submitProof", dialog |-> FALSE, own |-> FALSE, text |-> "optional",
     images |-> TRUE, amount |-> FALSE, resets |-> FALSE, closes |-> FALSE,
     clears |-> {"submitProof"}, blocked |-> {"submitProof"}, opening |-> {}]

ResolveDispute ==
    [name |-> "solveDispute", dialog |-> TRUE, own |-> FALSE, text |-> "none",
     images |-> FALSE, amount |-> FALSE, resets |-> FALSE, closes |-> TRUE,
     clears |-> {"submitProof"}, blocked |-> {"solveDispute"}, opening |-> {}]

Rows ==
    {PaymentForm, CancelPaymentConfirmation, DisputeForm, ResolverApplicationForm,
     ResolverDeletatingConfirmation, Faucet, DepositPayment, CompletePayment,
     DisputePayment, SubmitProof, ResolveDispute}

Row == [f \in {r.name : r \in Rows} |-> CHOOSE r \in Rows : r.name = f]

ASSUME FormsAssumption ==
    /\ Forms = DOMAIN Row
    /\ NoImage \notin Keys \cup {NoUrl}
    /\ DOMAIN SourceOf = Accounts
    /\ MaxTyped \in Nat /\ MaxMounts \in Nat /\ MaxTxs \in Nat

VARIABLES
    open,           \* the dialog of a form is shown
    mounts,         \* how often it was: the number of the instance
    busy,           \* isSubmitting, isCancelling, isDepositing ... of a form
    draft,          \* what the form holds: its text and its images
    typed,          \* the last text typed into it
    txs,            \* every transaction started, in order
    signer          \* the signer of the API, one for the whole page

formVars == <<open, mounts, busy, draft, typed, txs, signer, uploadVars>>

(* useState of a form: DisputeForm starts with nothing at all.             *)
EmptyDraft(f) == [text |-> 0, image |-> IF Row[f].text = "required" THEN NoUrl ELSE NoImage]

FormsInit ==
    /\ UploadsInit
    /\ open = [f \in Forms |-> FALSE]
    /\ mounts = [f \in Forms |-> 0]
    /\ busy = [f \in Forms |-> FALSE]
    /\ draft = [f \in Forms |-> EmptyDraft(f)]
    /\ typed = [f \in Forms |-> 0]
    /\ txs = <<>>
    /\ signer = NoSource

(* A dialog covers the page.                                               *)
Covered == \E f \in Forms : open[f]
Usable(f) == IF Row[f].dialog THEN open[f] ELSE ~Covered

(* The uploader of an instance is mounted; the state of an instance is.    *)
Mounted(f, mount) == mounts[f] = mount /\ (Row[f].dialog => open[f])
Alive(f, mount) == Row[f].own => Mounted(f, mount)

Open(f) ==
    /\ Row[f].dialog /\ ~Covered /\ mounts[f] < MaxMounts
    /\ \A g \in Row[f].opening : ~busy[g]
    /\ open' = [open EXCEPT ![f] = TRUE]
    /\ mounts' = [mounts EXCEPT ![f] = @ + 1]
    /\ loading' = [loading EXCEPT ![f] = FALSE]
    /\ UNCHANGED <<busy, draft, typed, txs, signer, uploads, store>>

(* The dialog goes, and with its content the state that lives there.       *)
Closed(f) ==
    /\ open' = [open EXCEPT ![f] = FALSE]
    /\ busy' = [busy EXCEPT ![f] = @ /\ ~Row[f].own]
    /\ draft' = [draft EXCEPT ![f] = IF Row[f].own THEN EmptyDraft(f) ELSE @]
    /\ typed' = [typed EXCEPT ![f] = IF Row[f].own THEN 0 ELSE @]

(* Discard, the cross of the dialog, or the escape key.                    *)
Close(f) ==
    /\ open[f]
    /\ Closed(f)
    /\ UNCHANGED <<mounts, txs, signer, uploadVars>>

(* onInput of a text field.                                                *)
Type(f) ==
    /\ Usable(f) /\ Row[f].text # "none" /\ typed[f] < MaxTyped
    /\ typed' = [typed EXCEPT ![f] = @ + 1]
    /\ draft' = [draft EXCEPT ![f].text = typed'[f]]
    /\ UNCHANGED <<open, mounts, busy, txs, signer, uploadVars>>

ChooseImage(f) ==
    /\ Usable(f) /\ Row[f].images
    /\ SelectFile(f, mounts[f], draft[f].text)
    /\ UNCHANGED <<open, mounts, busy, draft, typed, txs, signer>>

ReadImage(u, key) ==
    /\ FileRead(u, key, Mounted(uploads[u].form, uploads[u].mount))
    /\ UNCHANGED <<open, mounts, busy, draft, typed, txs, signer>>

StoreImage(u) ==
    /\ ServiceStep(u)
    /\ UNCHANGED <<open, mounts, busy, draft, typed, txs, signer>>

\* Slip: the update of the images does not spread the form.
ImageUploadedAlone(u) ==
    LET f == uploads[u].form
    IN  /\ UploadEnds(u, Mounted(f, uploads[u].mount))
        /\ draft' = IF At(u, "answered") /\ Alive(f, uploads[u].mount)
                    THEN [draft EXCEPT ![f] = [text |-> 0, image |-> uploads[u].url]]
                    ELSE draft
        /\ UNCHANGED <<open, mounts, busy, typed, txs, signer>>

(* onImagesUploaded: the images replace those of the form as it was when   *)
(* the file was chosen, and so does every other field.                     *)
ImageUploaded(u) ==
    LET f == uploads[u].form
    IN  /\ UploadEnds(u, Mounted(f, uploads[u].mount))
        /\ draft' = IF At(u, "answered") /\ Alive(f, uploads[u].mount)
                    THEN [draft EXCEPT ![f] = [text |-> uploads[u].text, image |-> uploads[u].url]]
                    ELSE draft
        /\ UNCHANGED <<open, mounts, busy, typed, txs, signer>>

(* The call cannot be built: Buffer.from(undefined), or no number.         *)
Unbuildable(f) ==
    {draft[f].image = NoUrl \/ (Row[f].text = "required" /\ draft[f].text = 0)}
        \cup (IF Row[f].amount THEN {TRUE} ELSE {})

(* The button: the flag is set, the account is asked for. shown is the     *)
(* account the page displays, from the one the handler holds.              *)
Press(f, from, shown) ==
    /\ Usable(f) /\ Len(txs) < MaxTxs
    /\ \A g \in Row[f].blocked : ~busy[g]
    /\ busy' = [busy EXCEPT ![f] = TRUE]
    /\ \E bad \in Unbuildable(f) :
         txs' = Append(txs, [form |-> f, mount |-> mounts[f], from |-> from, shown |-> shown,
                             bad |-> bad, phase |-> "account"])
    /\ UNCHANGED <<open, mounts, draft, typed, signer, uploadVars>>

InPhase(t, phase) == t \in DOMAIN txs /\ txs[t].phase = phase
Moves(t, phase) == txs' = [txs EXCEPT ![t].phase = phase]
Injected(t) == SourceOf[txs[t].from] # NoSource

\* Slip: a rejected promise is not caught.
ResetOnSuccess(t) ==
    IF Alive(txs[t].form, txs[t].mount) /\ InPhase(t, "included")
    THEN [busy EXCEPT ![txs[t].form] = FALSE] ELSE busy

(* The flag of the instance that started t.                                *)
Reset(t) ==
    IF Alive(txs[t].form, txs[t].mount) THEN [busy EXCEPT ![txs[t].form] = FALSE] ELSE busy

(* getFromAcct: the pair itself, or the address with the extension's signer*)
(* which becomes the signer of the API. Then the call is built.            *)
GetFromAcct(t) ==
    /\ InPhase(t, "account") /\ ~txs[t].bad
    /\ Moves(t, "signing")
    /\ signer' = IF Injected(t) THEN SourceOf[txs[t].from] ELSE signer
    /\ UNCHANGED <<open, mounts, busy, draft, typed, uploadVars>>

(* The extension does not answer for its source, or the call does not      *)
(* build: the outer catch.                                                 *)
Throw(t) ==
    /\ InPhase(t, "account") /\ (Injected(t) \/ txs[t].bad)
    /\ Moves(t, "thrown")
    /\ signer' \in IF txs[t].bad /\ Injected(t) THEN {signer, SourceOf[txs[t].from]} ELSE {signer}
    /\ busy' = IF Row[txs[t].form].resets THEN Reset(t) ELSE busy
    /\ UNCHANGED <<open, mounts, draft, typed, uploadVars>>

(* signAndSend: the pair signs, or the signer the API has by now, which    *)
(* knows the accounts of its own extension only.                           *)
Sign(t) ==
    /\ InPhase(t, "signing")
    /\ Injected(t) => signer = SourceOf[txs[t].from]
    /\ Moves(t, "sent")
    /\ UNCHANGED <<open, mounts, busy, draft, typed, signer, uploadVars>>

(* The signer or the node refuses it: the promise is rejected.             *)
Refuse(t) ==
    /\ InPhase(t, "signing")
    /\ Moves(t, "refused")
    /\ busy' = Reset(t)
    /\ UNCHANGED <<open, mounts, draft, typed, signer, uploadVars>>

(* Dropped, Invalid or Usurped: a status like any other, only notified.    *)
Drop(t) ==
    /\ InPhase(t, "sent")
    /\ Moves(t, "dropped")
    /\ UNCHANGED <<open, mounts, busy, draft, typed, signer, uploadVars>>

\* Slip: the flag is reset when the transaction is in a block.
IncludeAndReset(t) ==
    /\ InPhase(t, "sent")
    /\ Moves(t, "included")
    /\ busy' = Reset(t)
    /\ UNCHANGED <<open, mounts, draft, typed, signer, uploadVars>>

(* In a block: a status only notified; the dispatch may have failed.       *)
Include(t) ==
    /\ InPhase(t, "sent")
    /\ Moves(t, "included")
    /\ UNCHANGED <<open, mounts, busy, draft, typed, signer, uploadVars>>

(* status.isFinalized: a success, whatever the dispatch did. The closure   *)
(* that closes the dialog closes the one open now.                         *)
Finalize(t) ==
    LET row == Row[txs[t].form]
    IN  /\ InPhase(t, "included")
        /\ Moves(t, "finalized")
        /\ open' = [open EXCEPT ![row.name] = @ /\ ~row.closes]
        /\ busy' = IF row.own THEN [busy EXCEPT ![row.name] = FALSE] ELSE Reset(t)
        /\ draft' = [f \in Forms |-> IF f \in row.clears \/ (row.own /\ f = row.name)
                                     THEN EmptyDraft(f) ELSE draft[f]]
        /\ typed' = IF row.own THEN [typed EXCEPT ![row.name] = 0] ELSE typed
        /\ UNCHANGED <<mounts, signer, uploadVars>>
=============================================================================
