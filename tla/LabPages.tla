------------------------------ MODULE LabPages ------------------------------
(* The pages built on the transaction button: the kitties of lab 06 with    *)
(* their pallet, the proof of existence of lab 05 with its pallet, and the  *)
(* forms every copy of the template has: the interactor, the transfer, the  *)
(* upgrade and the number of the template pallet.                           *)
(*                                                                          *)
(* A subscription's handle is there with its first value: a cleanup before  *)
(* that ends nothing, and the subscription goes on calling back (a leak).   *)
EXTENDS Kitties, Claims, Template, Interactor, SequencesExt

CONSTANTS
    EmptyDigest,    \* the digest of a file that is not loaded: of no bytes
    NoFile,         \* no file chosen: ''
    NoValue,        \* nothing received yet
    Texts,          \* what is typed into the fields of the interactor
    MaxFiles,       \* files chosen
    Views           \* what a behaviour follows: a page, the account it starts
                    \* with, so many steps of the user, so many of them on
                    \* its buttons, and so many calls of other users

ASSUME ButtonsAssumption ==
    {"unsigned", "signed", "sudo", "submit", "create", "transfer", "claim", "revoke", "upgrade",
     "store"} \subseteq Buttons

ASSUME ViewsAssumption == \A v \in Views : v.account \in Accounts

VARIABLES
    view,
    moves,          \* steps of the user so far
    calls,          \* calls of other users so far
    account,        \* accountPair of the pages
    typed,          \* the fields of the transfer and the upgrade
    kittiesPage,    \* state of Kitties.js and KittyCards.js
    claimsPage,     \* state of TemplateModule.js of lab 05
    currentValue    \* state of the other TemplateModule.js

labVars == <<view, moves, calls, account, typed>>
pageVars == <<interactorVars, kittiesPage, claimsPage, currentValue>>
vars == <<kittyVars, claimVars, something, txVars, labVars, pageVars>>

Move == moves < view.moves /\ moves' = moves + 1
On(page) == view.page = page

Required == [type |-> "string", optional |-> FALSE]

(* Subscriptions of an effect, one current and the leaked ones.            *)
Sub(key) == [key |-> key, seen |-> NoValue, cleaned |-> FALSE]

\* Slip: the effect returns no cleanup.
RerunWithoutCleanup(subs, key) == subs \cup {Sub(key)}

Rerun(subs, key) ==
    {[s EXCEPT !.cleaned = TRUE] : s \in {t \in subs : t.seen = NoValue \/ t.cleaned}} \cup {Sub(key)}

Leaked(subs) == {s \in subs : s.cleaned}

(***************************************************************************)
(* The kitties.                                                            *)
(***************************************************************************)

(* The order of the storage keys.                                          *)
KeyOrder == FoldSet(LAMBDA id, s : Append(s, id), <<>>, KittyId)
Entries == SelectSeq(KeyOrder, LAMBDA id : id \in DOMAIN kitties)

KittiesPageInit ==
    kittiesPage =
        [cnt |-> NoValue, fetches |-> <<>>, shown |-> 0, kittyHashes |-> <<>>,
         subs |-> {Sub(<<>>)}, kitties |-> <<>>, modal |-> 0, targets |-> {}]

\* Slip: a modal stays open whatever its card shows now.
CardsOfKept(a, page) == page

(* A card whose kitty is not the account's any more loses its modal, with  *)
(* what was typed into it. Modals belong to the place of a card.           *)
Mine(a, cards, i) == i \in DOMAIN cards /\ cards[i].owner = a

CardsOf(a, page) ==
    [page EXCEPT !.modal = IF Mine(a, page.kitties, @) THEN @ ELSE 0,
                 !.targets = {t \in @ : Mine(a, page.kitties, t[1])}]

ModalReplaced(page) ==
    IF kittiesPage.modal # page.modal THEN Replaced({"transfer"}) ELSE UNCHANGED txVars

(* The callback of kittyCnt: every new count fetches the entries.          *)
KittyCount ==
    /\ kittiesPage.cnt # kittyCnt
    /\ kittiesPage' = [kittiesPage EXCEPT
                        !.cnt = kittyCnt,
                        !.fetches = Append(@, [ids |-> NoValue, done |-> FALSE])]
    /\ UNCHANGED txVars

(* The node answers one of the requests for the entries, in any order ...  *)
ServeEntries(i) ==
    /\ kittiesPage.fetches[i].ids = NoValue
    /\ kittiesPage' = [kittiesPage EXCEPT !.fetches[i].ids = Entries]
    /\ UNCHANGED txVars

(* ... and the answer arrives: setKittyHashes, and the effect runs again.  *)
FetchArrives(i) ==
    /\ kittiesPage.fetches[i].ids # NoValue /\ ~kittiesPage.fetches[i].done
    /\ kittiesPage' = [kittiesPage EXCEPT
                        !.fetches[i].done = TRUE, !.shown = i,
                        !.kittyHashes = kittiesPage.fetches[i].ids,
                        !.subs = Rerun(@, kittiesPage.fetches[i].ids)]
    /\ UNCHANGED txVars

(* The callback of kitties.multi: constructKitty with the hashes of the    *)
(* render that subscribed.                                                 *)
KittyValues(key) ==
    [i \in DOMAIN key |->
        [id |-> key[i], price |-> kitties[key[i]].price, owner |-> kitties[key[i]].owner]]

KittiesArrive(s) ==
    LET page == [kittiesPage EXCEPT
                    !.subs = (@ \ {s}) \cup {[s EXCEPT !.seen = KittyValues(s.key)]},
                    !.kitties = KittyValues(s.key)]
    IN  /\ s.seen # KittyValues(s.key)
        /\ kittiesPage' = CardsOf(account, page)
        /\ ModalReplaced(kittiesPage')

(* TransferModal: its field is not controlled, what it held when the modal *)
(* was closed is kept although the field is shown empty.                   *)
OpenModal(i) ==
    /\ kittiesPage.modal = 0 /\ Mine(account, kittiesPage.kitties, i)
    /\ kittiesPage' = [kittiesPage EXCEPT !.modal = i]
    /\ Replaced({"transfer"})

CloseModal ==
    /\ kittiesPage.modal # 0
    /\ kittiesPage' = [kittiesPage EXCEPT !.modal = 0]
    /\ Replaced({"transfer"})

FormChange(target) ==
    /\ kittiesPage.modal # 0
    /\ kittiesPage' = [kittiesPage EXCEPT !.targets =
                        {t \in @ : t[1] # kittiesPage.modal} \cup {<<kittiesPage.modal, target>>}]
    /\ UNCHANGED txVars

Target == {t[2] : t \in {u \in kittiesPage.targets : u[1] = kittiesPage.modal}}

(* The button of the modal, which stays open, and the one that creates.    *)
TransferKitty ==
    /\ kittiesPage.modal # 0
    /\ \E target \in IF Target = {} THEN {"null"} ELSE Target :
         Press("transfer", "SIGNED-TX",
               [palletRpc |-> "substrateKitties", callable |-> "transfer",
                inputParams |-> <<target, "kitty">>, paramFields |-> <<Required, Required>>,
                about |-> kittiesPage.kitties[kittiesPage.modal].id], account)
    /\ UNCHANGED kittiesPage

CreateKittyButton ==
    /\ kittiesPage.modal = 0
    /\ Press("create", "SIGNED-TX",
             [palletRpc |-> "substrateKitties", callable |-> "createKitty",
              inputParams |-> <<>>, paramFields |-> <<>>, about |-> ""], account)
    /\ UNCHANGED kittiesPage

KittiesUser ==
    \/ \E i \in DOMAIN kittiesPage.kitties : OpenModal(i)
    \/ CloseModal
    \/ \E target \in Accounts : FormChange(target)
    \/ TransferKitty
    \/ CreateKittyButton

KittiesMirror ==
    \/ KittyCount
    \/ \E i \in DOMAIN kittiesPage.fetches : ServeEntries(i) \/ FetchArrives(i)
    \/ \E s \in kittiesPage.subs : KittiesArrive(s)

(***************************************************************************)
(* The claims.                                                             *)
(***************************************************************************)

ClaimsPageInit ==
    claimsPage = [readers |-> <<>>, rendered |-> TRUE, digest |-> NoFile,
                  subs |-> {Sub(NoFile)}, proof |-> NoProof]

(* handleFileChosen: the variable that holds the reader belongs to the     *)
(* render, so files chosen in one render share the last reader.            *)
ChooseFile(file) ==
    /\ Len(claimsPage.readers) < MaxFiles
    /\ LET n == Len(claimsPage.readers)
           render == IF n = 0 THEN 1
                     ELSE claimsPage.readers[n].render + (IF claimsPage.rendered THEN 1 ELSE 0)
       IN  claimsPage' = [claimsPage EXCEPT
                            !.readers = Append(@, [file |-> file, render |-> render, loaded |-> FALSE]),
                            !.rendered = FALSE]
    /\ UNCHANGED txVars

(* bufferToDigest: a file is loaded, and the render's last reader is looked*)
(* into, which may have no result yet. A digest that differs re-runs the   *)
(* effect.                                                                 *)
BufferToDigest(k) ==
    LET readers == [claimsPage.readers EXCEPT ![k].loaded = TRUE]
        lastOf == CHOOSE n \in DOMAIN readers :
                    /\ readers[n].render = readers[k].render
                    /\ \A o \in DOMAIN readers : readers[o].render = readers[k].render => o <= n
        digest == IF readers[lastOf].loaded THEN readers[lastOf].file ELSE EmptyDigest
    IN  /\ ~claimsPage.readers[k].loaded
        /\ claimsPage' = [claimsPage EXCEPT
                            !.readers = readers, !.digest = digest,
                            !.rendered = @ \/ digest # claimsPage.digest,
                            !.subs = IF digest = claimsPage.digest THEN @ ELSE Rerun(@, digest)]
        /\ UNCHANGED txVars

(* The callback of proofs: setOwner, setBlock.                             *)
ProofArrives(s) ==
    /\ s.seen # ProofOf(s.key)
    /\ claimsPage' = [claimsPage EXCEPT
                        !.subs = (@ \ {s}) \cup {[s EXCEPT !.seen = ProofOf(s.key)]},
                        !.proof = ProofOf(s.key),
                        !.rendered = @ \/ ProofOf(s.key) # claimsPage.proof]
    /\ UNCHANGED txVars

IsClaimed == claimsPage.proof.block # 0

ClaimButton(b, callable) ==
    /\ IF b = "claim" THEN ~IsClaimed /\ claimsPage.digest # NoFile
       ELSE IsClaimed /\ claimsPage.proof.owner = account
    /\ Press(b, "SIGNED-TX",
             [palletRpc |-> "templateModule", callable |-> callable,
              inputParams |-> <<"digest">>, paramFields |-> <<Required>>,
              about |-> claimsPage.digest], account)
    /\ claimsPage' = [claimsPage EXCEPT !.rendered = TRUE]

ClaimsUser ==
    \/ \E file \in Digests : ChooseFile(file)
    \/ ClaimButton("claim", "createClaim")
    \/ ClaimButton("revoke", "revokeClaim")

ClaimsMirror ==
    \/ \E k \in DOMAIN claimsPage.readers : BufferToDigest(k)
    \/ \E s \in claimsPage.subs : ProofArrives(s)

(***************************************************************************)
(* The transfer, the upgrade and the number of the template.               *)
(***************************************************************************)

TypedInit ==
    CASE On("transfer") -> <<"null", "number 0">>
      [] On("upgrade") -> <<"{}">>
      [] On("template") -> <<"number 0">>
      [] OTHER -> <<>>

(* onChange of an input; a file is loaded: its bytes as a hexadecimal text;*)
(* a number has no blanks.                                                 *)
OnChange(i, text) ==
    /\ i \in DOMAIN typed /\ typed[i] # text
    /\ On("upgrade") => text = "bytes"
    /\ On("template") => text = "text"
    /\ typed' = [typed EXCEPT ![i] = text]

Plain(palletRpc, callable) ==
    [palletRpc |-> palletRpc, callable |-> callable, inputParams |-> typed,
     paramFields |-> [i \in DOMAIN typed |-> Required], about |-> ""]

TransferButton == Press("transfer", "SIGNED-TX", Plain("balances", "transfer"), account)
UpgradeButton == Press("upgrade", "UNCHECKED-SUDO-TX", Plain("system", "setCode"), account)
StoreSomething == Press("store", "SIGNED-TX", Plain("templateModule", "doSomething"), account)

(* The callback of something.                                              *)
SomethingArrives ==
    /\ currentValue # something
    /\ currentValue' = something

(* A null argument is encoded as zero; what is typed is a number, one.     *)
Number(arg) == IF arg = Null THEN 0 ELSE 1

(***************************************************************************)
(* The chain and the composition.                                          *)
(***************************************************************************)

Chain == <<kittyVars, claimVars, something>>

(* A call of the pallets changes the state of one of them.                 *)
KittyCall(call) == call /\ UNCHANGED <<claimVars, something>>
ClaimCall(call) == call /\ UNCHANGED <<kittyVars, something>>
TemplateCall(call) == call /\ UNCHANGED <<kittyVars, claimVars>>

(* A transaction, watched or not, is in a block: the call succeeds or not. *)
(* What does not decode to an account is nobody's target.                  *)
InBlock(i) ==
    LET s == sends[i]
    IN  /\ s.phase \in {"watched", "stopped"} /\ Signs(s.type) /\ ~s.inBlock
        /\ sends' = [sends EXCEPT ![i].inBlock = TRUE]
        /\ \/ s.callable = "createKitty" /\ KittyCall(CreateKitty(s.from))
           \/ s.palletRpc = "substrateKitties" /\ s.callable = "transfer"
                /\ s.inputs[1] \in Accounts
                /\ KittyCall(Transfer(s.from, s.inputs[1], s.about))
           \/ s.callable = "createClaim" /\ ClaimCall(CreateClaim(s.from, s.about))
           \/ s.callable = "revokeClaim" /\ ClaimCall(RevokeClaim(s.from, s.about))
           \/ s.callable = "doSomething" /\ TemplateCall(DoSomething(Number(s.args[1])))
           \/ UNCHANGED Chain
        /\ UNCHANGED <<handle, instance, status, signer, sudoKey>>

(* Other users and blocks: everything the kitties pallet does without a    *)
(* page, kitties minted or given away beside theirs; claims and numbers    *)
(* beside theirs.                                                          *)
Foreign ==
    /\ calls < view.calls
    /\ calls' = calls + 1
    /\ \/ On("market") /\ KittyCall(KittiesNext)
       \/ On("kitties") /\ \E a \in Accounts :
            \/ KittyCall(CreateKitty(a))
            \/ \E id \in DOMAIN kitties, to \in Accounts : KittyCall(Transfer(a, to, id))
       \/ On("claims") /\ ClaimCall(NewBlock)
       \/ On("claims") /\ \E a \in Accounts, d \in Digests :
            ClaimCall(CreateClaim(a, d)) \/ ClaimCall(RevokeClaim(a, d))
       \/ On("template") /\ \/ \E n \in 0 .. MaxU32 : TemplateCall(DoSomething(n))
                            \/ TemplateCall(CauseError)

(* The pages whose buttons ask for the sudo key.                           *)
Sudoing == On("interactor") \/ On("upgrade")

Init ==
    /\ view \in Views
    /\ moves = 0 /\ calls = 0
    /\ account = view.account
    /\ typed = TypedInit
    /\ KittiesInit /\ ClaimsInit /\ TemplateInit
    /\ ~On("market") => random = CHOOSE r \in Random : TRUE
    /\ TxButtonInit /\ InteractorInit
    /\ KittiesPageInit /\ ClaimsPageInit
    /\ currentValue = NoValue

(* The account of the bar changes: the cards are drawn again.              *)
SelectAccount(a) ==
    /\ Move /\ a # account
    /\ account' = a
    /\ kittiesPage' = CardsOf(a, kittiesPage)
    /\ ModalReplaced(kittiesPage')
    /\ UNCHANGED <<Chain, interactorVars, view, calls, typed, claimsPage, currentValue>>

PageUser ==
    /\ Move
    /\ \/ On("kitties") /\ KittiesUser /\ UNCHANGED <<claimsPage, typed, interactorVars>>
       \/ On("claims") /\ ClaimsUser /\ UNCHANGED <<kittiesPage, typed, interactorVars>>
       \/ /\ On("interactor") /\ InteractorStep(Texts, account)
          /\ UNCHANGED <<kittiesPage, claimsPage, typed>>
       \/ /\ \E i \in DOMAIN typed, text \in Texts : OnChange(i, text)
          /\ UNCHANGED <<txVars, kittiesPage, claimsPage, interactorVars>>
       \/ /\ \/ On("transfer") /\ TransferButton
             \/ On("upgrade") /\ UpgradeButton
             \/ On("template") /\ StoreSomething
          /\ UNCHANGED <<kittiesPage, claimsPage, typed, interactorVars>>
    /\ Len(sends') <= view.sends
    /\ UNCHANGED <<Chain, view, calls, account, currentValue>>

Mirror ==
    /\ \/ On("kitties") /\ KittiesMirror /\ UNCHANGED <<claimsPage, currentValue>>
       \/ On("claims") /\ ClaimsMirror /\ UNCHANGED <<kittiesPage, currentValue>>
       \/ On("template") /\ SomethingArrives /\ UNCHANGED <<kittiesPage, claimsPage, txVars>>
    /\ UNCHANGED <<Chain, interactorVars, labVars>>

(* A status written renders the page of the claims again.                  *)
Statuses ==
    /\ TxButtonStep
    /\ sudoKey' # sudoKey => Sudoing
    /\ claimsPage' = [claimsPage EXCEPT !.rendered = @ \/ status' # status]
    /\ UNCHANGED <<interactorVars, kittiesPage, currentValue, Chain, labVars>>

Next ==
    \/ \E a \in Accounts : SelectAccount(a)
    \/ PageUser
    \/ Mirror
    \/ Statuses
    \/ (\E i \in DOMAIN sends : InBlock(i)) /\ UNCHANGED <<pageVars, labVars>>
    \/ Foreign /\ UNCHANGED <<txVars, pageVars, view, moves, account, typed>>

(* The node answers and calls back, files are loaded.                      *)
Fairness == WF_vars(Mirror)

Spec == Init /\ [][Next]_vars /\ Fairness

(***************************************************************************)
(* Properties.                                                             *)
(***************************************************************************)

LabTypeOK ==
    /\ KittiesTypeOK
    /\ \A i \in DOMAIN sends :
         /\ sends[i].type \in Types
         /\ sends[i].phase \in {"account", "signing", "sent", "watched"} \cup Ended
         /\ sends[i].from \in Accounts
    /\ \A b \in Buttons : handle[b] \in 0 .. Promise
    /\ status \in 0 .. MaxSends
    /\ something \in SUBSET (0 .. MaxU32)
    /\ kittiesPage.modal # 0 => Mine(account, kittiesPage.kitties, kittiesPage.modal)
    /\ \A d \in DOMAIN proofs : proofs[d].owner \in Accounts /\ proofs[d].block \in 1 .. MaxBlock

(* The pages end up showing what the chain stores: all the kitties with    *)
(* their owners and prices, although only their number is subscribed to,   *)
(* and the claim of the digest shown; unless the answer to an earlier count*)
(* came after that of the last one, or a subscription leaked               *)
(* (Kitties.js:31-73, TemplateModule.js:46-64).                            *)
KittiesShown ==
    (Leaked(kittiesPage.subs) = {} /\ kittiesPage.shown = Len(kittiesPage.fetches)) =>
        kittiesPage.kitties = KittyValues(Entries)

ClaimShown ==
    Leaked(claimsPage.subs) = {} => claimsPage.proof = ProofOf(claimsPage.digest)

EventuallyShown ==
    <>[](/\ On("kitties") => KittiesShown
         /\ On("claims") => ClaimShown
         /\ On("template") => currentValue = something)
=============================================================================
