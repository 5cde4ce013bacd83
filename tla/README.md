# Libra: verification of the p2p-payment chain

Libra (`README.md` of the repository) is a payment network on a Substrate
chain: a seller creates a payment, a buyer locks its amount, the buyer releases
it or either party disputes it, and a resolver drawn from a network of staked
accounts decides. This directory holds TLA+ models of that system, the TLC runs
that check them on small instances and TLAPS proofs for all instances.

## 1. The system: inventory

| part | where | state | operations |
|---|---|---|---|
| payments | `libra-node/pallets/p2p-payment/src/lib.rs` 227-344 | `PaymentsCounter`, `Payments`, `PaymentsOwned`, `PayHistory` | `create_payment`, `deposit_payment`, `complete_payment`, `cancel_payment` |
| resolver network | same file 407-509, 573-594 | `Resolvers`, `AllResolvers`, `ActiveResolversIds` | `apply_to_be_resolver`, `stake_to_resolver`, `unstake_from_resolver`, `get_resolver` |
| disputes | same file 346-405, 511-562 | `Disputes`, `InvolvedDisputes`, `AssignedDisputes` | `dispute_payment`, `submit_proof`, `solve_dispute` |
| accounts | `pallet_balances`, `pallet_transaction_payment` as configured in `libra-node/runtime/src/lib.rs` 238-289; `faucet` 564-569; genesis in `libra-node/node/src/chain_spec.rs` | free balance and locks of each account | set and remove a lock, transfer, fee, faucet |
| node | `libra-node/node` | the framework's | template service, CLI, RPC |
| session | `frontend/src/substrate-lib/SubstrateContext.js`, `App.js`, `components/AccountSelector.js`, `Sidebar.js`, `routes.js` | reducer states of connection and keyring, the route, the account selected | reducer actions, remounts, selection, navigation |
| pages as mirrors | `pages/Payments.js`, `PayHistory.js`, `Disputes.js`, `DisputeDetail.js`, `Resolvers.js`, `ProcessPayment.js`, `components/Balance.js` | lists of ids, the records of those ids, the subscriptions of each effect | subscribe, call back, clean up |
| forms and buttons | `components/PaymentForm.js`, `CancelPaymentConfirmation.js`, `DisputeForm.js`, `pages/ProcessPayment.js`, `DisputeDetail.js`, `ResolverApplicationForm.js`, `ResolverDeletatingConfirmation.js`, `Faucet.js` | one flag per button, what was typed, the dialog shown, the account that signs | press, sign and send, watch, reset |
| image upload | `components/ImagesUploader.js`, `offchain-services/index.js`, `src/offchain-services/file-storage/handler.js` | uploader flag and picture; the bucket | upload; check, then put |
| transaction button and interactor | `substrate-lib/components/TxButton.js`, `components/Interactor.js`, `Transfer.js`, `Upgrade.js` | the button's handle, one status line, the form of any call | seven kinds of call |
| labs | `lab-ans/04`..`07` | kitties pallet and page (06), proof of existence (05), template (04), a script (07) | see the source |

How they interact. The three parts of the pallet share nothing but the accounts
and two references: a dispute names a payment and holds a *copy* of a resolver.
Each extrinsic runs alone and to its end, after its fee is withdrawn; the
interleaving that matters is the order of extrinsics of different accounts and
of different roles of one account. Three lock identifiers per account
(`lockerid`, `resolver`, `delegate`) overlay one balance. The front end reads
storage by subscriptions, sends extrinsics and gates its buttons by the status
it last saw; nothing on the chain relies on that gating.

What is hard, by part:

- *payments*: no call checks the status; `complete_payment` is not transactional
  (a lock removed before a transfer that fails stays removed); all deposits of a
  buyer share one lock.
- *resolver network*: one comparison decides status, listing and draw weight;
  the list of active resolvers holds one entry per qualifying delegation;
  delegations overlap on one lock.
- *disputes*: two of them about one payment, settled in any order with deposits
  and completions between; stale copies of resolvers; content-addressed
  identifiers that collide when a dispute is issued twice.
- *accounts*: existential deposit, fees and overlapping locks make any transfer
  fail or succeed depending on every other role of the account.
- *session*: "ready" is not emitted a second time; a reconnection takes every
  page down and mounts it again, with the selector's own effect.
- *pages*: the handle that ends a subscription comes by a promise, so that a
  page left early leaks it; ids and records come by two subscriptions.
- *forms*: closures over old state, flags that no path resets, a signer shared
  by all transactions of the application, storage values that race the status
  of the transaction, other users who act on the same payment.
- *image upload*: a check before a put, answers that are not looked at.
- *transaction button*: it can be pressed while what it started runs; handles
  lost, late or never there; one status line for all buttons.
- *kitties*: identifiers are hashes of what two mints in one block may share;
  bounded lists beside a map; a price that changes under a bid.

`PROJECT.json` lists the hazards one by one, at their lines.

## 2. Modules

```
Balances --- BalancesProofs                accounts: free balances, locks, fees
  |-- Payments ---- PaymentsProofs
  |-- Resolvers --- ResolversProofs
  |     '-- ResolverNetwork                (abstract specification)
  |-- P2pPayment -- P2pPaymentProofs       payments, resolvers and disputes
  '-- Kitties                              a pallet of the labs

Session --- Pages --- PagesProofs          connection, pages as mirrors
Uploads --- Forms --- FormPages --- FormPagesProofs      forms over the chain
TxButton -- Interactor --.
Kitties, Claims, Template --- LabPages --- LabPagesProofs

DataFacts                                  lemmas on sequences, sums, induction
MCPayments MCResolvers MCP2pPayment MCPages MCFormPages MCLabPages      for TLC
```

**Balances.** `free` and `locks`. `SetLock`, `RemoveLock`, `CanTransfer` and
`Moved` are `Currency` as `pallet_balances` implements it: a withdrawal may not
leave less than *any* lock, a transfer with KeepAlive may not leave less than
the existential deposit and may not bring the receiver below it or over
`MaxBalance`. `CanPayFee` and `AfterFee` are what every extrinsic meets before
its dispatch. `DispatchError` stands for all calls refused before their first
write: they cost their fee and nothing else. `WalletTransfer` is the runtime's
own `Balances::transfer`, with reaping: users hold ordinary wallets, and locks
must survive them. It takes the existential deposit, the fee, the genesis
endowment and the balance limit as constants.

**Payments.** One action per call. A payment is stored under the hash of its
first content, which holds its order number, so the order number stands for the
hash (a hash function without collisions). `CompletePayment` has two outcomes,
the second being the failed transfer that leaves the lock removed.
`MaxHistory` bounds the deposits of an account.

**Resolvers.** `Delegated` and `Listed` are the two halves of
`stake_to_resolver`; `Draw(byte)` is `get_resolver` for a first random byte.
The byte takes `RandomBytes` values (256 in the code), so that small instances
can have more list entries than values. `staked` is a natural number: its u128
addition is not wrapped (a wrap needs as many delegations as the balance type
has tokens over the issuance). **ResolverNetwork** says what the network
promises: accounts register, registered ones become active, nobody leaves.

**P2pPayment.** The pallet: payments and resolvers over the same accounts, and
disputes. A dispute is stored under the hash of its initial content; here that
content *is* the identifier, so that the same dispute issued twice overwrites
itself, as in the code. What a caller writes (reason, description, images) is
a member of `Reasons`. The panic in `dispute_payment` (`unwrap` of a missing
payer) and the one in `get_resolver` (remainder by zero) leave no state change:
they are guards.

**Session.** One action per reducer action and listener. polkadot-js opens the
socket again by itself; its listeners are those of `connect`. `MountSelector` is
the effect of `AccountSelector`: every time it is mounted it selects the first
account. When the API fails, `App` renders an error *object*, on which React
throws; with no error boundary the tree is gone and nothing dispatched later
brings it back, which is `Crashed`.

**Pages.** The eight effects that read storage differ in five respects, the
rows of `Effects`: the state they fill, where they are mounted, what their
first subscription is keyed by, and what makes the second one, which reads the
records named by the first, run again. A subscription is asked for, answered
(`Receive`, a timer of zero) and called back (`Deliver`). A cleanup ends only
what was answered before; the rest stays, `cleaned` (a leak). An update and the
effects it triggers are one step, as React runs the effects of a render before
the next update; callbacks, answers, user and chain interleave freely.

**Uploads, Forms, FormPages.** An upload is read, asked for (`HeadObject`), put
and answered, and may fail at each step. All eleven forms follow one protocol
and differ in nine respects, the rows of `Rows`: where their state lives, what
disables them, which endings reset the flag. A transaction goes through
`account`, `signing`, `sent`, `included`, `finalized`, or ends as `thrown`,
`refused` or `dropped`. An instance of a dialog has a number (`mounts`), so that
a late callback of an earlier one is told from the present one. `FormPages`
puts them on their pages: which are offered for what is shown, the pair that
signs, and a chain that runs the calls, abstracted to what a page sees of them,
while other users act. `notices` is the socket: it keeps the order of storage
values and of final blocks, a block being imported before it is final.

**TxButton, Interactor.** The button with its seven kinds of call, and the form
that calls anything the metadata names. Three fields of a start are history:
`escaped` (it could not be stopped any more when its button was pressed again),
`about` and `inBlock`. A choice in the interactor and its effects are one step.

**Kitties, Claims, Template, LabPages.** The three pallets of the labs, and the
pages over them and over the button. An identifier of a kitty is the content it
is minted with, so two mints of one owner in one block collide, as in the code.
Bits of the DNA are a set, so `BreedDna` is the same formula on sets.

Operators called *Slip* in the comments are variants of a definition with a
plausible mistake. No specification uses them; putting one in its definition's
place makes TLC refute the property named beside it in `PROJECT.json`
("mutants"), which shows that the property is not vacuous.

## 3. Runs

The runs of the pallet state no fairness: an account may stop at any time and
nothing schedules its calls. Those of the front end do, and only for what the
code or its runtime schedules: the socket reconnects, the node answers and
announces, the event loop runs timers in order, the keyring's wait ends, a
transaction sent is included or dropped and a block included is final. The user
need not do anything, and in particular need not answer a wallet's window; the
chain need not change; faults need not stop. Deadlock checking is off in every
run: the bounds, and users and accounts that stop, do stop the system.

| run | instance | what it asks |
|---|---|---|
| `payments_fees` | 2 accounts (one endowed), 2 payments, 2 deposits each, fee 1 | the register, histories and the shared lock under all orders of calls; terms never change; only a deposit changes a payer |
| `payments_trio` | 3 accounts (one endowed), 1 payment, 2 deposits, existential deposit 2, amounts 0, 2 and 3, balances up to 5, faucet always over the limit, no fee | transfers at every boundary: reaping, dust, overflow, zero amounts, payer who is payee; `SupplyAccounted`, `CompletionPays` |
| `resolvers` | 2 accounts, 2 delegations each, amounts 0 to 2 around the threshold 2, 3 byte values for up to 4 entries | status, stake, list, draw and locks agree; refinement of ResolverNetwork |
| `p2p_dispute` | 3 accounts, 1 payment, 1 resolver, 1 dispute | seller, buyer and resolver apart or the same: who may dispute, who is drawn, what a resolution moves |
| `p2p_fees` | 2 accounts in all roles, bond 2, threshold 3, fee 1, 2 disputes of one payment, 2 proofs | locks of different roles, second disputes, re-deposits of disputed payments, settlements that fail |
| `pages` | 2 accounts, 3 routes, one reconnection, one change of storage, 2 callbacks waiting; 5 views with 1 to 3 steps of the user | one current subscription per effect, records under their own ids, selector and application agree; the pages come back and mirror the chain |
| `forms` | 9 views with their forms, 3 accounts (one in an extension, one a stranger), up to 3 presses, 2 uploads, 5 steps, one call of another user | flags, double settlement, signatures, images, typing; every press ends |
| `lab_pages` | 8 views: the kitties market alone (2 accounts, limit 2, 4 calls), and seven pages with 2 presses and up to 5 steps | kitties listed and sold fairly, status line, arguments, calls that exist; the pages show the chain |
| `deposit_held` | as `payments_fees` | *violated*: a Deposited payment is not always covered by a lock |
| `community_backed` | as `resolvers` | *violated*: an Active resolver need not have a token of the community behind it |
| `cancel_unlocks` | as `p2p_fees` | *violated*: cancelling a disputed payment leaves the deposit locked |
| `dispute_after_cancel` | as `p2p_fees` | *violated*: a cancelled payment can be disputed |

Why the bounds suffice. Two payments are the least in which deposits of one
buyer share a lock; two deposits per account the least in which one replaces
another. Two accounts already take every combination of seller, buyer,
delegator and resolver, three add outsiders. Two disputes of one payment give
the orders of settlement. Balances are a few units above the amounts, so that
each check of a transfer fails in some state and succeeds in another. A front-
end view follows one page at a time because pages share nothing but the session
(checked with each view): two steps of the user are the least in which an
effect is left and taken up again before its answer, three presses the least in
which a page deposits, sees its deposit land late and releases twice, two
uploads the least that share a key. What lies beyond the bounds is the proofs'
part.

The four violations are disagreements between the code and what the repository
tells its users; `PROJECT.json` ("findings") quotes both. In short: the deposit
behind a payment can vanish through the buyer's other payments; a resolver can
activate itself with its own bond; and neither half of the sentence shown
before a cancellation holds.

Three properties name their exceptions, each of which is a behaviour of the code
that a run reaches. `OneCurrentSubscription` excepts the records of the involved
disputes, whose effect depends on the list of the assigned ones
(`Disputes.js:107`), and states what is shown only where no subscription leaked.
`SettledOnce` allows a page one release more than its deposits: its own deposit
can land after somebody else's was released, the chain then holds a deposited
payment again, and the page offers its release. `TypingKept` excepts what an
upload (`PaymentForm.js:38`) or a finalized proof (`DisputeDetail.js:121`)
overwrites.

## 4. Proofs

Checked by tlapm for every value of the constants that satisfies the `ASSUME`s
of the modules: existential deposit positive, endowment and faucet at least
that, finitely many accounts (needed only to add their balances up), initial
stake below the required stake, `NoAccount` not an account, bounds that are
natural numbers, `Row` for every form, views whose accounts and payers are
accounts and which follow a record only with its list. TLC evaluates each of them on its runs.

- `DataFacts` knows nothing of the system: what `Append` and `Tail` leave in
  their places, and the sum of a function over a finite set. The library's
  induction theorem takes an operator, so `NatSetInduction` says it of a *set*
  of naturals, from the well-founded order; with it the fold behind a sum has
  exactly one solution (`SumsExist`, `SumsUnique`) and a sum may be taken apart
  at any element (`SumRemove`).
- `BalancesProofs`: `Sound(free, locks)` - types, no dust, covered locks - holds
  initially and is preserved by each operator the calls are built from (fee,
  lock, unlock, transfer, wallet transfer with reaping, faucet). The later
  modules cite these lemmas and never look inside a transfer again. A second
  family says what each of them does to the sum of all balances (`SupplyStep`):
  a transfer takes from one summand what it adds to another, except for the
  dust of a reaped account.
- `PaymentsProofs`. The inductive invariant, `PaymentsInv`, is `Sound` with the
  register's properties. `LockIsLastDeposit` is not inductive alone: that a
  lock equals the last positive deposit needs every payment in a history to
  exist with a fixed amount (`HistoryNotWaiting` and the types), and the step
  of `SetLock` with amount zero, a no-op, is the reason the property speaks of
  *positive* deposits. Completing, cancelling and disputing are one lemma, as
  all set one payment's status to a value that is neither WaitingForDeposit nor
  Deposited. From it: **PaymentsTyped**, **PaymentsSolvent**,
  **PaymentsRecorded**, **LockOfLastDeposit**, and the action properties
  **PaymentsKeepTerms** (only `deposit_payment` writes a payer, and it lengthens
  that payer's history in the same step), **PaymentsPay** (only
  `complete_payment` completes, in the step in which its transfer succeeded) and
  **PaymentsKeepSupply**.
- `ResolversProofs`. `ResolversInv`: `ActiveAgrees`, with `RegistryExact`, gives
  `DrawsActive`: an entry of the list is Active because list, status and stake
  change together in `stake_to_resolver`. **ResolversSafe**,
  **ResolversAgree**, **ResolversBonded**, **ResolversDrawn**. For
  **DelegationsTraced**, a list of delegations only gets longer, so the entry
  behind a lock stays. **ResolversImplementNetwork**: each call is a Register,
  an Activate or a stutter of ResolverNetwork; a delegation to an Active
  resolver adds an entry but no member, hence a stutter. **NetworkNeverShrinks**:
  the map only grows, by applications and at the end of delegations.
  **NetworkRecorded**: a delegation adds one summand to a stake and, when the
  stake after it is at least the threshold, one position to the list of active
  resolvers; the stakes after *earlier* delegations are sums over the beginning
  of a list that only gets longer, so they stay what they were.
- `P2pPaymentProofs`. `Inv` is the conjunction of the three parts. Each kind of
  call preserves the parts it does not belong to because it changes the accounts
  only through operators that keep `Sound`, the `resolver` lock through one call
  only, and payments in ways that keep payees and payers of disputes
  (`PaymentsEvolve`). `ResolverQualified` needs that stakes only grow.
  **TypeCorrect**, **AccountsSafe**, **DisputesListed**, **DisputesFair**,
  **DisputesInvolvePayer**; **DisputesSettled**: of all calls only
  `solve_dispute` resolves, and then it settles. What the parts promise alone
  holds of the whole: **PartsAgree**, **PalletRecords**, **PalletKeepsSupply**,
  **PalletKeepsTerms**, **PalletPays**, and **PalletImplementsNetwork**, where
  every call of payments and disputes is a stutter of ResolverNetwork.
- `PagesProofs`. What a subscription brought is on the screen only *after* its
  callback, so `ShowsItsSubscription` is not inductive. `Arrives` is: of the
  callbacks waiting for an effect, either there is none and the state shows what
  the subscription has seen, or the last one carries exactly that. A leaked
  subscription could put a later one behind it, hence the exception. `HoldsFirst`
  and `HoldsSecond` say which subscription each effect will clean up, for the key
  it has now, and `HoldsOnce` that it is the only one; a render that changes the
  key re-runs the effect in the same step. `TimersPaired` carries the pairing of
  ids and records from the answer to the callback. The session's part is that a
  selector which appears selects the first account for both sides.
  `TimersOf` is written as a function over positions, so that what it keeps can
  be proved by `NatSetInduction`. **PagesTyped**, **SelectorsAgree**,
  **SubscriptionsCurrent**, **RecordsAlwaysPaired** (**PagesSound** has the whole
  invariant).
- `FormPagesProofs`. `FormPagesInv` has three parts. `ButtonsInv`: a form is busy
  exactly when a transaction of its instance *holds* it, and at most one does;
  that a release and a dispute exclude each other needs that the dispute's
  dialog is not open while a release is on its way. `DraftInv`: the url of an
  answered upload is stored, and a text that is not what was typed has an upload
  or a cleared form to name. `SigningInv`: account and pair agree when the
  keyring has the account. **FlagsSound**, **ImagesSound**, **TypingSound**,
  **SignaturesShown**. **FormPagesTyped** adds `TypedInv`: what is typed, uploaded
  and stored stays in its set, and the socket's queue is bounded by counting: its
  length is at most the first value, the calls of others, the transactions that
  were included and those whose final block was announced. A final block is
  announced once, because its notice is in the queue or the transaction is
  finalized. **SettledSound** needs a fourth, `SomeSettledInv`: some
  *ranks* of the record shown, of the notices on their way and of the record
  stored. The record only climbs (waiting, deposited, past that, deposited again
  by a late deposit, past that); a release leaves it past a deposit, and only a
  deposit of the page itself takes it past the first "past that". Because the
  socket delivers in order, a button is enabled only by a notice that comes
  after the record its last transaction left. A transaction not yet in a block
  was therefore pressed at a record that shows all effects so far, and the top
  of the ranks bounds the effects. That some ranks exist was checked by
  TLC first.
- `LabPagesProofs`, the kitties alone first. `KittiesInv`: `Sound`, the types
  and `KittiesListed`, which is inductive because a transfer takes one entry out
  of one list: an identifier listed twice stays listed. `PositionFound` (the
  first place of an identifier in a list) rests on the order of the naturals.
  **KittiesSafe**, **KittiesOwned**, **KittiesSoldFairly**.
- Then the pages over the pallets. `TxInv`: an earlier start of the button pressed last is
  settled or escaped, and a button holds handles of its own starts only;
  `InteractorInv`: menus and fields are those of the choice. **StatusHonest**,
  **ArgumentsFit**, **InteractorSound**. `LabInv` joins them with what the
  pallets store (`StoredInv`) and with the modal of a card, which is open over a
  card of the account's own only (`ModalInv`): the transactions of the pages
  reach the pallets in any order, each a call of the pallet or refused.
  **LabTyped**, **LabKittiesListed**, **LabKittiesSold**.

Only model-checked is what needs fairness: `EventuallyMirrors`, `PressEnds` and
`EventuallyShown` speak of what must happen, and liveness and ENABLED are out of
the prover's reach. Every invariant, every action property and the refinement
that a passing run checks is a theorem.

## 5. Not modelled

- Root calls (sudo, scheduler) on the chain: they may set any balance.
- The u128 wrap of `staked`, and hash collisions of different contents.
- Weights and the size of a fee: any constant fee, including 0.
- The node: networking, consensus and block import are the framework's.
  Forks are left out of the front end: blocks become final in their order.
- Events: the feed of `ChainState.js` lists them, and no code decides by them.
- The widgets of the chain's state (`BlockNumber.js`, `Balances.js`,
  `Events.js`, `NodeInfo.js`, `Metadata.js`): one subscription each.
- Texts, layout, notifications and the contents of fields beyond what a call
  needs to be built.
- The script of lab 07, which is sequential.
- The front-end copies of labs 05 and 06 beside the pages named above: they are
  the same template as `frontend/src/substrate-lib` and `components`.

## 6. Where to go on

A composition of `FormPages` with the whole of `P2pPayment` in place of the
abstracted calls; that `Accepts` and `Changed` of `FormPages` are what a page sees
of `P2pPayment`, as a refinement; forks.
