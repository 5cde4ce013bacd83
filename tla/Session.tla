------------------------------ MODULE Session ------------------------------
(* What every page of the web application stands on: the connection to the *)
(* node and the keyring (SubstrateContext.js), the gate that shows the     *)
(* pages (App.js), the route and the account selected (AccountSelector.js).*)
(*                                                                         *)
(* The socket, the polkadot-js API and the wallet extension are external:  *)
(* the socket reconnects by itself, "ready" is emitted the first time      *)
(* only, "disconnected" has no listener.                                   *)
EXTENDS Naturals, FiniteSets

CONSTANTS
    Accounts,       \* addresses of the keyring
    FirstAccount,   \* the address of keyring.getPairs()[0]
    NoAccount,      \* no account: accountAddress null, selectedAccount {}
    Paths,          \* the routes visited
    MaxDrops        \* how often the socket closes

ASSUME SessionAssumption ==
    /\ FirstAccount \in Accounts
    /\ NoAccount \notin Accounts
    /\ MaxDrops \in Nat

VARIABLES
    apiState,       \* state of the reducer: the connection ...
    keyringState,   \* ... and the keyring
    link,           \* the socket is open
    apiReady,       \* the promise api.isReady is resolved
    path,           \* the route
    account,        \* accountAddress of App
    selected,       \* selectedAccount of the mounted AccountSelector
    drops           \* sockets closed so far

sessionVars ==
    <<apiState, keyringState, link, apiReady, path, account, selected, drops>>

(* The layout of a route: the page that processes one payment has no       *)
(* sidebar and no bar with the account selector.                           *)
Routes ==
    [p \in {"/", "/order-history", "/disputes", "/resolvers", "/faucet", "/chain-state",
            "/payments/:id"}
       |-> [topbar |-> p # "/payments/:id", sidebar |-> p # "/payments/:id"]]

ASSUME PathsAssumption == Paths \subseteq DOMAIN Routes

(* App shows the pages when keyring and API are ready. It renders apiError, *)
(* an object, when the API failed: React throws, and with no error boundary*)
(* the whole tree is gone, whatever is dispatched later.                   *)
Shows(as, ks) == as = "READY" /\ ks = "READY"
Shown == Shows(apiState, keyringState)
Crashed == apiState = "ERROR"

SelectorShown(as, ks, p) == Shows(as, ks) /\ Routes[p].topbar

\* Slip: the selector keeps what App had selected and shows nothing.
MountSelectorOnce(was, is) ==
    CASE is /\ ~was /\ account = NoAccount -> account' = FirstAccount /\ selected' = FirstAccount
      [] was /\ ~is -> UNCHANGED account /\ selected' = NoAccount
      [] OTHER -> UNCHANGED <<account, selected>>

(* The effect of AccountSelector: each time it is mounted it selects the   *)
(* first account, whatever App had selected.                               *)
MountSelector(was, is) ==
    CASE is /\ ~was -> account' = FirstAccount /\ selected' = FirstAccount
      [] was /\ ~is -> UNCHANGED account /\ selected' = NoAccount
      [] OTHER -> UNCHANGED <<account, selected>>

Remount ==
    MountSelector(SelectorShown(apiState, keyringState, path),
                  SelectorShown(apiState', keyringState', path'))

(* INIT_STATE; the browser opens the application at any route.             *)
SessionInit ==
    /\ apiState = "null"
    /\ keyringState = "null"
    /\ link = FALSE
    /\ apiReady = FALSE
    /\ path \in Paths
    /\ account = NoAccount
    /\ selected = NoAccount
    /\ drops = 0

(* connect: only with apiState null does it create the provider and the API.*)
Connect ==
    apiState' = IF apiState = "null" THEN "CONNECT_INIT" ELSE apiState

(* loadAccounts: only with keyringState null does it start loading.        *)
LoadAccounts ==
    keyringState' = IF keyringState = "null" THEN "LOADING" ELSE keyringState

(* SubstrateContextProvider renders: the first time both of them start.    *)
ProviderRenders ==
    /\ apiState = "null" \/ keyringState = "null"
    /\ Connect
    /\ LoadAccounts
    /\ UNCHANGED <<link, apiReady, path, account, selected, drops>>

(* asyncLoadAccounts ends: after the wait of three seconds the extension   *)
(* answers and the keyring is set, or something throws. Nothing retries.   *)
KeyringLoads ==
    /\ keyringState = "LOADING" /\ ~Crashed
    /\ keyringState' = "READY"
    /\ UNCHANGED <<apiState, link, apiReady, path, drops>>
    /\ Remount

KeyringFails ==
    /\ keyringState = "LOADING" /\ ~Crashed
    /\ keyringState' = "ERROR"
    /\ UNCHANGED <<apiState, link, apiReady, path, account, selected, drops>>

(* The listener of "connected": CONNECT takes every page down, also when   *)
(* the socket opens for a second time.                                     *)
SocketOpens ==
    /\ ~link /\ apiState # "null"
    /\ link' = TRUE
    /\ apiState' = IF Crashed THEN apiState ELSE "CONNECTING"
    /\ UNCHANGED <<keyringState, apiReady, path, drops>>
    /\ Remount

\* Slip: the ready event alone is waited for.
ApiReadyByEventOnly ==
    /\ apiState = "CONNECTING"
    /\ link /\ ~apiReady
    /\ apiReady' = TRUE
    /\ apiState' = "READY"
    /\ UNCHANGED <<keyringState, link, path, drops>>
    /\ Remount

(* CONNECT_SUCCESS: by the "ready" event the first time, by api.isReady,   *)
(* asked for at every "connected", after a reconnection.                   *)
ApiReady ==
    /\ apiState = "CONNECTING"
    /\ link \/ apiReady
    /\ apiReady' = TRUE
    /\ apiState' = "READY"
    /\ UNCHANGED <<keyringState, link, path, drops>>
    /\ Remount

(* The socket closes: no listener, the pages stay.                         *)
SocketCloses ==
    /\ link /\ drops < MaxDrops
    /\ link' = FALSE
    /\ drops' = drops + 1
    /\ UNCHANGED <<apiState, keyringState, apiReady, path, account, selected>>

(* An attempt to open the socket fails: the listener of "error".           *)
SocketError ==
    /\ ~link /\ apiState # "null" /\ ~Crashed
    /\ apiState' = "ERROR"
    /\ UNCHANGED <<keyringState, link, apiReady, path, drops>>
    /\ Remount

(* selectAccount, from the menu of the selector.                           *)
SelectAccount(a) ==
    /\ SelectorShown(apiState, keyringState, path)
    /\ a # account
    /\ account' = a
    /\ selected' = a
    /\ UNCHANGED <<apiState, keyringState, link, apiReady, path, drops>>

(* The route changes, by the sidebar or by the history of the browser.     *)
Navigate(p) ==
    /\ ~Crashed /\ p # path
    /\ path' = p
    /\ UNCHANGED <<apiState, keyringState, link, apiReady, drops>>
    /\ Remount
=============================================================================
