------------------------------ MODULE Kitties ------------------------------
(* The kitties pallet of lab 06: minting, selling, giving away and breeding *)
(* of kitties, over accounts without locks. A call that fails changes       *)
(* nothing: buy_kitty and transfer_kitty_to are transactional, the others   *)
(* check before they write.                                                 *)
(*                                                                          *)
(* A dna is the set of its bits that are one. Randomness is external: what  *)
(* it gives is the same for every call of a block, so two kitties of one    *)
(* block, or of alike parents, may have one identifier.                     *)
EXTENDS Balances, Sequences, FiniteSets

CONSTANTS
    Bits,           \* the positions of a dna
    Prices,         \* the prices a caller may name
    MaxKittyOwned,  \* runtime: kitties an account may own
    MaxCount        \* the largest u64 count

ASSUME KittiesAssumption ==
    /\ Prices \subseteq 0 .. MaxBalance
    /\ MaxKittyOwned \in Nat
    /\ MaxCount \in Nat

VARIABLES
    kitties,        \* Kitties: identifier -> kitty
    kittiesOwned,   \* KittiesOwned: account -> identifiers
    kittyCnt,       \* KittyCnt
    random          \* what Randomness and gen_dna give in this block

kittyVars == <<balanceVars, kitties, kittiesOwned, kittyCnt, random>>

Gender == {"Male", "Female"}
Random == [dna : SUBSET Bits, gender : Gender]

(* Option<Balance>: None is {}.                                            *)
Price == {{}} \cup {{p} : p \in Balance}
Kitty == [dna : SUBSET Bits, price : Price, gender : Gender, owner : Accounts]

(* hash_of a kitty as it is minted, without a price.                       *)
KittyId == [dna : SUBSET Bits, gender : Gender, owner : Accounts]
HashOf(kitty) == [dna |-> kitty.dna, gender |-> kitty.gender, owner |-> kitty.owner]

KittiesInit ==
    /\ BalancesInit
    /\ kitties = <<>>
    /\ kittiesOwned = [a \in Accounts |-> <<>>]
    /\ kittyCnt = 0
    /\ random \in Random

Insert(id, kitty) ==
    kitties' = [x \in DOMAIN kitties \cup {id} |-> IF x = id THEN kitty ELSE kitties[x]]

(* BoundedVec::try_push.                                                   *)
Room(a) == Len(kittiesOwned[a]) < MaxKittyOwned

\* Slip: an identifier that is stored is not listed again.
MintListedOnce(owner, dna) ==
    LET kitty == [dna |-> dna, price |-> {}, gender |-> random.gender, owner |-> owner]
        id == HashOf(kitty)
    IN  /\ kittyCnt < MaxCount
        /\ Room(owner)
        /\ kittiesOwned' = IF id \in DOMAIN kitties THEN kittiesOwned
                           ELSE [kittiesOwned EXCEPT ![owner] = Append(@, id)]
        /\ Insert(id, kitty)
        /\ kittyCnt' = kittyCnt + 1

(* mint: the count and the list may refuse, the kitty is then written, over*)
(* one of the same identifier if there is one.                             *)
Mint(owner, dna) ==
    LET kitty == [dna |-> dna, price |-> {}, gender |-> random.gender, owner |-> owner]
        id == HashOf(kitty)
    IN  /\ kittyCnt < MaxCount
        /\ Room(owner)
        /\ kittiesOwned' = [kittiesOwned EXCEPT ![owner] = Append(@, id)]
        /\ Insert(id, kitty)
        /\ kittyCnt' = kittyCnt + 1

IsKittyOwner(id, a) == id \in DOMAIN kitties /\ kitties[id].owner = a

CreateKitty(a) ==
    /\ Mint(a, random.dna)
    /\ UNCHANGED <<balanceVars, random>>

SetPrice(a, id, price) ==
    /\ IsKittyOwner(id, a)
    /\ Insert(id, [kitties[id] EXCEPT !.price = price])
    /\ UNCHANGED <<balanceVars, kittiesOwned, kittyCnt, random>>

(* swap_remove: the last identifier takes the place of the one removed.    *)
SwapRemoved(s, i) ==
    [j \in 1 .. Len(s) - 1 |-> IF j = i THEN s[Len(s)] ELSE s[j]]

Position(s, id) ==
    CHOOSE i \in DOMAIN s : s[i] = id /\ \A j \in DOMAIN s : s[j] = id => i <= j

\* Slip: the price asked by the previous owner stays.
TransferKittyToPriced(id, to) ==
    LET from == kitties[id].owner
    IN  /\ \E i \in DOMAIN kittiesOwned[from] : kittiesOwned[from][i] = id
        /\ Room(to)
        /\ kittiesOwned' = [kittiesOwned EXCEPT
                              ![from] = SwapRemoved(@, Position(@, id)), ![to] = Append(@, id)]
        /\ Insert(id, [kitties[id] EXCEPT !.owner = to])
        /\ UNCHANGED kittyCnt

(* transfer_kitty_to, for another owner.                                   *)
TransferKittyTo(id, to) ==
    LET from == kitties[id].owner
    IN  /\ \E i \in DOMAIN kittiesOwned[from] : kittiesOwned[from][i] = id
        /\ Room(to)
        /\ kittiesOwned' = [kittiesOwned EXCEPT
                              ![from] = SwapRemoved(@, Position(@, id)), ![to] = Append(@, id)]
        /\ Insert(id, [kitties[id] EXCEPT !.owner = to, !.price = {}])
        /\ UNCHANGED kittyCnt

Transfer(a, to, id) ==
    /\ IsKittyOwner(id, a)
    /\ a # to
    /\ TransferKittyTo(id, to)
    /\ UNCHANGED <<balanceVars, random>>

(* buy_kitty: what is paid is the bid, not the price asked.                *)
BuyKitty(a, id, bid) ==
    /\ id \in DOMAIN kitties
    /\ LET seller == kitties[id].owner
       IN  /\ seller # a
           /\ \E ask \in kitties[id].price : ask <= bid
           /\ CanTransfer(free, locks, a, seller, bid)
           /\ free' = Moved(free, a, seller, bid)
           /\ UNCHANGED locks
    /\ TransferKittyTo(id, a)
    /\ UNCHANGED random

(* breed_dna: a random bit that is one takes the first parent's bit.       *)
BreedDna(p1, p2) ==
    (random.dna \cap kitties[p1].dna) \cup (kitties[p2].dna \ random.dna)

BreedKitty(a, p1, p2) ==
    /\ IsKittyOwner(p1, a) /\ IsKittyOwner(p2, a)
    /\ Mint(a, BreedDna(p1, p2))
    /\ UNCHANGED <<balanceVars, random>>

(* The next block: other random values.                                    *)
NextBlock ==
    /\ random' \in Random
    /\ random' # random
    /\ UNCHANGED <<balanceVars, kitties, kittiesOwned, kittyCnt>>

KittyCalls(a) ==
    \/ CreateKitty(a)
    \/ \E id \in DOMAIN kitties :
         \/ \E price \in {{}} \cup {{p} : p \in Prices} : SetPrice(a, id, price)
         \/ \E to \in Accounts : Transfer(a, to, id)
         \/ \E bid \in Prices : BuyKitty(a, id, bid)
         \/ \E mate \in DOMAIN kitties : BreedKitty(a, id, mate)

KittiesNext ==
    \/ \E a \in Accounts : KittyCalls(a)
    \/ NextBlock

KittiesSpec == KittiesInit /\ [][KittiesNext]_kittyVars

(***************************************************************************)
(* Properties.                                                             *)
(***************************************************************************)

KittiesTypeOK ==
    /\ BalancesTypeOK
    /\ DOMAIN kitties \subseteq KittyId
    /\ \A id \in DOMAIN kitties : kitties[id] \in Kitty
    /\ kittiesOwned \in [Accounts -> Seq(KittyId)]
    /\ kittyCnt \in 0 .. MaxCount
    /\ random \in Random

(* Whatever is minted, minted again under one identifier, bred, sold and   *)
(* given away, a kitty is in the list of its owner, so that the owner can  *)
(* part with it, lists name stored kitties only, and no list is longer than*)
(* the runtime allows (lib.rs:297-322, 343-370).                           *)
ListedFor(a, id) == \E i \in DOMAIN kittiesOwned[a] : kittiesOwned[a][i] = id

KittiesListed ==
    /\ \A id \in DOMAIN kitties : ListedFor(kitties[id].owner, id)
    /\ \A a \in Accounts :
         /\ \A i \in DOMAIN kittiesOwned[a] : kittiesOwned[a][i] \in DOMAIN kitties
         /\ Len(kittiesOwned[a]) <= MaxKittyOwned

(* A kitty that changes hands is not for sale afterwards, and tokens move  *)
(* only against a kitty that is for sale: from its new owner to its last   *)
(* one, at least what that one asked for, while nobody else gains or loses *)
(* (lib.rs:206-248, 358-364).                                              *)
SoldIn(id) ==
    /\ id \in DOMAIN kitties /\ kitties'[id].owner # kitties[id].owner
    /\ LET buyer == kitties'[id].owner
           seller == kitties[id].owner
       IN  /\ \E ask \in kitties[id].price : free'[seller] >= free[seller] + ask
           /\ free'[buyer] + free'[seller] = free[buyer] + free[seller]
           /\ \A a \in Accounts \ {buyer, seller} : free'[a] = free[a]

SaleFair ==
    [][/\ \A id \in DOMAIN kitties :
            /\ id \in DOMAIN kitties'
            /\ kitties'[id].owner # kitties[id].owner => kitties'[id].price = {}
       /\ free' # free => \E id \in DOMAIN kitties : SoldIn(id)]_kittyVars
=============================================================================
