-------------------------- MODULE FormPagesProofs --------------------------
(* The forms and their pages, for any accounts, keyring, views and bounds: *)
(* a form is busy exactly while a transaction of its instance is on its    *)
(* way, a payment is not released and disputed at once, a page signs as it *)
(* shows, the images a form holds are stored, typing is not lost, a page   *)
(* deposits once and releases once for each deposit, and what is held and  *)
(* queued keeps its type and its bound.                                    *)
EXTENDS FormPages, DataFacts

(***************************************************************************)
(* The rows.                                                               *)
(***************************************************************************)

LEMMA RowFacts ==
  ASSUME NEW f \in Forms
  PROVE  /\ Row[f].name = f
         /\ Row[f].own => Row[f].dialog /\ Row[f].closes
         /\ f \in Row[f].blocked
  <1>1. f \in {r.name : r \in Rows} /\ Row[f] = CHOOSE r \in Rows : r.name = f
    BY FormsAssumption DEF Row
  <1>2. Row[f] \in Rows /\ Row[f].name = f
    BY <1>1
  <1>3. \A r \in Rows : r.own => r.dialog /\ r.closes
    BY DEF Rows, PaymentForm, CancelPaymentConfirmation, DisputeForm, ResolverApplicationForm,
           ResolverDeletatingConfirmation, Faucet, DepositPayment, CompletePayment,
           DisputePayment, SubmitProof, ResolveDispute
  <1>4. \A r \in Rows : r.name \in r.blocked
    BY DEF Rows, PaymentForm, CancelPaymentConfirmation, DisputeForm, ResolverApplicationForm,
           ResolverDeletatingConfirmation, Faucet, DepositPayment, CompletePayment,
           DisputePayment, SubmitProof, ResolveDispute
  <1> QED BY <1>2, <1>3, <1>4

LEMMA PageRows ==
  /\ "completePayment" \in Forms /\ "disputePayment" \in Forms
  /\ Row["completePayment"] = CompletePayment /\ Row["disputePayment"] = DisputePayment
  <1>1. CompletePayment \in Rows /\ DisputePayment \in Rows
    BY DEF Rows
  <1>2. CompletePayment.name = "completePayment" /\ DisputePayment.name = "disputePayment"
    BY DEF CompletePayment, DisputePayment
  <1>3. \A r \in Rows : /\ r.name = "completePayment" => r = CompletePayment
                        /\ r.name = "disputePayment" => r = DisputePayment
    BY DEF Rows, PaymentForm, CancelPaymentConfirmation, DisputeForm, ResolverApplicationForm,
           ResolverDeletatingConfirmation, Faucet, DepositPayment, CompletePayment,
           DisputePayment, SubmitProof, ResolveDispute
  <1>4. "completePayment" \in {r.name : r \in Rows} /\ "disputePayment" \in {r.name : r \in Rows}
    BY <1>1, <1>2
  <1>5. /\ Row["completePayment"] = CHOOSE r \in Rows : r.name = "completePayment"
        /\ Row["disputePayment"] = CHOOSE r \in Rows : r.name = "disputePayment"
    BY <1>4 DEF Row
  <1>6. /\ Row["completePayment"] \in Rows /\ Row["completePayment"].name = "completePayment"
        /\ Row["disputePayment"] \in Rows /\ Row["disputePayment"].name = "disputePayment"
    BY <1>1, <1>2, <1>5
  <1>7. "completePayment" \in Forms /\ "disputePayment" \in Forms
    BY <1>4, FormsAssumption DEF Row
  <1> QED BY <1>3, <1>6, <1>7

(***************************************************************************)
(* The flags.                                                              *)
(***************************************************************************)

TxFields == {"form", "mount", "from", "shown", "bad", "phase"}

\* What is known of the transactions and the instances.
TxsInv ==
    /\ open \in [Forms -> BOOLEAN]
    /\ mounts \in [Forms -> Nat]
    /\ busy \in [Forms -> BOOLEAN]
    /\ IsSeq(txs)
    /\ \A t \in DOMAIN txs :
         /\ DOMAIN txs[t] = TxFields
         /\ txs[t].form \in Forms
         /\ txs[t].mount \in Nat /\ txs[t].mount <= mounts[txs[t].form]

\* A transaction that keeps its form busy.
Blocks(f, phase) ==
    phase \in Pending \/ phase = "dropped" \/ (phase = "thrown" /\ ~Row[f].resets)

Holds(f, t) == txs[t].form = f /\ Alive(f, txs[t].mount) /\ Blocks(f, txs[t].phase)

\* There is one such transaction, or none.
FlagsInv ==
    /\ \A f \in Forms : busy[f] <=> \E t \in DOMAIN txs : Holds(f, t)
    /\ \A f \in Forms : \A t, u \in DOMAIN txs : Holds(f, t) /\ Holds(f, u) => t = u

\* The two buttons of a deposited payment exclude each other.
ExclusionInv ==
    /\ ~(busy["completePayment"] /\ busy["disputePayment"])
    /\ ~(busy["completePayment"] /\ open["disputePayment"])

ButtonsInv == TxsInv /\ FlagsInv /\ ExclusionInv

buttonVars == <<open, mounts, busy, txs>>

LEMMA ButtonsInitially == Init => ButtonsInv
  <1> SUFFICES ASSUME Init PROVE ButtonsInv OBVIOUS
  <1>1. /\ open = [f \in Forms |-> FALSE] /\ mounts = [f \in Forms |-> 0]
        /\ busy = [f \in Forms |-> FALSE] /\ txs = <<>>
    BY DEF Init, FormsInit
  <1>2. DOMAIN txs = {} BY <1>1, NothingIn
  <1>3. IsSeq(txs) BY <1>1 DEF IsSeq
  <1>4. TxsInv BY <1>1, <1>2, <1>3 DEF TxsInv
  <1>5. FlagsInv BY <1>1, <1>2 DEF FlagsInv
  <1>6. ExclusionInv BY <1>1, PageRows DEF ExclusionInv
  <1> QED BY <1>4, <1>5, <1>6 DEF ButtonsInv

LEMMA ButtonsUnchanged ==
  ASSUME ButtonsInv, UNCHANGED buttonVars PROVE ButtonsInv'
  <1>1. open' = open /\ mounts' = mounts /\ busy' = busy /\ txs' = txs BY DEF buttonVars
  <1>2. TxsInv' BY <1>1 DEF ButtonsInv, TxsInv, IsSeq, TxFields
  <1>3. \A f, t : Holds(f, t)' <=> Holds(f, t)
    BY <1>1 DEF Holds, Alive, Mounted, Blocks, Pending
  <1>4. FlagsInv' BY <1>1, <1>3 DEF ButtonsInv, FlagsInv
  <1>5. ExclusionInv' BY <1>1 DEF ButtonsInv, ExclusionInv
  <1> QED BY <1>2, <1>4, <1>5 DEF ButtonsInv

LEMMA OpenKeeps ==
  ASSUME ButtonsInv, NEW f \in Forms, Open(f) PROVE ButtonsInv'
  <1>1. /\ open' = [open EXCEPT ![f] = TRUE] /\ mounts' = [mounts EXCEPT ![f] = @ + 1]
        /\ busy' = busy /\ txs' = txs
        /\ Row[f].dialog /\ ~open[f] /\ \A g \in Row[f].opening : ~busy[g]
    BY DEF Open, Covered
  <1>2. TxsInv'
    BY <1>1 DEF ButtonsInv, TxsInv, IsSeq, TxFields
  <1>3. \A g \in Forms, t \in DOMAIN txs : Holds(g, t)' <=> Holds(g, t)
    <2> TAKE g \in Forms, t \in DOMAIN txs
    <2>1. txs[t].mount # mounts'[f] \/ txs[t].form # f
      BY <1>1 DEF ButtonsInv, TxsInv
    <2>2. CASE g = f /\ txs[t].form = f
      <3>1. Row[f].own => ~Alive(f, txs[t].mount) /\ ~Alive(f, txs[t].mount)'
        BY <1>1, <2>1, <2>2, RowFacts DEF Alive, Mounted
      <3>2. ~Row[f].own => Alive(f, txs[t].mount) /\ Alive(f, txs[t].mount)'
        BY DEF Alive
      <3> QED BY <1>1, <2>2, <3>1, <3>2 DEF Holds, Blocks, Pending
    <2>3. CASE g # f
      BY <1>1, <2>3 DEF ButtonsInv, TxsInv, Holds, Alive, Mounted, Blocks, Pending
    <2>4. CASE txs[t].form # g
      BY <1>1, <2>4 DEF Holds
    <2> QED BY <2>2, <2>3, <2>4
  <1>4. FlagsInv'
    BY <1>1, <1>3 DEF ButtonsInv, FlagsInv
  <1>5. ExclusionInv'
    <2>1. CASE f = "disputePayment"
      <3>1. ~busy["completePayment"]
        BY <1>1, <2>1, PageRows DEF DisputePayment
      <3> QED BY <1>1, <3>1 DEF ExclusionInv
    <2>2. CASE f # "disputePayment"
      BY <1>1, <2>2 DEF ButtonsInv, ExclusionInv, TxsInv
    <2> QED BY <2>1, <2>2
  <1> QED BY <1>2, <1>4, <1>5 DEF ButtonsInv

LEMMA CloseKeeps ==
  ASSUME ButtonsInv, NEW f \in Forms, Close(f) PROVE ButtonsInv'
  <1>1. /\ open' = [open EXCEPT ![f] = FALSE]
        /\ busy' = [busy EXCEPT ![f] = @ /\ ~Row[f].own]
        /\ mounts' = mounts /\ txs' = txs
    BY DEF Close, Closed
  <1>2. TxsInv'
    BY <1>1 DEF ButtonsInv, TxsInv, IsSeq, TxFields
  <1>3. \A t \in DOMAIN txs : Row[f].own => ~Holds(f, t)'
    BY <1>1, RowFacts DEF ButtonsInv, TxsInv, Holds, Alive, Mounted
  <1>4. \A g \in Forms, t \in DOMAIN txs : g # f \/ ~Row[f].own => (Holds(g, t)' <=> Holds(g, t))
    BY <1>1 DEF ButtonsInv, TxsInv, Holds, Alive, Mounted, Blocks, Pending
  <1>5. FlagsInv'
    <2>1. \A g \in Forms : g # f \/ ~Row[f].own => (busy'[g] <=> busy[g])
      BY <1>1 DEF ButtonsInv, TxsInv
    <2>2. Row[f].own => ~busy'[f]
      BY <1>1 DEF ButtonsInv, TxsInv
    <2> QED BY <1>1, <1>3, <1>4, <2>1, <2>2 DEF ButtonsInv, FlagsInv
  <1>6. ExclusionInv'
    <2>1. \A g \in Forms : (busy'[g] => busy[g]) /\ (open'[g] => open[g])
      BY <1>1 DEF ButtonsInv, TxsInv
    <2> QED BY <2>1, PageRows DEF ButtonsInv, ExclusionInv
  <1> QED BY <1>2, <1>5, <1>6 DEF ButtonsInv

\* Nothing is on its way when a button is pressed, and then one is.
LEMMA PressButtonKeeps ==
  ASSUME ButtonsInv, NEW f \in Forms, NEW from, NEW showing, Press(f, from, showing)
  PROVE  ButtonsInv'
  <1>1. PICK bad : txs' = Append(txs, [form |-> f, mount |-> mounts[f], from |-> from,
                                       shown |-> showing, bad |-> bad, phase |-> "account"])
    BY DEF Press
  <1> DEFINE elt == [form |-> f, mount |-> mounts[f], from |-> from, shown |-> showing,
                     bad |-> bad, phase |-> "account"]
  <1>2. /\ open' = open /\ mounts' = mounts /\ busy' = [busy EXCEPT ![f] = TRUE]
        /\ Usable(f) /\ \A g \in Row[f].blocked : ~busy[g]
    BY DEF Press
  <1>3. PICK n \in Nat : n = Len(txs) /\ DOMAIN txs = 1 .. n
    BY SeqFacts DEF ButtonsInv, TxsInv
  <1>4. elt.form = f /\ elt.mount = mounts[f] /\ elt.phase = "account" /\ DOMAIN elt = TxFields
    BY DEF TxFields
  <1>5. txs' = Append(txs, elt)
    BY <1>1
  <1>6. /\ IsSeq(txs') /\ DOMAIN txs' = 1 .. n + 1
        /\ \A t \in 1 .. n : txs'[t] = txs[t]
        /\ txs'[n + 1] = elt
    <2> HIDE DEF elt
    <2>1. IsSeq(txs) BY DEF ButtonsInv, TxsInv
    <2>2. /\ IsSeq(txs') /\ Len(txs') = n + 1
          /\ \A t \in 1 .. n : txs'[t] = txs[t]
          /\ txs'[n + 1] = elt
      BY <1>3, <1>5, <2>1, Appended
    <2>3. DOMAIN txs' = 1 .. n + 1
      BY <2>2, SeqFacts
    <2> QED BY <1>3, <2>2, <2>3
  <1> HIDE DEF elt
  <1>7. TxsInv'
    <2>1. ASSUME NEW t \in DOMAIN txs'
          PROVE  /\ DOMAIN txs'[t] = TxFields
                 /\ txs'[t].form \in Forms
                 /\ txs'[t].mount \in Nat /\ txs'[t].mount <= mounts[txs'[t].form]
      <3>1. CASE t = n + 1
        BY <1>4, <1>6, <3>1 DEF ButtonsInv, TxsInv
      <3>2. CASE t \in 1 .. n
        BY <1>3, <1>6, <3>2 DEF ButtonsInv, TxsInv
      <3> QED BY <1>6, <2>1, <3>1, <3>2
    <2>2. open' \in [Forms -> BOOLEAN] /\ mounts' \in [Forms -> Nat] /\ busy' \in [Forms -> BOOLEAN]
      BY <1>2 DEF ButtonsInv, TxsInv
    <2> QED BY <1>2, <1>6, <2>1, <2>2 DEF TxsInv, TxFields
  <1>8. Alive(f, mounts[f])
    BY <1>2, RowFacts DEF Usable, Alive, Mounted
  <1>9. \A g \in Forms : Holds(g, n + 1)' <=> g = f
    BY <1>2, <1>4, <1>6, <1>8 DEF Holds, Alive, Mounted, Blocks, Pending
  <1>10. \A g \in Forms, t \in 1 .. n : Holds(g, t)' <=> Holds(g, t)
    BY <1>2, <1>6 DEF Holds, Alive, Mounted, Blocks, Pending
  <1>11. ~busy[f]
    BY <1>2, RowFacts
  <1>12. FlagsInv'
    <2>1. \A t \in 1 .. n : ~Holds(f, t)
      BY <1>3, <1>11 DEF ButtonsInv, FlagsInv
    <2>2. \A g \in Forms : busy'[g] <=> \E t \in DOMAIN txs' : Holds(g, t)'
      <3> TAKE g \in Forms
      <3>1. CASE g = f
        <4>1. n + 1 \in DOMAIN txs' BY <1>3, <1>6
        <4> QED BY <1>2, <1>9, <3>1, <4>1 DEF ButtonsInv, TxsInv
      <3>2. CASE g # f
        <4>1. busy'[g] = busy[g] BY <1>2, <3>2
        <4>2. \A t \in DOMAIN txs' : Holds(g, t)' <=> t \in 1 .. n /\ Holds(g, t)
          BY <1>3, <1>6, <1>9, <1>10, <3>2
        <4>3. \A t \in 1 .. n : t \in DOMAIN txs' BY <1>3, <1>6
        <4> QED BY <1>3, <4>1, <4>2, <4>3 DEF ButtonsInv, FlagsInv
      <3> QED BY <3>1, <3>2
    <2>3. \A g \in Forms : \A t, u \in DOMAIN txs' : Holds(g, t)' /\ Holds(g, u)' => t = u
      <3> TAKE g \in Forms
      <3> TAKE t, u \in DOMAIN txs'
      <3> HAVE Holds(g, t)' /\ Holds(g, u)'
      <3>1. CASE g = f
        <4>1. t = n + 1 /\ u = n + 1 BY <1>3, <1>6, <1>10, <2>1, <3>1
        <4> QED BY <4>1
      <3>2. CASE g # f
        <4>1. t \in 1 .. n /\ u \in 1 .. n BY <1>3, <1>6, <1>9, <3>2
        <4> QED BY <1>3, <1>10, <4>1 DEF ButtonsInv, FlagsInv
      <3> QED BY <3>1, <3>2
    <2> QED BY <2>2, <2>3 DEF FlagsInv
  <1>13. ExclusionInv'
    <2>1. CASE f = "completePayment"
      <3>1. ~busy["disputePayment"]
        BY <1>2, <2>1, PageRows DEF CompletePayment
      <3>2. ~open["disputePayment"]
        BY <1>2, <2>1, PageRows DEF Usable, Covered, CompletePayment
      <3> QED BY <1>2, <2>1, <3>1, <3>2 DEF ExclusionInv
    <2>2. CASE f = "disputePayment"
      <3>1. open["disputePayment"]
        BY <1>2, <2>2, PageRows DEF Usable, DisputePayment
      <3>2. ~busy["completePayment"]
        BY <3>1 DEF ButtonsInv, ExclusionInv
      <3> QED BY <1>2, <2>2, <3>2 DEF ExclusionInv
    <2>3. CASE f \notin {"completePayment", "disputePayment"}
      BY <1>2, <2>3 DEF ButtonsInv, ExclusionInv
    <2> QED BY <2>1, <2>2, <2>3
  <1> QED BY <1>7, <1>12, <1>13 DEF ButtonsInv

\* A transaction moves on.
LEMMA Moved ==
  ASSUME TxsInv, NEW t \in DOMAIN txs, NEW phase, Moves(t, phase)
  PROVE  /\ IsSeq(txs') /\ DOMAIN txs' = DOMAIN txs
         /\ \A u \in DOMAIN txs : u # t => txs'[u] = txs[u]
         /\ DOMAIN txs'[t] = TxFields
         /\ txs'[t].form = txs[t].form /\ txs'[t].mount = txs[t].mount
         /\ txs'[t].from = txs[t].from /\ txs'[t].shown = txs[t].shown
         /\ txs'[t].phase = phase
  <1> DEFINE r == [txs[t] EXCEPT !.phase = phase]
             n == Len(txs)
             e == [txs EXCEPT ![t] = r]
  <1>1. DOMAIN txs[t] = TxFields BY DEF TxsInv
  <1>2. /\ DOMAIN r = TxFields
        /\ r.form = txs[t].form /\ r.mount = txs[t].mount
        /\ r.from = txs[t].from /\ r.shown = txs[t].shown /\ r.phase = phase
    BY <1>1 DEF TxFields
  <1>3. txs' = [txs EXCEPT ![t] = r]
    BY DEF Moves
  <1> HIDE DEF r
  <1>4. n \in Nat /\ DOMAIN txs = 1 .. n
    BY SeqFacts DEF TxsInv
  <1>5. e = [u \in 1 .. n |-> e[u]]
    BY <1>4
  <1>6. /\ DOMAIN e = DOMAIN txs /\ e[t] = r
        /\ \A u \in DOMAIN txs : u # t => e[u] = txs[u]
    OBVIOUS
  <1>7. txs' = e BY <1>3
  <1> HIDE DEF n, e
  <1>8. IsSeq(e) BY <1>4, <1>5, FunctionIsSeq
  <1> QED BY <1>2, <1>6, <1>7, <1>8

\* A transaction on its way moves on, blocks its form still, or frees it.
LEMMA MovesKeeps ==
  ASSUME ButtonsInv, NEW t \in DOMAIN txs, NEW phase,
         txs[t].phase \in Pending, Moves(t, phase),
         UNCHANGED <<open, mounts>>,
         \/ Blocks(txs[t].form, phase) /\ busy' = busy
         \/ ~Blocks(txs[t].form, phase) /\ busy' = Reset(t)
  PROVE  ButtonsInv'
  <1>1. PICK f \in Forms : f = txs[t].form
    BY DEF ButtonsInv, TxsInv
  <1>2. /\ IsSeq(txs') /\ DOMAIN txs' = DOMAIN txs
        /\ \A u \in DOMAIN txs : u # t => txs'[u] = txs[u]
        /\ DOMAIN txs'[t] = TxFields
        /\ txs'[t].form = f /\ txs'[t].mount = txs[t].mount /\ txs'[t].phase = phase
    BY <1>1, Moved DEF ButtonsInv
  <1>3. TxsInv'
    <2>1. busy' \in [Forms -> BOOLEAN]
      BY DEF ButtonsInv, TxsInv, Reset
    <2> QED BY <1>1, <1>2, <2>1 DEF ButtonsInv, TxsInv, TxFields
  <1>4. \A g \in Forms, u \in DOMAIN txs : u # t \/ g # f => (Holds(g, u)' <=> Holds(g, u))
    <2> TAKE g \in Forms, u \in DOMAIN txs
    <2>1. CASE u # t
      <3>1. txs'[u] = txs[u] BY <1>2, <2>1
      <3> QED BY <3>1 DEF Holds, Alive, Mounted, Blocks, Pending
    <2>2. CASE u = t /\ g # f
      <3>1. txs'[u].form = f /\ txs[u].form = f BY <1>1, <1>2, <2>2
      <3> QED BY <2>2, <3>1 DEF Holds
    <2> QED BY <2>1, <2>2
  <1>5. Holds(f, t) <=> Alive(f, txs[t].mount)
    BY <1>1 DEF Holds, Blocks
  <1>6. Holds(f, t)' <=> Alive(f, txs[t].mount) /\ Blocks(f, phase)
    BY <1>1, <1>2 DEF Holds, Alive, Mounted, Blocks, Pending
  <1>7. FlagsInv'
    <2>1. \A g \in Forms : \A u, v \in DOMAIN txs' : Holds(g, u)' /\ Holds(g, v)' => u = v
      BY <1>2, <1>4, <1>5, <1>6 DEF ButtonsInv, FlagsInv
    <2>2. \A g \in Forms : g # f => (busy'[g] <=> busy[g])
      BY <1>1 DEF ButtonsInv, TxsInv, Reset
    <2>3. CASE Blocks(f, phase) /\ busy' = busy
      <3>1. \A g \in Forms, u \in DOMAIN txs : Holds(g, u)' <=> Holds(g, u)
        BY <1>4, <1>5, <1>6, <2>3
      <3> QED BY <1>2, <2>1, <2>3, <3>1 DEF ButtonsInv, FlagsInv
    <2>4. CASE ~Blocks(f, phase) /\ busy' = Reset(t)
      <3>1. CASE Alive(f, txs[t].mount)
        <4>1. ~busy'[f] BY <1>1, <2>4, <3>1 DEF Reset, ButtonsInv, TxsInv
        <4>2. \A u \in DOMAIN txs : ~Holds(f, u)'
          BY <1>1, <1>4, <1>5, <1>6, <2>4, <3>1 DEF ButtonsInv, FlagsInv
        <4> QED BY <1>2, <1>4, <2>1, <2>2, <4>1, <4>2 DEF ButtonsInv, FlagsInv
      <3>2. CASE ~Alive(f, txs[t].mount)
        <4>1. busy' = busy BY <1>1, <2>4, <3>2 DEF Reset
        <4>2. \A g \in Forms, u \in DOMAIN txs : Holds(g, u)' <=> Holds(g, u)
          BY <1>4, <1>5, <1>6, <3>2
        <4> QED BY <1>2, <2>1, <4>1, <4>2 DEF ButtonsInv, FlagsInv
      <3> QED BY <3>1, <3>2
    <2> QED BY <1>1, <2>3, <2>4
  <1>8. ExclusionInv'
    <2>1. \A g \in Forms : busy'[g] => busy[g]
      BY DEF ButtonsInv, TxsInv, Reset
    <2> QED BY <2>1, PageRows DEF ButtonsInv, ExclusionInv
  <1> QED BY <1>3, <1>7, <1>8 DEF ButtonsInv

\* A transaction is final: its instance, or the one open now, is closed.
LEMMA FinalizeKeeps ==
  ASSUME ButtonsInv, NEW t \in DOMAIN txs, Finalize(t)
  PROVE  ButtonsInv'
  <1>1. PICK f \in Forms : f = txs[t].form
    BY DEF ButtonsInv, TxsInv
  <1>2. /\ Row[f].name = f /\ txs[t].phase = "included" /\ Moves(t, "finalized")
        /\ open' = [open EXCEPT ![f] = @ /\ ~Row[f].closes]
        /\ busy' = IF Row[f].own THEN [busy EXCEPT ![f] = FALSE] ELSE Reset(t)
        /\ mounts' = mounts
    BY <1>1, RowFacts DEF Finalize, InPhase
  <1>3. /\ IsSeq(txs') /\ DOMAIN txs' = DOMAIN txs
        /\ \A u \in DOMAIN txs : u # t => txs'[u] = txs[u]
        /\ DOMAIN txs'[t] = TxFields
        /\ txs'[t].form = f /\ txs'[t].mount = txs[t].mount /\ txs'[t].phase = "finalized"
    BY <1>1, <1>2, Moved DEF ButtonsInv
  <1>4. busy' = [busy EXCEPT ![f] = FALSE]
    BY <1>1, <1>2 DEF Reset, Alive
  <1>5. TxsInv'
    <2>1. open' \in [Forms -> BOOLEAN] /\ busy' \in [Forms -> BOOLEAN]
      BY <1>2, <1>4 DEF ButtonsInv, TxsInv
    <2> QED BY <1>1, <1>2, <1>3, <2>1 DEF ButtonsInv, TxsInv, TxFields
  <1>6. \A g \in Forms, u \in DOMAIN txs : g # f => (Holds(g, u)' <=> Holds(g, u))
    <2> TAKE g \in Forms, u \in DOMAIN txs
    <2> HAVE g # f
    <2>1. open'[g] = open[g] /\ mounts' = mounts
      BY <1>2 DEF ButtonsInv, TxsInv
    <2>2. CASE u # t
      <3>1. txs'[u] = txs[u] BY <1>3, <2>2
      <3> QED BY <2>1, <3>1 DEF Holds, Alive, Mounted, Blocks, Pending
    <2>3. CASE u = t
      <3>1. txs'[u].form = f /\ txs[u].form = f BY <1>1, <1>3, <2>3
      <3> QED BY <3>1 DEF Holds
    <2> QED BY <2>2, <2>3
  <1>7. \A u \in DOMAIN txs : ~Holds(f, u)'
    <2> TAKE u \in DOMAIN txs
    <2>1. CASE Row[f].own
      <3>1. ~open'[f] /\ Row[f].dialog
        BY <1>2, <2>1, RowFacts DEF ButtonsInv, TxsInv
      <3> QED BY <2>1, <3>1 DEF Holds, Alive, Mounted
    <2>2. CASE ~Row[f].own /\ u = t
      BY <1>3, <2>2 DEF Holds, Blocks, Pending
    <2>3. CASE ~Row[f].own /\ u # t
      <3>1. Holds(f, t)
        BY <1>1, <1>2, <2>3 DEF Holds, Alive, Blocks, Pending
      <3>2. ~Holds(f, u)
        BY <2>3, <3>1 DEF ButtonsInv, FlagsInv
      <3>3. txs'[u] = txs[u] BY <1>3, <2>3
      <3> QED BY <2>3, <3>2, <3>3 DEF Holds, Alive, Blocks, Pending
    <2> QED BY <2>1, <2>2, <2>3
  <1>8. FlagsInv'
    <2>1. ~busy'[f] /\ \A g \in Forms : g # f => (busy'[g] <=> busy[g])
      BY <1>4 DEF ButtonsInv, TxsInv
    <2> QED BY <1>3, <1>6, <1>7, <2>1 DEF ButtonsInv, FlagsInv
  <1>9. ExclusionInv'
    <2>1. \A g \in Forms : (busy'[g] => busy[g]) /\ (open'[g] => open[g])
      BY <1>2, <1>4 DEF ButtonsInv, TxsInv
    <2> QED BY <2>1, PageRows DEF ButtonsInv, ExclusionInv
  <1> QED BY <1>5, <1>8, <1>9 DEF ButtonsInv

\* A step of a transaction before it is final.
LEMMA TxKeeps ==
  ASSUME ButtonsInv, NEW t \in DOMAIN txs,
         \/ GetFromAcct(t) \/ Throw(t) \/ Sign(t) \/ Refuse(t) \/ Drop(t) \/ Include(t)
  PROVE  ButtonsInv'
  <1>1. UNCHANGED <<open, mounts>>
    BY DEF GetFromAcct, Throw, Sign, Refuse, Drop, Include
  <1>2. CASE GetFromAcct(t)
    BY <1>1, <1>2, MovesKeeps DEF GetFromAcct, InPhase, Pending, Blocks
  <1>3. CASE Throw(t)
    <2>1. txs[t].phase \in Pending /\ Moves(t, "thrown")
      BY <1>3 DEF Throw, InPhase, Pending
    <2>2. \/ Blocks(txs[t].form, "thrown") /\ busy' = busy
          \/ ~Blocks(txs[t].form, "thrown") /\ busy' = Reset(t)
      BY <1>3 DEF Throw, Blocks, Pending
    <2> QED BY <1>1, <2>1, <2>2, MovesKeeps
  <1>4. CASE Sign(t)
    BY <1>1, <1>4, MovesKeeps DEF Sign, InPhase, Pending, Blocks
  <1>5. CASE Refuse(t)
    BY <1>1, <1>5, MovesKeeps DEF Refuse, InPhase, Pending, Blocks
  <1>6. CASE Drop(t)
    BY <1>1, <1>6, MovesKeeps DEF Drop, InPhase, Pending, Blocks
  <1>7. CASE Include(t)
    BY <1>1, <1>7, MovesKeeps DEF Include, InPhase, Pending, Blocks
  <1> QED BY <1>2, <1>3, <1>4, <1>5, <1>6, <1>7

(***************************************************************************)
(* The drafts.                                                             *)
(***************************************************************************)

UploadFields == {"form", "mount", "text", "phase", "key", "url"}

Uploading(up) == DOMAIN up = UploadFields /\ up.form \in Forms

Given(f) == \E u \in DOMAIN uploads :
    uploads[u].form = f /\ uploads[u].phase = "given" /\ uploads[u].text # typed[f]

Cleared(f) == \E t \in DOMAIN txs : txs[t].phase = "finalized" /\ f \in Row[txs[t].form].clears

DraftInv ==
    /\ IsSeq(uploads)
    /\ \A u \in DOMAIN uploads :
         Uploading(uploads[u]) /\ (uploads[u].url \in Keys => uploads[u].url \in store)
    /\ DOMAIN draft = Forms /\ DOMAIN typed = Forms
    /\ \A f \in Forms : DOMAIN draft[f] = {"text", "image"}
                        /\ (draft[f].image \in Keys => draft[f].image \in store)
    /\ \A f \in Forms : draft[f].text = typed[f] \/ Given(f) \/ Cleared(f)

\* What a step does not undo.
GivenKept == \A u \in DOMAIN uploads : uploads[u].phase = "given" =>
    /\ u \in DOMAIN uploads' /\ uploads'[u].phase = "given"
    /\ uploads'[u].form = uploads[u].form /\ uploads'[u].text = uploads[u].text

FinalKept == \A t \in DOMAIN txs : txs[t].phase = "finalized" =>
    t \in DOMAIN txs' /\ txs'[t].phase = "finalized" /\ txs'[t].form = txs[t].form

\* Nothing typed, nothing uploaded.
LEMMA NothingDrafted ==
  ASSUME NEW f \in Forms
  PROVE  /\ DOMAIN EmptyDraft(f) = {"text", "image"} /\ EmptyDraft(f).text = 0
         /\ EmptyDraft(f).image \notin Keys
  BY UploadsAssumption, FormsAssumption DEF EmptyDraft

LEMMA DraftsInitially == Init => DraftInv
  <1> SUFFICES ASSUME Init PROVE DraftInv OBVIOUS
  <1>1. /\ uploads = <<>> /\ typed = [f \in Forms |-> 0]
        /\ draft = [f \in Forms |-> EmptyDraft(f)]
    BY DEF Init, FormsInit, UploadsInit
  <1>2. DOMAIN uploads = {} BY <1>1, NothingIn
  <1>3. IsSeq(uploads) BY <1>1 DEF IsSeq
  <1> QED BY <1>1, <1>2, <1>3, NothingDrafted DEF DraftInv

\* Uploads and drafts as they are.
LEMMA DraftsUnchanged ==
  ASSUME DraftInv, FinalKept, UNCHANGED <<uploads, store, draft, typed>>
  PROVE  DraftInv'
  <1>1. \A f \in Forms : Given(f) => Given(f)'
    BY DEF Given
  <1>2. \A f \in Forms : Cleared(f) => Cleared(f)'
    BY DEF FinalKept, Cleared
  <1>3. \A u \in DOMAIN uploads : Uploading(uploads[u])'
    BY DEF DraftInv, Uploading, UploadFields
  <1> QED BY <1>1, <1>2, <1>3 DEF DraftInv, IsSeq

\* Other uploads, the same drafts.
LEMMA DraftsKept ==
  ASSUME DraftInv, FinalKept, GivenKept, UNCHANGED <<draft, typed>>,
         store \subseteq store', IsSeq(uploads'),
         \A u \in DOMAIN uploads' :
           Uploading(uploads'[u]) /\ (uploads'[u].url \in Keys => uploads'[u].url \in store')
  PROVE  DraftInv'
  <1>1. \A f \in Forms : Given(f) => Given(f)'
    BY DEF Given, GivenKept
  <1>2. \A f \in Forms : Cleared(f) => Cleared(f)'
    BY DEF FinalKept, Cleared
  <1>3. \A u \in DOMAIN uploads' : Uploading(uploads[u])'
    BY DEF Uploading, UploadFields
  <1> QED BY <1>1, <1>2, <1>3 DEF DraftInv

\* A form closes, is typed into, or is emptied: its text is the one typed.
LEMMA DraftWritten ==
  ASSUME DraftInv, UNCHANGED <<uploads, store>>, FinalKept,
         DOMAIN draft' = Forms, DOMAIN typed' = Forms,
         \A f \in Forms : DOMAIN draft'[f] = {"text", "image"}
                          /\ draft'[f].image \in {draft[f].image, NoUrl, NoImage},
         \A f \in Forms : \/ draft'[f].text = typed'[f]
                          \/ draft'[f].text = draft[f].text /\ typed'[f] = typed[f]
                          \/ Cleared(f)'
  PROVE  DraftInv'
  <1>1. \A f \in Forms : typed'[f] = typed[f] => (Given(f) => Given(f)')
    BY DEF Given
  <1>2. \A f \in Forms : Cleared(f) => Cleared(f)'
    BY DEF FinalKept, Cleared
  <1>3. \A u \in DOMAIN uploads : Uploading(uploads[u])'
    BY DEF DraftInv, Uploading, UploadFields
  <1>4. NoUrl \notin Keys /\ NoImage \notin Keys
    BY UploadsAssumption, FormsAssumption
  <1>5. \A f \in Forms : draft'[f].image \in Keys => draft'[f].image \in store
    BY <1>4 DEF DraftInv
  <1>6. \A f \in Forms : draft'[f].text = typed'[f] \/ Given(f)' \/ Cleared(f)'
    BY <1>1, <1>2 DEF DraftInv
  <1> QED BY <1>3, <1>5, <1>6 DEF DraftInv, IsSeq

LEMMA CloseDrafts ==
  ASSUME DraftInv, NEW f \in Forms, Close(f) PROVE DraftInv'
  <1>1. /\ draft' = [draft EXCEPT ![f] = IF Row[f].own THEN EmptyDraft(f) ELSE @]
        /\ typed' = [typed EXCEPT ![f] = IF Row[f].own THEN 0 ELSE @]
        /\ UNCHANGED <<uploads, store, txs>>
    BY DEF Close, Closed, uploadVars
  <1>2. FinalKept BY <1>1 DEF FinalKept
  <1>3. EmptyDraft(f).text = 0 /\ DOMAIN EmptyDraft(f) = {"text", "image"}
        /\ EmptyDraft(f).image \in {NoUrl, NoImage}
    BY NothingDrafted DEF EmptyDraft
  <1>4. DOMAIN draft' = Forms /\ DOMAIN typed' = Forms
    BY <1>1 DEF DraftInv
  <1>5. \A g \in Forms : DOMAIN draft'[g] = {"text", "image"}
                         /\ draft'[g].image \in {draft[g].image, NoUrl, NoImage}
    BY <1>1, <1>3 DEF DraftInv
  <1>6. \A g \in Forms : \/ draft'[g].text = typed'[g]
                         \/ draft'[g].text = draft[g].text /\ typed'[g] = typed[g]
    BY <1>1, <1>3 DEF DraftInv
  <1> QED BY <1>1, <1>2, <1>4, <1>5, <1>6, DraftWritten

LEMMA TypeDrafts ==
  ASSUME DraftInv, NEW f \in Forms, Type(f) PROVE DraftInv'
  <1>1. /\ typed' = [typed EXCEPT ![f] = @ + 1]
        /\ draft' = [draft EXCEPT ![f].text = typed'[f]]
        /\ UNCHANGED <<uploads, store, txs>>
    BY DEF Type, uploadVars
  <1>2. FinalKept BY <1>1 DEF FinalKept
  <1>3. DOMAIN draft' = Forms /\ DOMAIN typed' = Forms
    BY <1>1 DEF DraftInv
  <1>4. \A g \in Forms : DOMAIN draft'[g] = {"text", "image"} /\ draft'[g].image = draft[g].image
    BY <1>1 DEF DraftInv
  <1>5. draft'[f].text = typed'[f]
    BY <1>1 DEF DraftInv
  <1>6. \A g \in Forms : g # f => draft'[g].text = draft[g].text /\ typed'[g] = typed[g]
    BY <1>1 DEF DraftInv
  <1> QED BY <1>1, <1>2, <1>3, <1>4, <1>5, <1>6, DraftWritten

LEMMA FinalizeDrafts ==
  ASSUME DraftInv, TxsInv, NEW t \in DOMAIN txs, Finalize(t) PROVE DraftInv'
  <1>1. PICK f \in Forms : f = txs[t].form
    BY DEF TxsInv
  <1>2. Row[f].name = f BY RowFacts
  <1>3. /\ draft' = [g \in Forms |-> IF g \in Row[f].clears \/ (Row[f].own /\ g = f)
                                     THEN EmptyDraft(g) ELSE draft[g]]
        /\ typed' = IF Row[f].own THEN [typed EXCEPT ![f] = 0] ELSE typed
        /\ UNCHANGED <<uploads, store>> /\ Moves(t, "finalized")
    BY <1>1, <1>2 DEF Finalize, uploadVars
  <1>4. /\ DOMAIN txs' = DOMAIN txs
        /\ \A u \in DOMAIN txs : u # t => txs'[u] = txs[u]
        /\ txs'[t].form = f /\ txs'[t].phase = "finalized"
    BY <1>1, <1>3, Moved
  <1>5. FinalKept BY <1>1, <1>4 DEF FinalKept
  <1>6. \A g \in Forms : EmptyDraft(g).text = 0 /\ DOMAIN EmptyDraft(g) = {"text", "image"}
                         /\ EmptyDraft(g).image \in {NoUrl, NoImage}
    BY NothingDrafted DEF EmptyDraft
  <1>7. DOMAIN draft' = Forms /\ DOMAIN typed' = Forms
    BY <1>3 DEF DraftInv
  <1>8. \A g \in Forms : DOMAIN draft'[g] = {"text", "image"}
                         /\ draft'[g].image \in {draft[g].image, NoUrl, NoImage}
    BY <1>3, <1>6 DEF DraftInv
  <1>9. \A g \in Forms : g \in Row[f].clears => Cleared(g)'
    BY <1>4 DEF Cleared, Row
  <1>10. \A g \in Forms : g \notin Row[f].clears =>
            \/ draft'[g].text = typed'[g]
            \/ draft'[g].text = draft[g].text /\ typed'[g] = typed[g]
    BY <1>3, <1>6 DEF DraftInv
  <1> QED BY <1>3, <1>5, <1>7, <1>8, <1>9, <1>10, DraftWritten

LEMMA ChooseDrafts ==
  ASSUME DraftInv, NEW f \in Forms, ChooseImage(f) PROVE DraftInv'
  <1> DEFINE elt == [form |-> f, mount |-> mounts[f], text |-> draft[f].text,
                     phase |-> "reading", key |-> NoUrl, url |-> NoUrl]
  <1>1. /\ uploads' = Append(uploads, elt)
        /\ UNCHANGED <<store, draft, typed, txs>>
    BY DEF ChooseImage, SelectFile
  <1>2. Uploading(elt) /\ elt.url \notin Keys
    BY UploadsAssumption DEF Uploading, UploadFields
  <1>3. PICK n \in Nat : n = Len(uploads) /\ DOMAIN uploads = 1 .. n
    BY SeqFacts DEF DraftInv
  <1> HIDE DEF elt
  <1>4. /\ IsSeq(uploads') /\ DOMAIN uploads' = 1 .. n + 1
        /\ \A u \in 1 .. n : uploads'[u] = uploads[u]
        /\ uploads'[n + 1] = elt
    <2>1. IsSeq(uploads) BY DEF DraftInv
    <2>2. /\ IsSeq(uploads') /\ Len(uploads') = n + 1
          /\ \A u \in 1 .. n : uploads'[u] = uploads[u]
          /\ uploads'[n + 1] = elt
      BY <1>1, <1>3, <2>1, Appended
    <2>3. DOMAIN uploads' = 1 .. n + 1
      BY <2>2, SeqFacts
    <2> QED BY <2>2, <2>3
  <1>5. GivenKept BY <1>3, <1>4 DEF GivenKept
  <1>6. FinalKept BY <1>1 DEF FinalKept
  <1>7. ASSUME NEW u \in DOMAIN uploads'
        PROVE  Uploading(uploads'[u]) /\ (uploads'[u].url \in Keys => uploads'[u].url \in store')
    <2>1. CASE u = n + 1 BY <1>2, <1>4, <2>1
    <2>2. CASE u \in 1 .. n BY <1>1, <1>3, <1>4, <2>2 DEF DraftInv
    <2> QED BY <1>3, <1>4, <2>1, <2>2
  <1> QED BY <1>1, <1>4, <1>5, <1>6, <1>7, DraftsKept

\* An upload goes on: it was not given to its form yet.
LEMMA UploadMoved ==
  ASSUME DraftInv, NEW u \in DOMAIN uploads, uploads[u].phase # "given",
         NEW r, uploads' = [uploads EXCEPT ![u] = r],
         Uploading(r), r.url \in Keys => r.url \in store', store \subseteq store'
  PROVE  /\ IsSeq(uploads') /\ GivenKept /\ uploads'[u] = r /\ DOMAIN uploads' = DOMAIN uploads
         /\ \A v \in DOMAIN uploads' :
              Uploading(uploads'[v]) /\ (uploads'[v].url \in Keys => uploads'[v].url \in store')
  <1> DEFINE n == Len(uploads)
             e == [uploads EXCEPT ![u] = r]
  <1>1. n \in Nat /\ DOMAIN uploads = 1 .. n
    BY SeqFacts DEF DraftInv
  <1>2. e = [v \in 1 .. n |-> e[v]] BY <1>1
  <1>3. /\ DOMAIN e = DOMAIN uploads /\ e[u] = r
        /\ \A v \in DOMAIN uploads : v # u => e[v] = uploads[v]
    OBVIOUS
  <1>4. uploads' = e OBVIOUS
  <1> HIDE DEF n, e
  <1>5. IsSeq(e) BY <1>1, <1>2, FunctionIsSeq
  <1>6. GivenKept BY <1>3, <1>4 DEF GivenKept
  <1>7. ASSUME NEW v \in DOMAIN uploads'
        PROVE  Uploading(uploads'[v]) /\ (uploads'[v].url \in Keys => uploads'[v].url \in store')
    <2>1. CASE v = u BY <1>3, <1>4, <2>1
    <2>2. CASE v # u BY <1>3, <1>4, <2>2 DEF DraftInv
    <2> QED BY <2>1, <2>2
  <1> QED BY <1>3, <1>4, <1>5, <1>6, <1>7

LEMMA ReadDrafts ==
  ASSUME DraftInv, NEW u \in DOMAIN uploads, NEW key, ReadImage(u, key) PROVE DraftInv'
  <1> DEFINE r == [uploads[u] EXCEPT !.phase = "head", !.key = key]
  <1>1. /\ uploads[u].phase = "reading" /\ uploads' = [uploads EXCEPT ![u] = r]
        /\ UNCHANGED <<store, draft, typed, txs>>
    BY DEF ReadImage, FileRead, At
  <1>2. Uploading(uploads[u]) /\ (uploads[u].url \in Keys => uploads[u].url \in store)
    BY DEF DraftInv
  <1>3. Uploading(r) /\ r.url = uploads[u].url
    BY <1>2 DEF Uploading, UploadFields
  <1> HIDE DEF r
  <1>4. IsSeq(uploads') /\ GivenKept
        /\ \A v \in DOMAIN uploads' :
             Uploading(uploads'[v]) /\ (uploads'[v].url \in Keys => uploads'[v].url \in store')
    BY <1>1, <1>2, <1>3, UploadMoved
  <1>5. FinalKept BY <1>1 DEF FinalKept
  <1> QED BY <1>1, <1>4, <1>5, DraftsKept

\* The service answers with the url of what it stored, or without one.
LEMMA StoreDrafts ==
  ASSUME DraftInv, NEW u \in DOMAIN uploads, StoreImage(u) PROVE DraftInv'
  <1>1. /\ uploads[u].phase \in {"head", "put"} /\ store \subseteq store'
        /\ UNCHANGED <<draft, typed, txs>>
    BY DEF StoreImage, ServiceStep, HeadObject, PutObject, At
  <1>2. Uploading(uploads[u]) /\ (uploads[u].url \in Keys => uploads[u].url \in store)
    BY DEF DraftInv
  <1>3. \/ uploads' = [uploads EXCEPT ![u].phase = "put"]
        \/ \E url \in {NoUrl, uploads[u].key} :
             uploads' = Answered(u, url) /\ (url \in Keys => url \in store')
    BY UploadsAssumption DEF StoreImage, ServiceStep, HeadObject, PutObject
  <1>4. PICK r : /\ uploads' = [uploads EXCEPT ![u] = r] /\ Uploading(r)
                 /\ r.url \in Keys => r.url \in store'
    <2>1. CASE uploads' = [uploads EXCEPT ![u].phase = "put"]
      <3> DEFINE r == [uploads[u] EXCEPT !.phase = "put"]
      <3>1. uploads' = [uploads EXCEPT ![u] = r] BY <2>1
      <3>2. Uploading(r) /\ r.url = uploads[u].url BY <1>2 DEF Uploading, UploadFields
      <3> HIDE DEF r
      <3> QED BY <1>1, <1>2, <3>1, <3>2
    <2>2. CASE \E url \in {NoUrl, uploads[u].key} :
                 uploads' = Answered(u, url) /\ (url \in Keys => url \in store')
      <3>1. PICK url : uploads' = Answered(u, url) /\ (url \in Keys => url \in store')
        BY <2>2
      <3> DEFINE r == [uploads[u] EXCEPT !.phase = "answered", !.url = url]
      <3>2. uploads' = [uploads EXCEPT ![u] = r] BY <3>1 DEF Answered
      <3>3. Uploading(r) /\ r.url = url BY <1>2 DEF Uploading, UploadFields
      <3> HIDE DEF r
      <3> QED BY <3>1, <3>2, <3>3
    <2> QED BY <1>3, <2>1, <2>2
  <1>5. IsSeq(uploads') /\ GivenKept
        /\ \A v \in DOMAIN uploads' :
             Uploading(uploads'[v]) /\ (uploads'[v].url \in Keys => uploads'[v].url \in store')
    BY <1>1, <1>4, UploadMoved
  <1>6. FinalKept BY <1>1 DEF FinalKept
  <1> QED BY <1>1, <1>5, <1>6, DraftsKept

\* The answer is given to the form, with the text of the form then.
LEMMA UploadedDrafts ==
  ASSUME DraftInv, NEW u \in DOMAIN uploads, ImageUploaded(u) PROVE DraftInv'
  <1>1. PICK f \in Forms : f = uploads[u].form
    BY DEF DraftInv, Uploading
  <1>2. PICK phase \in {"given", "lost"} :
          /\ phase = IF At(u, "answered") THEN "given" ELSE "lost"
          /\ uploads' = [uploads EXCEPT ![u].phase = phase]
    BY DEF ImageUploaded, UploadEnds
  <1>3. /\ uploads[u].phase # "given" /\ store \subseteq store' /\ UNCHANGED <<typed, txs>>
    BY DEF ImageUploaded, UploadEnds, At
  <1> DEFINE r == [uploads[u] EXCEPT !.phase = phase]
  <1>4. Uploading(uploads[u]) /\ (uploads[u].url \in Keys => uploads[u].url \in store)
    BY DEF DraftInv
  <1>5. Uploading(r) /\ r.url = uploads[u].url /\ r.form = f /\ r.text = uploads[u].text /\ r.phase = phase
    BY <1>1, <1>4 DEF Uploading, UploadFields
  <1>6. uploads' = [uploads EXCEPT ![u] = r] BY <1>2
  <1> HIDE DEF r
  <1>7. /\ IsSeq(uploads') /\ GivenKept /\ uploads'[u] = r /\ DOMAIN uploads' = DOMAIN uploads
        /\ \A v \in DOMAIN uploads' :
             Uploading(uploads'[v]) /\ (uploads'[v].url \in Keys => uploads'[v].url \in store')
    BY <1>3, <1>4, <1>5, <1>6, UploadMoved
  <1>8. FinalKept BY <1>3 DEF FinalKept
  <1>9. \/ draft' = draft
        \/ /\ phase = "given"
           /\ draft' = [draft EXCEPT ![f] = [text |-> uploads[u].text, image |-> uploads[u].url]]
    BY <1>1, <1>2 DEF ImageUploaded
  <1>10. CASE draft' = draft
    BY <1>3, <1>7, <1>8, <1>10, DraftsKept
  <1>11. CASE /\ phase = "given"
              /\ draft' = [draft EXCEPT ![f] = [text |-> uploads[u].text, image |-> uploads[u].url]]
    <2>1. \A g \in Forms : g # f => draft'[g] = draft[g]
      BY <1>11 DEF DraftInv
    <2>2. /\ draft'[f].text = uploads[u].text /\ draft'[f].image = uploads[u].url
          /\ DOMAIN draft'[f] = {"text", "image"} /\ DOMAIN draft' = Forms
      BY <1>11 DEF DraftInv
    <2>3. \A g \in Forms : (Given(g) => Given(g)') /\ (Cleared(g) => Cleared(g)')
      <3>1. \A g \in Forms : Given(g) => Given(g)' BY <1>3, <1>7 DEF Given, GivenKept
      <3>2. \A g \in Forms : Cleared(g) => Cleared(g)' BY <1>8 DEF Cleared, FinalKept
      <3> QED BY <3>1, <3>2
    <2>4. draft'[f].text = typed'[f] \/ Given(f)'
      BY <1>3, <1>5, <1>7, <1>11, <2>2 DEF Given
    <2>5. \A v \in DOMAIN uploads' : Uploading(uploads[v])'
      BY <1>7 DEF Uploading, UploadFields
    <2>6. \A g \in Forms : DOMAIN draft'[g] = {"text", "image"}
                           /\ (draft'[g].image \in Keys => draft'[g].image \in store')
      BY <1>3, <1>4, <2>1, <2>2 DEF DraftInv
    <2>7. \A g \in Forms : draft'[g].text = typed'[g] \/ Given(g)' \/ Cleared(g)'
      BY <1>3, <2>1, <2>3, <2>4 DEF DraftInv
    <2> QED BY <1>3, <1>7, <2>2, <2>5, <2>6, <2>7 DEF DraftInv
  <1> QED BY <1>9, <1>10, <1>11

\* A button is pressed, a transaction moves on: no draft changes.
LEMMA PressFinalKept ==
  ASSUME TxsInv, NEW f, NEW from, NEW showing, Press(f, from, showing) PROVE FinalKept
  <1>1. IsSeq(txs) BY DEF TxsInv
  <1>2. PICK elt : txs' = Append(txs, elt) BY DEF Press
  <1>3. Len(txs) \in Nat /\ DOMAIN txs = 1 .. Len(txs) BY <1>1, SeqFacts
  <1>4. /\ IsSeq(txs') /\ Len(txs') = Len(txs) + 1
        /\ \A t \in 1 .. Len(txs) : txs'[t] = txs[t]
    BY <1>1, <1>2, Appended
  <1>5. DOMAIN txs' = 1 .. Len(txs) + 1 BY <1>4, SeqFacts
  <1> QED BY <1>3, <1>4, <1>5 DEF FinalKept

LEMMA TxDrafts ==
  ASSUME DraftInv, TxsInv, NEW t \in DOMAIN txs,
         \/ GetFromAcct(t) \/ Throw(t) \/ Sign(t) \/ Refuse(t) \/ Drop(t) \/ Include(t)
  PROVE  DraftInv'
  <1>1. PICK phase : Moves(t, phase)
    BY DEF GetFromAcct, Throw, Sign, Refuse, Drop, Include
  <1>2. txs[t].phase # "finalized" /\ UNCHANGED <<draft, typed, uploads, store>>
    BY DEF GetFromAcct, Throw, Sign, Refuse, Drop, Include, InPhase, uploadVars
  <1>3. DOMAIN txs' = DOMAIN txs /\ \A u \in DOMAIN txs : u # t => txs'[u] = txs[u]
    BY <1>1, Moved
  <1>4. FinalKept BY <1>2, <1>3 DEF FinalKept
  <1> QED BY <1>2, <1>4, DraftsUnchanged

(***************************************************************************)
(* The pair that signs.                                                    *)
(***************************************************************************)

SigningInv ==
    /\ account \in Keyring => pair = account
    /\ \A t \in DOMAIN txs : txs[t].shown \in Keyring => txs[t].from = txs[t].shown

LEMMA SigningKept ==
  ASSUME SigningInv, TxsInv, NEW t \in DOMAIN txs, NEW phase, Moves(t, phase),
         UNCHANGED <<account, pair>>
  PROVE  SigningInv'
  <1>1. /\ DOMAIN txs' = DOMAIN txs
        /\ \A u \in DOMAIN txs : u # t => txs'[u] = txs[u]
        /\ txs'[t].from = txs[t].from /\ txs'[t].shown = txs[t].shown
    BY Moved
  <1>2. ASSUME NEW u \in DOMAIN txs
        PROVE  txs'[u].from = txs[u].from /\ txs'[u].shown = txs[u].shown
    BY <1>1
  <1> QED BY <1>1, <1>2 DEF SigningInv

LEMMA PressSigns ==
  ASSUME SigningInv, TxsInv, NEW f, Press(f, pair, account), UNCHANGED <<account, pair>>
  PROVE  SigningInv'
  <1>1. PICK elt : txs' = Append(txs, elt) /\ elt.from = pair /\ elt.shown = account
    BY DEF Press
  <1>2. IsSeq(txs) BY DEF TxsInv
  <1>3. Len(txs) \in Nat /\ DOMAIN txs = 1 .. Len(txs) BY <1>2, SeqFacts
  <1>4. /\ IsSeq(txs') /\ Len(txs') = Len(txs) + 1
        /\ \A t \in 1 .. Len(txs) : txs'[t] = txs[t]
        /\ txs'[Len(txs) + 1] = elt
    BY <1>1, <1>2, Appended
  <1>5. DOMAIN txs' = 1 .. Len(txs) + 1 BY <1>4, SeqFacts
  <1>6. ASSUME NEW t \in DOMAIN txs', txs'[t].shown \in Keyring
        PROVE  txs'[t].from = txs'[t].shown
    <2>1. CASE t = Len(txs) + 1 BY <1>1, <1>4, <1>6, <2>1 DEF SigningInv
    <2>2. CASE t \in 1 .. Len(txs) BY <1>3, <1>4, <1>6, <2>2 DEF SigningInv
    <2> QED BY <1>3, <1>5, <2>1, <2>2
  <1> QED BY <1>6 DEF SigningInv

(***************************************************************************)
(* The pages.                                                              *)
(***************************************************************************)

FormPagesInv == view \in Views /\ ButtonsInv /\ DraftInv /\ SigningInv

LEMMA FormPagesInitially == Init => FormPagesInv
  <1> SUFFICES ASSUME Init PROVE FormPagesInv OBVIOUS
  <1>1. txs = <<>> /\ pair = account /\ view \in Views
    BY DEF Init, FormsInit
  <1>2. SigningInv BY <1>1, NothingIn DEF SigningInv
  <1> QED BY <1>1, <1>2, ButtonsInitially, DraftsInitially DEF FormPagesInv

\* The forms as they are, the page at the account it shows.
LEMMA FormsUnchanged ==
  ASSUME FormPagesInv, UNCHANGED <<formVars, view>>, account' \in Keyring => pair' = account'
  PROVE  FormPagesInv'
  <1>1. UNCHANGED buttonVars /\ UNCHANGED <<uploads, store, draft, typed>> /\ txs' = txs
    BY DEF formVars, uploadVars, buttonVars
  <1>2. FinalKept BY <1>1 DEF FinalKept
  <1>3. SigningInv' BY <1>1 DEF FormPagesInv, SigningInv
  <1> QED BY <1>1, <1>2, <1>3, ButtonsUnchanged, DraftsUnchanged DEF FormPagesInv

LEMMA UserKeeps ==
  ASSUME FormPagesInv, UserStep PROVE FormPagesInv'
  <1>1. PICK f \in view.forms :
          \/ Open(f) \/ Close(f) \/ Type(f) \/ ChooseImage(f) \/ Press(f, pair, account)
    BY DEF UserStep
  <1>2. f \in Forms BY FormPagesAssumption DEF FormPagesInv
  <1>3. UNCHANGED <<view, account, pair>> BY DEF UserStep, Elsewhere, pageVars
  <1>4. CASE Open(f)
    <2>1. UNCHANGED <<uploads, store, draft, typed, txs>> BY <1>4 DEF Open
    <2>2. FinalKept BY <2>1 DEF FinalKept
    <2>3. SigningInv' BY <1>3, <2>1 DEF FormPagesInv, SigningInv
    <2> QED BY <1>2, <1>3, <1>4, <2>1, <2>2, <2>3, OpenKeeps, DraftsUnchanged DEF FormPagesInv
  <1>5. CASE Close(f)
    <2>1. txs' = txs BY <1>5 DEF Close
    <2>2. SigningInv' BY <1>3, <2>1 DEF FormPagesInv, SigningInv
    <2> QED BY <1>2, <1>3, <1>5, <2>2, CloseKeeps, CloseDrafts DEF FormPagesInv
  <1>6. CASE Type(f)
    <2>1. UNCHANGED buttonVars BY <1>6 DEF Type, buttonVars
    <2>2. SigningInv' BY <1>3, <2>1 DEF FormPagesInv, SigningInv, buttonVars
    <2> QED BY <1>2, <1>3, <1>6, <2>1, <2>2, ButtonsUnchanged, TypeDrafts DEF FormPagesInv
  <1>7. CASE ChooseImage(f)
    <2>1. UNCHANGED buttonVars BY <1>7 DEF ChooseImage, buttonVars
    <2>2. SigningInv' BY <1>3, <2>1 DEF FormPagesInv, SigningInv, buttonVars
    <2> QED BY <1>2, <1>3, <1>7, <2>1, <2>2, ButtonsUnchanged, ChooseDrafts DEF FormPagesInv
  <1>8. CASE Press(f, pair, account)
    <2>1. UNCHANGED <<uploads, store, draft, typed>> BY <1>8 DEF Press, uploadVars
    <2>2. TxsInv BY DEF FormPagesInv, ButtonsInv
    <2>3. DraftInv' BY <1>8, <2>1, <2>2, PressFinalKept, DraftsUnchanged DEF FormPagesInv
    <2>4. SigningInv' BY <1>3, <1>8, <2>2, PressSigns DEF FormPagesInv
    <2>5. ButtonsInv' BY <1>2, <1>8, PressButtonKeeps DEF FormPagesInv
    <2> QED BY <1>3, <2>3, <2>4, <2>5 DEF FormPagesInv
  <1> QED BY <1>1, <1>4, <1>5, <1>6, <1>7, <1>8

LEMMA UploadKeeps ==
  ASSUME FormPagesInv, UploadStep PROVE FormPagesInv'
  <1>1. PICK u \in DOMAIN uploads :
          (\E key \in Keys : ReadImage(u, key)) \/ StoreImage(u) \/ ImageUploaded(u)
    BY DEF UploadStep
  <1>2. UNCHANGED <<view, account, pair>> BY DEF UploadStep, Stay, Elsewhere, pageVars
  <1>3. UNCHANGED buttonVars BY <1>1 DEF ReadImage, StoreImage, ImageUploaded, buttonVars
  <1>4. SigningInv' BY <1>2, <1>3 DEF FormPagesInv, SigningInv, buttonVars
  <1>5. DraftInv' BY <1>1, ReadDrafts, StoreDrafts, UploadedDrafts DEF FormPagesInv
  <1> QED BY <1>2, <1>3, <1>4, <1>5, ButtonsUnchanged DEF FormPagesInv

LEMMA TransactionKeeps ==
  ASSUME FormPagesInv, TxStep PROVE FormPagesInv'
  <1>1. PICK t \in DOMAIN txs :
          \/ GetFromAcct(t) \/ Throw(t) \/ Sign(t) \/ Refuse(t) \/ Drop(t) \/ Include(t)
          \/ Final(t)
    BY DEF TxStep, InBlock
  <1>2. UNCHANGED <<view, account, pair>>
    BY DEF TxStep, Stay, Elsewhere, InBlock, Final, pageVars
  <1>3. CASE Final(t)
    BY <1>2, <1>3, FormsUnchanged DEF Final, FormPagesInv, SigningInv
  <1>4. CASE \/ GetFromAcct(t) \/ Throw(t) \/ Sign(t) \/ Refuse(t) \/ Drop(t) \/ Include(t)
    <2>1. PICK phase : Moves(t, phase)
      BY <1>4 DEF GetFromAcct, Throw, Sign, Refuse, Drop, Include
    <2>2. TxsInv BY DEF FormPagesInv, ButtonsInv
    <2>3. SigningInv' BY <1>2, <2>1, <2>2, SigningKept DEF FormPagesInv
    <2>4. DraftInv' BY <1>4, <2>2, TxDrafts DEF FormPagesInv
    <2>5. ButtonsInv' BY <1>4, TxKeeps DEF FormPagesInv
    <2> QED BY <1>2, <2>3, <2>4, <2>5 DEF FormPagesInv
  <1> QED BY <1>1, <1>3, <1>4

LEMMA DeliverKeeps ==
  ASSUME FormPagesInv, Deliver PROVE FormPagesInv'
  <1>1. view' = view BY DEF Deliver
  <1>2. CASE ShowStorage(Head(notices).value) /\ UNCHANGED formVars
    <2>1. account' \in Keyring => pair' = account'
      BY <1>2 DEF ShowStorage, PairOf, FormPagesInv, SigningInv
    <2> QED BY <1>1, <1>2, <2>1, FormsUnchanged
  <1>3. CASE Finalize(Head(notices).value) /\ UNCHANGED pageVars
    <2>1. PICK t \in DOMAIN txs : Finalize(t)
      <3>1. Head(notices).value \in DOMAIN txs BY <1>3, Zenon DEF Finalize, InPhase
      <3> QED BY <1>3, <3>1, Zenon
    <2>2. TxsInv BY DEF FormPagesInv, ButtonsInv
    <2>3. Moves(t, "finalized") /\ UNCHANGED <<account, pair>>
      BY <1>3, <2>1, Zenon DEF Finalize, pageVars
    <2>4. SigningInv' BY <2>2, <2>3, SigningKept DEF FormPagesInv
    <2>5. ButtonsInv' BY <2>1, FinalizeKeeps DEF FormPagesInv
    <2>6. DraftInv' BY <2>1, <2>2, FinalizeDrafts DEF FormPagesInv
    <2> QED BY <1>1, <2>4, <2>5, <2>6 DEF FormPagesInv
  <1> QED BY <1>2, <1>3 DEF Deliver

LEMMA FormPagesKeep ==
  ASSUME FormPagesInv, [Next]_vars PROVE FormPagesInv'
  <1>1. CASE \E a \in Accounts : Select(a)
    <2>1. UNCHANGED <<formVars, view>> /\ (account' \in Keyring => pair' = account')
      BY <1>1 DEF Select, PairOf
    <2> QED BY <2>1, FormsUnchanged
  <1>2. CASE \E f \in Forms, a \in Accounts : Foreign(f, a)
    <2>1. UNCHANGED <<formVars, view, account, pair>>
      BY <1>2 DEF Foreign, pageVars
    <2> QED BY <2>1, FormsUnchanged DEF FormPagesInv, SigningInv
  <1>3. CASE UNCHANGED vars
    <2>1. UNCHANGED <<formVars, view, account, pair>>
      BY <1>3 DEF vars, pageVars
    <2> QED BY <2>1, FormsUnchanged DEF FormPagesInv, SigningInv
  <1> QED BY <1>1, <1>2, <1>3, UserKeeps, UploadKeeps, TransactionKeeps, DeliverKeeps DEF Next

EffectsInv == DOMAIN effects = Forms

LEMMA EffectsCounted == Spec => []EffectsInv
  <1>1. Init => EffectsInv BY DEF Init, EffectsInv
  <1>2. EffectsInv /\ [Next]_vars => EffectsInv'
    BY DEF EffectsInv, Next, UserStep, UploadStep, TxStep, Deliver, Select, Foreign, Stay, Elsewhere,
           Final, InBlock, vars
  <1> QED BY <1>1, <1>2, PTL DEF Spec

LEMMA FormPagesSafe == Spec => []FormPagesInv
  <1>1. FormPagesInv /\ [Next]_vars => FormPagesInv' BY FormPagesKeep
  <1> QED BY <1>1, FormPagesInitially, PTL DEF Spec

(* Whatever is pressed, closed, opened again, refused or finalized, a form *)
(* is busy exactly while a transaction of its instance is to be answered,  *)
(* or for good, and a payment is not released and disputed at once         *)
(* (PaymentForm.js:44-82, ProcessPayment.js:84-183).                       *)
THEOREM FlagsSound == Spec => []BusyIsPending
  <1>1. FormPagesInv => BusyIsPending
    <2> SUFFICES ASSUME FormPagesInv PROVE BusyIsPending OBVIOUS
    <2>1. ASSUME NEW f \in view.forms
          PROVE  /\ busy[f] <=> OwnTxs(f, Pending) # {} \/ Stuck(f)
                 /\ Cardinality(OwnTxs(f, Pending)) <= 1
      <3>1. f \in Forms BY FormPagesAssumption DEF FormPagesInv
      <3>2. (\E t \in DOMAIN txs : Holds(f, t)) <=> OwnTxs(f, Pending) # {} \/ Stuck(f)
        BY DEF Holds, Blocks, OwnTxs, Stuck
      <3>3. busy[f] <=> \E t \in DOMAIN txs : Holds(f, t)
        BY <3>1 DEF FormPagesInv, ButtonsInv, FlagsInv
      <3>4. \A t, u \in OwnTxs(f, Pending) : t = u
        <4>1. \A t \in OwnTxs(f, Pending) : t \in DOMAIN txs /\ Holds(f, t)
          BY DEF OwnTxs, Holds, Blocks
        <4> QED BY <3>1, <4>1 DEF FormPagesInv, ButtonsInv, FlagsInv
      <3>5. Cardinality(OwnTxs(f, Pending)) <= 1
        <4>1. CASE OwnTxs(f, Pending) = {}
          BY <4>1, FS_EmptySet
        <4>2. CASE OwnTxs(f, Pending) # {}
          <5>1. PICK t : OwnTxs(f, Pending) = {t} BY <3>4, <4>2
          <5>2. Cardinality({t}) = 1 BY FS_Singleton
          <5>3. Cardinality(OwnTxs(f, Pending)) = 1 BY <5>1, <5>2
          <5> QED BY <5>3
        <4> QED BY <4>1, <4>2
      <3> QED BY <3>2, <3>3, <3>5
    <2> QED BY <2>1 DEF BusyIsPending, FormPagesInv, ButtonsInv, ExclusionInv
  <1> QED BY <1>1, FormPagesSafe, PTL

(* The url a form holds is that of an object already stored, whatever      *)
(* failed on its way (ImagesUploader.js:19-37, handler.js:44-67).          *)
THEOREM ImagesSound == Spec => []ImagesStored
  <1>1. FormPagesInv => ImagesStored BY DEF FormPagesInv, DraftInv, ImagesStored
  <1> QED BY <1>1, FormPagesSafe, PTL

(* Only an upload chosen before, or a finalized transaction of the page,   *)
(* takes back what was typed (PaymentForm.js:37-42, DisputeDetail.js:120). *)
THEOREM TypingSound == Spec => []TypingKept
  <1>1. FormPagesInv => TypingKept
    BY FormPagesAssumption DEF FormPagesInv, DraftInv, TypingKept, Given, Cleared
  <1> QED BY <1>1, FormPagesSafe, PTL

(* A deposit or a release that takes effect was signed as the page showed, *)
(* if the keyring has the account shown (ProcessPayment.js:50-64, 276-290).*)
THEOREM SignaturesShown == Spec => SignedAsShown
  <1> DEFINE Shown(f) == \E t \in DOMAIN txs :
               /\ txs[t].form = f /\ txs'[t].phase # txs[t].phase
               /\ txs[t].shown \in Keyring => txs[t].from = txs[t].shown
             SignedStep == \A f \in {"depositPayment", "completePayment"} :
                             effects'[f] # effects[f] => Shown(f)
  <1>1. FormPagesInv /\ EffectsInv /\ [Next]_vars => [SignedStep]_vars
    <2> SUFFICES ASSUME FormPagesInv, EffectsInv, Next,
                        NEW f \in {"depositPayment", "completePayment"}, effects'[f] # effects[f]
                 PROVE  Shown(f)
      OBVIOUS
    <2>1. PICK t \in DOMAIN txs : InBlock(t)
      BY DEF Next, UserStep, UploadStep, TxStep, Deliver, Select, Foreign, Stay, Elsewhere, Final
    <2>2. txs[t].form = f
      <3>1. "depositPayment" \in {r.name : r \in Rows}
        BY DEF Rows, DepositPayment
      <3>2. f \in DOMAIN effects
        BY <3>1, PageRows, FormsAssumption DEF EffectsInv, Row
      <3> QED BY <2>1, <3>2 DEF InBlock
    <2>3. txs[t].phase = "sent" /\ Moves(t, "included")
      BY <2>1 DEF InBlock, Include, InPhase
    <2>4. txs'[t].phase = "included"
      BY <2>3, Moved DEF FormPagesInv, ButtonsInv
    <2> QED BY <2>2, <2>3, <2>4 DEF FormPagesInv, SigningInv
  <1> QED BY <1>1, FormPagesSafe, EffectsCounted, PTL DEF Spec, SignedAsShown

(***************************************************************************)
(* One deposit, one release. The record climbs: 0 waiting, 1 deposited,    *)
(* 2 past that, 3 deposited again by a deposit that lands late, 4 past     *)
(* that. rk[0] is the rank of what the page shows, rk[i] that of the i-th  *)
(* notice on its way, the last that of the record stored. The socket keeps *)
(* the order, so the ranks are ordered, and a page that is told of a final *)
(* block already shows a record as high as that transaction made it.       *)
(***************************************************************************)

Settling == {"completePayment", "disputePayment"}
Deposits == effects["depositPayment"]
Releases == effects["completePayment"] + effects["disputePayment"]
Live == {"account", "signing", "sent"}
FinalOf(t) == [kind |-> "final", value |-> t]
ChainFields == {"status", "payer", "dispute"}

\* A record of status s may have rank k.
Fits(s, k) == (s = "WaitingForDeposit" <=> k = 0) /\ (s = "Deposited" <=> k \in {1, 3})

\* A final block that is announced is that of an included transaction, once.
NoticesInv ==
    /\ IsSeq(notices)
    /\ \A i \in DOMAIN notices :
         \/ notices[i].kind = "storage"
         \/ \E t \in DOMAIN txs : notices[i] = FinalOf(t) /\ txs[t].phase = "included"
    /\ \A i, j \in DOMAIN notices : notices[i] = notices[j] /\ notices[i].kind = "final" => i = j

\* The ranks are those of the records.
RankInv(rk) ==
    /\ rk \in [0 .. Len(notices) -> 0 .. 4]
    /\ \A i, j \in 0 .. Len(notices) : i <= j => rk[i] <= rk[j]
    /\ shown # NoRecord => Fits(shown.status, rk[0])
    /\ \A i \in DOMAIN notices :
         IF notices[i].kind = "storage" THEN Fits(notices[i].value.status, rk[i])
         ELSE rk[i] = rk[i - 1]
    /\ Fits(chain.status, rk[Len(notices)])
    /\ DOMAIN chain = ChainFields

\* The record is at k or above, and the page knows it or has a transaction
\* of F to be answered, whose answer comes after that record.
Passed(rk, F, k) ==
    /\ rk[Len(notices)] >= k
    /\ rk[0] >= k \/ \E t \in DOMAIN txs : txs[t].form \in F /\ txs[t].phase = "included"
    /\ \A i \in DOMAIN notices, t \in DOMAIN txs :
         notices[i] = FinalOf(t) /\ txs[t].form \in F => rk[i] >= k

\* A transaction not yet in a block was pressed at a record that shows all
\* effects so far, and so was the dialog of the dispute opened.
LiveInv(rk) ==
    /\ \A t \in DOMAIN txs : txs[t].phase \in Live =>
         /\ txs[t].form = "depositPayment" => Deposits = 0
         /\ txs[t].form \in Settling => rk[0] >= 2 * Releases + 1
    /\ open["disputePayment"] =>
         \/ rk[0] >= 2 * Releases + 1
         \/ \E t \in DOMAIN txs : txs[t].form = "disputePayment" /\ txs[t].phase = "included"

\* Every effect raised the record.
CountInv(rk) ==
    /\ effects \in [Forms -> Nat]
    /\ Deposits <= 1 /\ rk[Len(notices)] <= 2 + 2 * Deposits
    /\ Passed(rk, {"depositPayment"}, Deposits)
    /\ Passed(rk, Settling, 2 * Releases)

SettledInv(rk) == NoticesInv /\ RankInv(rk) /\ CountInv(rk) /\ LiveInv(rk)
SomeSettledInv == \E rk : SettledInv(rk)

LEMMA DepositRow == "depositPayment" \in Forms /\ Row["depositPayment"] = DepositPayment
  <1>1. DepositPayment \in Rows /\ DepositPayment.name = "depositPayment"
    BY DEF Rows, DepositPayment
  <1>2. \A r \in Rows : r.name = "depositPayment" => r = DepositPayment
    BY DEF Rows, PaymentForm, CancelPaymentConfirmation, DisputeForm, ResolverApplicationForm,
           ResolverDeletatingConfirmation, Faucet, DepositPayment, CompletePayment,
           DisputePayment, SubmitProof, ResolveDispute
  <1>3. "depositPayment" \in {r.name : r \in Rows} BY <1>1
  <1>4. Row["depositPayment"] = CHOOSE r \in Rows : r.name = "depositPayment"
    BY <1>3 DEF Row
  <1>5. Row["depositPayment"] \in Rows /\ Row["depositPayment"].name = "depositPayment"
    BY <1>1, <1>4
  <1> QED BY <1>2, <1>3, <1>5, FormsAssumption DEF Row

\* The page's own flags: not those of an instance of a dialog.
LEMMA PageFlags ==
  /\ \A f \in Settling \cup {"depositPayment"} : f \in Forms /\ ~Row[f].own
  /\ ~Row["depositPayment"].dialog /\ ~Row["completePayment"].dialog /\ Row["disputePayment"].dialog
  /\ Row["completePayment"].blocked = Settling
  /\ Row["disputePayment"].blocked = {"disputePayment"} /\ Row["disputePayment"].opening = Settling
  /\ "depositPayment" \in Row["depositPayment"].blocked
  /\ Row["disputePayment"].closes
  BY DepositRow, PageRows DEF Settling, DepositPayment, CompletePayment, DisputePayment

\* One deposit is on its way, or one release or dispute.
LEMMA OneOnItsWay ==
  ASSUME ButtonsInv, NEW F \in {{"depositPayment"}, Settling},
         NEW t \in DOMAIN txs, NEW u \in DOMAIN txs, txs[t].form \in F, txs[u].form \in F,
         txs[t].phase \in Pending, txs[u].phase \in Pending
  PROVE  t = u /\ busy[txs[t].form]
  <1>1. /\ txs[t].form \in Forms /\ txs[u].form \in Forms
        /\ ~Row[txs[t].form].own /\ ~Row[txs[u].form].own
    BY PageFlags
  <1>2. Holds(txs[t].form, t) /\ Holds(txs[u].form, u)
    BY <1>1 DEF Holds, Alive, Blocks
  <1>3. busy[txs[t].form] /\ busy[txs[u].form]
    BY <1>1, <1>2 DEF ButtonsInv, FlagsInv
  <1>4. txs[t].form = txs[u].form
    BY <1>3 DEF ButtonsInv, ExclusionInv, Settling
  <1> QED BY <1>1, <1>2, <1>3, <1>4 DEF ButtonsInv, FlagsInv

LEMMA CountTypes ==
  ASSUME effects \in [Forms -> Nat]
  PROVE  Deposits \in Nat /\ Releases \in Nat /\ effects["completePayment"] \in Nat /\ effects["disputePayment"] \in Nat
  BY DepositRow, PageRows DEF Deposits, Releases

LEMMA RankTypes ==
  ASSUME NEW rk, NoticesInv, RankInv(rk)
  PROVE  /\ Len(notices) \in Nat /\ DOMAIN notices = 1 .. Len(notices)
         /\ rk[0] \in 0 .. 4 /\ rk[Len(notices)] \in 0 .. 4 /\ rk[0] <= rk[Len(notices)]
         /\ \A i \in DOMAIN notices : rk[i] \in 0 .. 4 /\ rk[i - 1] \in 0 .. 4 /\ rk[0] <= rk[i]
  <1>1. Len(notices) \in Nat /\ DOMAIN notices = 1 .. Len(notices)
    BY SeqFacts DEF NoticesInv
  <1> QED BY <1>1 DEF RankInv

LEMMA SettledFollows ==
  ASSUME NEW rk, SettledInv(rk) PROVE SettledOnce
  <1>1. rk[Len(notices)] \in 0 .. 4 BY RankTypes DEF SettledInv
  <1>2. Deposits \in Nat /\ Releases \in Nat BY CountTypes DEF SettledInv, CountInv
  <1>3. Deposits <= 1 /\ rk[Len(notices)] <= 2 + 2 * Deposits /\ rk[Len(notices)] >= 2 * Releases
    BY DEF SettledInv, CountInv, Passed
  <1>4. Releases <= 1 + Deposits BY <1>1, <1>2, <1>3
  <1> QED BY <1>3, <1>4 DEF SettledOnce, Deposits, Releases

\* The record and the notices stay: nothing passed is undone.
LEMMA NoticesStay ==
  ASSUME NEW rk, NoticesInv, RankInv(rk), UNCHANGED <<chain, shown, notices>>,
         \A t \in DOMAIN txs : /\ t \in DOMAIN txs' /\ txs'[t].form = txs[t].form
                               /\ txs[t].phase = "included" => txs'[t].phase = "included"
  PROVE  /\ NoticesInv' /\ RankInv(rk)'
         /\ \A F : \A j \in Nat : Passed(rk, F, j) => Passed(rk, F, j)'
  <1>1. NoticesInv' BY DEF NoticesInv, IsSeq, FinalOf
  <1>2. RankInv(rk)' BY DEF RankInv, Fits, ChainFields
  <1>3. ASSUME NEW F, NEW j \in Nat, Passed(rk, F, j) PROVE Passed(rk, F, j)'
    <2>1. ASSUME NEW i \in DOMAIN notices, NEW t \in DOMAIN txs', notices[i] = FinalOf(t)
          PROVE  t \in DOMAIN txs
      <3>1. notices[i].kind = "final" /\ notices[i].value = t BY <2>1 DEF FinalOf
      <3>2. PICK u \in DOMAIN txs : notices[i] = FinalOf(u)
        BY <3>1 DEF NoticesInv
      <3> QED BY <3>1, <3>2 DEF FinalOf
    <2> QED BY <1>3, <2>1 DEF Passed, FinalOf
  <1> QED BY <1>1, <1>2, <1>3

\* A step of the forms that neither the chain nor the socket takes part in.
LEMMA QuietKeeps ==
  ASSUME NEW rk, SettledInv(rk), UNCHANGED <<chain, shown, notices, effects>>,
         \A t \in DOMAIN txs : /\ t \in DOMAIN txs' /\ txs'[t].form = txs[t].form
                               /\ txs[t].phase = "included" => txs'[t].phase = "included",
         \A t \in DOMAIN txs' : txs'[t].phase \in Live =>
            \/ t \in DOMAIN txs /\ txs[t].phase \in Live
            \/ /\ txs'[t].form = "depositPayment" => Deposits = 0
               /\ txs'[t].form \in Settling => rk[0] >= 2 * Releases + 1,
         open'["disputePayment"] => open["disputePayment"] \/ rk[0] >= 2 * Releases + 1
  PROVE  \E r : SettledInv(r)'
  <1>1. Deposits' = Deposits /\ Releases' = Releases BY DEF Deposits, Releases
  <1>2. NoticesInv /\ RankInv(rk) /\ CountInv(rk) /\ LiveInv(rk) BY DEF SettledInv
  <1>3. /\ NoticesInv' /\ RankInv(rk)'
        /\ \A F : \A j \in Nat : Passed(rk, F, j) => Passed(rk, F, j)'
    BY <1>2, NoticesStay
  <1>4. CountInv(rk)'
    <2>1. PICK d \in Nat : d = Deposits BY <1>2, CountTypes DEF CountInv
    <2>2. PICK e \in Nat : e = 2 * Releases BY <1>2, CountTypes DEF CountInv
    <2>3. Passed(rk, {"depositPayment"}, d)' BY <1>2, <1>3, <2>1 DEF CountInv
    <2>4. Passed(rk, Settling, e)' BY <1>2, <1>3, <2>2 DEF CountInv
    <2>5. Passed(rk, {"depositPayment"}, Deposits)' BY <1>1, <2>1, <2>3 DEF Passed
    <2>6. Passed(rk, Settling, 2 * Releases)' BY <1>1, <2>2, <2>4 DEF Passed, Settling
    <2> QED BY <1>1, <1>2, <2>5, <2>6 DEF CountInv
  <1>5. LiveInv(rk)'
    BY <1>1, <1>2 DEF LiveInv, Live, Settling
  <1> QED BY <1>3, <1>4, <1>5 DEF SettledInv

\* The ranks when one more notice comes.
Grow(rk, n, k) == [i \in 0 .. n + 1 |-> IF i <= n THEN rk[i] ELSE k]

LEMMA GrowFacts ==
  ASSUME NEW n \in Nat, NEW rk \in [0 .. n -> 0 .. 4], NEW k \in 0 .. 4, rk[n] <= k,
         \A i, j \in 0 .. n : i <= j => rk[i] <= rk[j]
  PROVE  /\ Grow(rk, n, k) \in [0 .. n + 1 -> 0 .. 4]
         /\ \A i \in 0 .. n : Grow(rk, n, k)[i] = rk[i]
         /\ Grow(rk, n, k)[n + 1] = k
         /\ \A i, j \in 0 .. n + 1 : i <= j => Grow(rk, n, k)[i] <= Grow(rk, n, k)[j]
  <1>1. /\ Grow(rk, n, k) \in [0 .. n + 1 -> 0 .. 4]
        /\ \A i \in 0 .. n : Grow(rk, n, k)[i] = rk[i]
        /\ Grow(rk, n, k)[n + 1] = k
    BY DEF Grow
  <1>2. \A i \in 0 .. n : rk[i] <= k
    <2> TAKE i \in 0 .. n
    <2>1. rk[i] <= rk[n] /\ rk[i] \in 0 .. 4 /\ rk[n] \in 0 .. 4 OBVIOUS
    <2> QED BY <2>1
  <1>3. \A i \in 0 .. n + 1 : i \in 0 .. n \/ i = n + 1 OBVIOUS
  <1> HIDE DEF Grow
  <1>4. ASSUME NEW i \in 0 .. n + 1, NEW j \in 0 .. n + 1, i <= j
        PROVE  Grow(rk, n, k)[i] <= Grow(rk, n, k)[j]
    <2>1. CASE j \in 0 .. n BY <1>1, <1>4, <2>1
    <2>2. CASE j = n + 1 /\ i \in 0 .. n BY <1>1, <1>2, <2>2
    <2>3. CASE j = n + 1 /\ i = n + 1 BY <1>1, <2>3
    <2> QED BY <1>3, <2>1, <2>2, <2>3
  <1> QED BY <1>1, <1>4

\* One more notice: the ranks stay ordered, and nothing passed is undone.
LEMMA Grown ==
  ASSUME NEW rk, NoticesInv, RankInv(rk), NEW n \in Nat, n = Len(notices),
         NEW k \in 0 .. 4, rk[n] <= k, NEW elt, notices' = Append(notices, elt),
         shown' = shown, Fits(chain'.status, k), DOMAIN chain' = ChainFields,
         \A t \in DOMAIN txs : /\ t \in DOMAIN txs' /\ txs'[t].form = txs[t].form
                               /\ txs[t].phase = "included" => txs'[t].phase = "included",
         \/ elt.kind = "storage" /\ Fits(elt.value.status, k)
         \/ /\ k = rk[n] /\ \A i \in DOMAIN notices : notices[i] # elt
            /\ \E t \in DOMAIN txs : elt = FinalOf(t) /\ txs[t].phase = "included"
  PROVE  /\ NoticesInv' /\ RankInv(Grow(rk, n, k))'
         /\ Len(notices') = n + 1
         /\ \A F : \A j \in Nat : Passed(rk, F, j) => Passed(Grow(rk, n, k), F, j)'
  <1>1. /\ DOMAIN notices = 1 .. n
        /\ IsSeq(notices') /\ Len(notices') = n + 1 /\ DOMAIN notices' = 1 .. n + 1
        /\ \A i \in 1 .. n : notices'[i] = notices[i]
        /\ notices'[n + 1] = elt
    <2>1. IsSeq(notices) BY DEF NoticesInv
    <2>2. IsSeq(notices') /\ Len(notices') = n + 1 BY <2>1, Appended
    <2> QED BY <2>1, <2>2, Appended, SeqFacts
  <1>2. PICK r : r = Grow(rk, n, k) OBVIOUS
  <1>3. /\ r \in [0 .. n + 1 -> 0 .. 4]
        /\ \A i \in 0 .. n : r[i] = rk[i]
        /\ r[n + 1] = k
        /\ \A i, j \in 0 .. n + 1 : i <= j => r[i] <= r[j]
    <2>1. rk \in [0 .. n -> 0 .. 4] /\ \A i, j \in 0 .. n : i <= j => rk[i] <= rk[j]
      BY DEF RankInv
    <2>2. /\ Grow(rk, n, k) \in [0 .. n + 1 -> 0 .. 4]
          /\ \A i \in 0 .. n : Grow(rk, n, k)[i] = rk[i]
          /\ Grow(rk, n, k)[n + 1] = k
          /\ \A i, j \in 0 .. n + 1 : i <= j => Grow(rk, n, k)[i] <= Grow(rk, n, k)[j]
      BY ONLY n \in Nat, k \in 0 .. 4, rk[n] <= k, <2>1, GrowFacts
    <2> QED BY <1>2, <2>2
  <1>4. \A i \in 1 .. n + 1 : i \in 1 .. n \/ i = n + 1 OBVIOUS
  <1>5. elt.kind = "storage" \/ \E t \in DOMAIN txs' : elt = FinalOf(t) /\ txs'[t].phase = "included"
    BY DEF FinalOf
  <1>6. NoticesInv'
    <2>1. ASSUME NEW i \in DOMAIN notices'
          PROVE  \/ notices'[i].kind = "storage"
                 \/ \E t \in DOMAIN txs' : notices'[i] = FinalOf(t) /\ txs'[t].phase = "included"
      <3>1. CASE i \in 1 .. n BY <1>1, <3>1 DEF NoticesInv
      <3>2. CASE i = n + 1 BY <1>1, <1>5, <3>2
      <3> QED BY <1>1, <1>4, <2>1, <3>1, <3>2
    <2>2. ASSUME NEW i \in DOMAIN notices', NEW j \in DOMAIN notices',
                 notices'[i] = notices'[j], notices'[i].kind = "final"
          PROVE  i = j
      <3>1. elt.kind = "final" => \A u \in 1 .. n : notices[u] # elt
        BY <1>1
      <3>2. CASE i \in 1 .. n /\ j \in 1 .. n BY <1>1, <2>2, <3>2 DEF NoticesInv
      <3>3. CASE i = n + 1 /\ j \in 1 .. n BY <1>1, <2>2, <3>1, <3>3
      <3>4. CASE j = n + 1 /\ i \in 1 .. n BY <1>1, <2>2, <3>1, <3>4
      <3> QED BY <1>1, <1>4, <2>2, <3>2, <3>3, <3>4
    <2> QED BY <1>1, <2>1, <2>2 DEF NoticesInv, IsSeq, FinalOf
  <1>7. RankInv(r)'
    <2>1. 0 \in 0 .. n /\ r[0] = rk[0] BY <1>3
    <2>2. ASSUME NEW i \in DOMAIN notices'
          PROVE  IF notices'[i].kind = "storage" THEN Fits(notices'[i].value.status, r[i])
                 ELSE r[i] = r[i - 1]
      <3>1. CASE i \in 1 .. n
        <4>1. i \in 0 .. n /\ i - 1 \in 0 .. n BY <3>1
        <4>2. r[i] = rk[i] /\ r[i - 1] = rk[i - 1] BY <1>3, <4>1
        <4> QED BY <1>1, <3>1, <4>2 DEF RankInv
      <3>2. CASE i = n + 1
        <4>1. n \in 0 .. n /\ i - 1 = n BY <3>2
        <4>2. r[i] = k /\ r[i - 1] = rk[n] BY <1>3, <3>2, <4>1
        <4>3. CASE elt.kind = "storage" /\ Fits(elt.value.status, k)
          BY <1>1, <3>2, <4>2, <4>3
        <4>4. CASE k = rk[n] /\ \E t \in DOMAIN txs : elt = FinalOf(t)
          <5>1. elt.kind # "storage" BY <4>4 DEF FinalOf
          <5> QED BY <1>1, <3>2, <4>2, <4>4, <5>1
        <4> QED BY <4>3, <4>4
      <3> QED BY <1>1, <1>4, <2>2, <3>1, <3>2
    <2>3. shown' # NoRecord => Fits(shown'.status, r[0])
      BY <2>1 DEF RankInv
    <2> QED BY <1>1, <1>3, <2>2, <2>3 DEF RankInv, Fits, ChainFields
  <1>8. ASSUME NEW F, NEW j \in Nat, Passed(rk, F, j) PROVE Passed(r, F, j)'
    <2>1. r[0] = rk[0] /\ r[n + 1] = k /\ k >= j
      <3>1. 0 \in 0 .. n /\ n \in 0 .. n OBVIOUS
      <3>2. rk[n] >= j BY <1>8 DEF Passed
      <3>3. rk[n] \in 0 .. 4 BY <3>1 DEF RankInv
      <3> QED BY <1>3, <3>1, <3>2, <3>3
    <2>2. r[0] >= j \/ \E t \in DOMAIN txs' : txs'[t].form \in F /\ txs'[t].phase = "included"
      BY <1>8, <2>1 DEF Passed
    <2>3. ASSUME NEW i \in DOMAIN notices', NEW t \in DOMAIN txs',
                 notices'[i] = FinalOf(t), txs'[t].form \in F
          PROVE  r[i] >= j
      <3>1. CASE i \in 1 .. n
        <4>1. PICK u \in DOMAIN txs : notices[i] = FinalOf(u)
          BY <1>1, <2>3, <3>1 DEF NoticesInv, FinalOf
        <4>2. u = t BY <1>1, <2>3, <3>1, <4>1 DEF FinalOf
        <4>3. rk[i] >= j BY <1>1, <1>8, <2>3, <3>1, <4>1, <4>2 DEF Passed
        <4> QED BY <1>3, <3>1, <4>3
      <3>2. CASE i = n + 1
        BY <2>1, <3>2
      <3> QED BY <1>1, <1>4, <2>3, <3>1, <3>2
    <2> QED BY <1>1, <2>1, <2>2, <2>3 DEF Passed, FinalOf
  <1> QED BY <1>1, <1>2, <1>6, <1>7, <1>8

\* One more notice, of a change others made or of a final block.
LEMMA GrownSettles ==
  ASSUME NEW rk, SettledInv(rk), NEW n \in Nat, n = Len(notices),
         NEW k \in 0 .. 4, rk[n] <= k, NEW elt, notices' = Append(notices, elt),
         shown' = shown, Fits(chain'.status, k), DOMAIN chain' = ChainFields,
         txs' = txs, open' = open, effects' = effects, k <= 2 + 2 * Deposits,
         \/ elt.kind = "storage" /\ Fits(elt.value.status, k)
         \/ /\ k = rk[n] /\ \A i \in DOMAIN notices : notices[i] # elt
            /\ \E t \in DOMAIN txs : elt = FinalOf(t) /\ txs[t].phase = "included"
  PROVE  \E r : SettledInv(r)'
  <1>1. NoticesInv /\ RankInv(rk) /\ CountInv(rk) /\ LiveInv(rk) BY DEF SettledInv
  <1>2. PICK r : r = Grow(rk, n, k) OBVIOUS
  <1>3. \A t \in DOMAIN txs : /\ t \in DOMAIN txs' /\ txs'[t].form = txs[t].form
                              /\ txs[t].phase = "included" => txs'[t].phase = "included"
    OBVIOUS
  <1>4. /\ NoticesInv' /\ RankInv(r)' /\ Len(notices') = n + 1
        /\ \A F : \A j \in Nat : Passed(rk, F, j) => Passed(r, F, j)'
    BY <1>1, <1>2, <1>3, Grown
  <1>5. r[0] = rk[0] /\ r[n + 1] = k
    <2>1. 0 \in 0 .. n + 1 /\ n + 1 \in 0 .. n + 1 /\ 0 <= n /\ ~(n + 1 <= n) OBVIOUS
    <2> QED BY <1>2, <2>1 DEF Grow
  <1>6. Deposits' = Deposits /\ Releases' = Releases BY DEF Deposits, Releases
  <1>7. CountInv(r)'
    <2>1. PICK d \in Nat : d = Deposits BY <1>1, CountTypes DEF CountInv
    <2>2. PICK e \in Nat : e = 2 * Releases BY <1>1, CountTypes DEF CountInv
    <2>3. Passed(r, {"depositPayment"}, d)' BY <1>1, <1>4, <2>1 DEF CountInv
    <2>4. Passed(r, Settling, e)' BY <1>1, <1>4, <2>2 DEF CountInv
    <2>5. Passed(r, {"depositPayment"}, Deposits)' BY <1>6, <2>1, <2>3 DEF Passed
    <2>6. Passed(r, Settling, 2 * Releases)' BY <1>6, <2>2, <2>4 DEF Passed, Settling
    <2> QED BY <1>1, <1>4, <1>5, <1>6, <2>5, <2>6 DEF CountInv
  <1>8. LiveInv(r)' BY <1>1, <1>5, <1>6 DEF LiveInv, Live, Settling
  <1> QED BY <1>4, <1>7, <1>8 DEF SettledInv

LEMMA FinalSettles ==
  ASSUME NEW rk, SettledInv(rk), NEW t \in DOMAIN txs, Final(t)
  PROVE  \E r : SettledInv(r)'
  <1>1. NoticesInv /\ RankInv(rk) /\ CountInv(rk) BY DEF SettledInv
  <1>2. PICK n \in Nat : n = Len(notices) BY <1>1, RankTypes
  <1>3. PICK k \in 0 .. 4 : k = rk[n] BY <1>1, <1>2, RankTypes
  <1>4. UNCHANGED <<txs, open, shown, chain, effects>>
    BY DEF Final, formVars, pageVars
  <1>5. notices' = Append(notices, FinalOf(t)) /\ \A i \in DOMAIN notices : notices[i] # FinalOf(t)
    BY DEF Final, FinalOf
  <1>6. txs[t].phase = "included" BY DEF Final, InPhase
  <1>7. Fits(chain'.status, k) /\ DOMAIN chain' = ChainFields
    BY <1>1, <1>2, <1>3, <1>4 DEF RankInv
  <1>8. k <= 2 + 2 * Deposits BY <1>1, <1>2, <1>3 DEF CountInv
  <1>9. PICK elt : elt = FinalOf(t) OBVIOUS
  <1> QED BY <1>2, <1>3, <1>4, <1>5, <1>6, <1>7, <1>8, <1>9, GrownSettles

\* The rank of the record after a call that takes effect.
Climb(R, f) ==
    CASE f = "depositPayment" -> IF R <= 1 THEN 1 ELSE 3
      [] f \in {"cancelPayment", "completePayment", "disputePayment", "disputeOwned"} ->
           IF R <= 2 THEN 2 ELSE 4
      [] OTHER -> R

LEMMA Climbs ==
  ASSUME NEW c, DOMAIN c = ChainFields, NEW f, NEW a, NEW R \in 0 .. 4, Fits(c.status, R),
         f = "depositPayment" => R <= 2, chain = c
  PROVE  /\ Climb(R, f) \in 0 .. 4 /\ R <= Climb(R, f)
         /\ Fits(Changed(f, a).status, Climb(R, f))
         /\ DOMAIN Changed(f, a) = ChainFields
         /\ Changed(f, a) = c => Climb(R, f) = R
  <1>1. CASE f = "depositPayment"
    <2>1. Changed(f, a) = [c EXCEPT !.status = "Deposited", !.payer = a]
      BY <1>1 DEF Changed
    <2>2. Changed(f, a).status = "Deposited" /\ DOMAIN Changed(f, a) = ChainFields
      BY <2>1 DEF ChainFields
    <2> QED BY <1>1, <2>2 DEF Climb, Fits
  <1>2. CASE f \in {"cancelPayment", "completePayment", "disputePayment", "disputeOwned"}
    <2>1. \/ Changed(f, a) = [c EXCEPT !.status = "Cancelled"]
          \/ Changed(f, a) = [c EXCEPT !.status = "Completed"]
          \/ Changed(f, a) = [c EXCEPT !.status = "Disputed", !.dispute = "Processing"]
      BY <1>2 DEF Changed
    <2>2. Changed(f, a).status \in {"Cancelled", "Completed", "Disputed"} /\ DOMAIN Changed(f, a) = ChainFields
      BY <2>1 DEF ChainFields
    <2> QED BY <1>2, <2>2 DEF Climb, Fits
  <1>3. CASE f \notin {"depositPayment", "cancelPayment", "completePayment", "disputePayment", "disputeOwned"}
    <2>1. Changed(f, a) = c \/ Changed(f, a) = [c EXCEPT !.dispute = "Resolved"]
      BY <1>3 DEF Changed
    <2>2. Changed(f, a).status = c.status /\ DOMAIN Changed(f, a) = ChainFields
      BY <2>1 DEF ChainFields
    <2> QED BY <1>3, <2>2 DEF Climb
  <1> QED BY <1>1, <1>2, <1>3

LEMMA ForeignSettles ==
  ASSUME NEW rk, SettledInv(rk), NEW f \in Forms, NEW a \in Accounts, Foreign(f, a)
  PROVE  \E r : SettledInv(r)'
  <1>1. NoticesInv /\ RankInv(rk) /\ CountInv(rk) BY DEF SettledInv
  <1>2. PICK n \in Nat : n = Len(notices) BY <1>1, RankTypes
  <1>3. PICK R \in 0 .. 4 : R = rk[n] BY <1>1, <1>2, RankTypes
  <1>4. PICK c : c = chain OBVIOUS
  <1>5. PICK k : k = Climb(R, f) OBVIOUS
  <1>6. Fits(c.status, R) /\ DOMAIN c = ChainFields
    BY <1>1, <1>2, <1>3, <1>4 DEF RankInv
  <1>7. f = "depositPayment" => R = 0
    BY <1>4, <1>6 DEF Foreign, Fits
  <1>8. /\ k \in 0 .. 4 /\ rk[n] <= k
        /\ Fits(chain'.status, k) /\ DOMAIN chain' = ChainFields
    BY <1>3, <1>4, <1>5, <1>6, <1>7, Climbs DEF Foreign
  <1>9. k <= 2 + 2 * Deposits
    <2>1. R <= 2 + 2 * Deposits /\ Deposits \in Nat
      BY <1>1, <1>2, <1>3, CountTypes DEF CountInv
    <2> QED BY <1>5, <1>7, <2>1 DEF Climb
  <1>10. UNCHANGED <<txs, open, shown, effects>>
    BY DEF Foreign, formVars, pageVars
  <1>11. PICK elt : elt = Announce(chain') OBVIOUS
  <1>12. elt.kind = "storage" /\ Fits(elt.value.status, k) /\ notices' = Append(notices, elt)
    BY <1>8, <1>11 DEF Foreign, Announce
  <1> QED BY <1>2, <1>8, <1>9, <1>10, <1>12, GrownSettles

\* A call takes effect: the page will be told, unless the record is the same.
LEMMA RecordMoves ==
  ASSUME NEW rk, NoticesInv, RankInv(rk), NEW n \in Nat, n = Len(notices),
         NEW k \in 0 .. 4, rk[n] <= k, chain' = chain => k = rk[n],
         notices' = IF chain' = chain THEN notices ELSE Append(notices, Announce(chain')),
         shown' = shown, Fits(chain'.status, k), DOMAIN chain' = ChainFields,
         \A t \in DOMAIN txs : /\ t \in DOMAIN txs' /\ txs'[t].form = txs[t].form
                               /\ txs[t].phase = "included" => txs'[t].phase = "included"
  PROVE  \E r : /\ r[0] = rk[0] /\ r[Len(notices')] = k
                /\ NoticesInv' /\ RankInv(r)'
                /\ \A F : \A j \in Nat : Passed(rk, F, j) => Passed(r, F, j)'
                /\ \A i \in DOMAIN notices' : notices'[i].kind = "final" =>
                     i \in DOMAIN notices /\ notices[i] = notices'[i]
  <1>1. CASE chain' = chain
    <2>1. NoticesInv' /\ RankInv(rk)' /\ \A F : \A j \in Nat : Passed(rk, F, j) => Passed(rk, F, j)'
      BY <1>1, NoticesStay
    <2>2. rk[Len(notices')] = k BY <1>1
    <2> QED BY <1>1, <2>1, <2>2
  <1>2. CASE chain' # chain
    <2>1. PICK elt : elt = Announce(chain') OBVIOUS
    <2>2. elt.kind = "storage" /\ Fits(elt.value.status, k) /\ notices' = Append(notices, elt)
      BY <1>2, <2>1 DEF Announce
    <2>3. PICK r : r = Grow(rk, n, k) OBVIOUS
    <2>4. /\ NoticesInv' /\ RankInv(r)' /\ Len(notices') = n + 1
          /\ \A F : \A j \in Nat : Passed(rk, F, j) => Passed(r, F, j)'
      BY <2>2, <2>3, Grown
    <2>5. r[0] = rk[0] /\ r[n + 1] = k
      <3>1. 0 \in 0 .. n + 1 /\ n + 1 \in 0 .. n + 1 /\ 0 <= n /\ ~(n + 1 <= n) OBVIOUS
      <3> QED BY <2>3, <3>1 DEF Grow
    <2>6. ASSUME NEW i \in DOMAIN notices', notices'[i].kind = "final"
          PROVE  i \in DOMAIN notices /\ notices[i] = notices'[i]
      <3>1. IsSeq(notices) /\ IsSeq(notices') BY <2>4 DEF NoticesInv
      <3>2. DOMAIN notices = 1 .. n /\ DOMAIN notices' = 1 .. n + 1
        BY <2>4, <3>1, SeqFacts
      <3>3. notices'[n + 1] = elt /\ \A l \in 1 .. n : notices'[l] = notices[l]
        BY <2>2, <3>1, Appended
      <3>4. i # n + 1 BY <2>2, <2>6, <3>3
      <3>5. i \in 1 .. n BY <2>6, <3>2, <3>4
      <3> QED BY <3>2, <3>3, <3>5
    <2>7. r[Len(notices')] = k BY <2>4, <2>5
    <2> QED BY <2>4, <2>5, <2>6, <2>7
  <1> QED BY <1>1, <1>2

\* What a transaction of this page that takes effect may do, and counts.
LEMMA EffectSettles ==
  ASSUME NEW rk, SettledInv(rk), ButtonsInv, NEW t \in DOMAIN txs, Include(t),
         chain' = Changed(txs[t].form, txs[t].from),
         effects' = [effects EXCEPT ![txs[t].form] = @ + 1],
         notices' = IF chain' = chain THEN notices ELSE Append(notices, Announce(chain')),
         shown' = shown
  PROVE  \E r : SettledInv(r)'
  <1>1. NoticesInv /\ RankInv(rk) /\ CountInv(rk) /\ LiveInv(rk) BY DEF SettledInv
  <1>2. PICK f \in Forms : f = txs[t].form BY DEF ButtonsInv, TxsInv
  <1>3. PICK n \in Nat : n = Len(notices) BY <1>1, RankTypes
  <1>4. PICK R \in 0 .. 4 : R = rk[n] BY <1>1, <1>3, RankTypes
  <1>5. rk[0] \in 0 .. 4 /\ rk[0] <= R BY <1>1, <1>3, <1>4, RankTypes
  <1>6. PICK d \in Nat : d = Deposits BY <1>1, CountTypes DEF CountInv
  <1>7. PICK e \in Nat : e = Releases BY <1>1, CountTypes DEF CountInv
  <1>8. PICK c : c = chain OBVIOUS
  <1>9. PICK k : k = Climb(R, f) OBVIOUS
  <1>10. /\ txs[t].phase = "sent" /\ UNCHANGED <<open, busy>>
         /\ DOMAIN txs' = DOMAIN txs /\ txs'[t].phase = "included" /\ txs'[t].form = f
         /\ \A u \in DOMAIN txs : u # t => txs'[u] = txs[u]
    BY <1>2, Moved DEF Include, InPhase, ButtonsInv
  <1>11. \A u \in DOMAIN txs : /\ u \in DOMAIN txs' /\ txs'[u].form = txs[u].form
                               /\ txs[u].phase = "included" => txs'[u].phase = "included"
    BY <1>2, <1>10
  <1>12. /\ d <= 1 /\ R <= 2 + 2 * d
         /\ f = "depositPayment" => d = 0
         /\ f \in Settling => rk[0] >= 2 * e + 1
    BY <1>1, <1>2, <1>3, <1>4, <1>6, <1>7, <1>10 DEF CountInv, LiveInv, Live
  <1>13. Fits(c.status, R) /\ DOMAIN c = ChainFields
    BY <1>1, <1>3, <1>4, <1>8 DEF RankInv
  <1>14. /\ k \in 0 .. 4 /\ R <= k /\ Fits(chain'.status, k) /\ DOMAIN chain' = ChainFields
         /\ chain' = chain => k = R
    BY <1>2, <1>8, <1>9, <1>12, <1>13, Climbs
  <1>15. PICK r : /\ r[0] = rk[0] /\ r[Len(notices')] = k
                  /\ NoticesInv' /\ RankInv(r)'
                  /\ \A F : \A j \in Nat : Passed(rk, F, j) => Passed(r, F, j)'
                  /\ \A i \in DOMAIN notices' : notices'[i].kind = "final" =>
                       i \in DOMAIN notices /\ notices[i] = notices'[i]
    BY <1>1, <1>3, <1>4, <1>11, <1>14, RecordMoves, SMTT(30)
  <1>16. /\ Deposits' = IF f = "depositPayment" THEN d + 1 ELSE d
         /\ Releases' = IF f \in Settling THEN e + 1 ELSE e
         /\ effects' \in [Forms -> Nat]
    <2>1. effects \in [Forms -> Nat] /\ effects' = [effects EXCEPT ![f] = effects[f] + 1]
      BY <1>1, <1>2 DEF CountInv
    <2>2. effects[f] \in Nat /\ effects' \in [Forms -> Nat] BY <2>1
    <2>3. \A g \in Forms : effects'[g] = IF g = f THEN effects[g] + 1 ELSE effects[g]
      BY <2>1
    <2>4. /\ effects'["depositPayment"] = IF f = "depositPayment" THEN d + 1 ELSE d
          /\ effects'["completePayment"] =
               IF f = "completePayment" THEN effects["completePayment"] + 1 ELSE effects["completePayment"]
          /\ effects'["disputePayment"] =
               IF f = "disputePayment" THEN effects["disputePayment"] + 1 ELSE effects["disputePayment"]
      BY <1>6, <2>3, PageRows, DepositRow DEF Deposits
    <2>5. effects["completePayment"] \in Nat /\ effects["disputePayment"] \in Nat
      BY <2>1, CountTypes
    <2>6. e = effects["completePayment"] + effects["disputePayment"] BY <1>7 DEF Releases
    <2>7. Releases' = IF f \in Settling THEN e + 1 ELSE e
      BY <2>4, <2>5, <2>6, SMTT(30) DEF Releases, Settling
    <2> QED BY <2>2, <2>4, <2>7 DEF Deposits
  \* The other transaction of a kind is not on its way.
  <1>17. ASSUME NEW F \in {{"depositPayment"}, Settling}, f \in F, NEW u \in DOMAIN txs,
                txs[u].form \in F, txs[u].phase \in Pending
         PROVE  u = t
    BY <1>2, <1>10, <1>17, OneOnItsWay DEF Pending
  <1>18. ASSUME NEW F \in {{"depositPayment"}, Settling}, f \in F, NEW j \in Nat, k >= j
         PROVE  Passed(r, F, j)'
    <2>1. ASSUME NEW i \in DOMAIN notices', NEW u \in DOMAIN txs',
                 notices'[i] = FinalOf(u), txs'[u].form \in F
          PROVE  FALSE
      <3>1. i \in DOMAIN notices /\ notices[i] = FinalOf(u)
        BY <1>15, <2>1 DEF FinalOf
      <3>2. notices[i].kind # "storage" BY <3>1 DEF FinalOf
      <3>3. PICK v \in DOMAIN txs : notices[i] = FinalOf(v) /\ txs[v].phase = "included"
        BY <1>1, <3>1, <3>2 DEF NoticesInv
      <3>4. v = u BY <3>1, <3>3 DEF FinalOf
      <3>5. txs[u].form \in F BY <1>10, <1>11, <2>1
      <3>6. u = t BY <1>17, <1>18, <3>3, <3>4, <3>5 DEF Pending
      <3> QED BY <1>10, <3>3, <3>4, <3>6
    <2>2. t \in DOMAIN txs' /\ txs'[t].form \in F /\ txs'[t].phase = "included"
      BY <1>10, <1>18
    <2> QED BY <1>15, <1>18, <2>1, <2>2 DEF Passed, FinalOf
  <1>19. CountInv(r)'
    <2>1. PICK d2 \in Nat : d2 = IF f = "depositPayment" THEN d + 1 ELSE d OBVIOUS
    <2>2. PICK e2 \in Nat : e2 = 2 * (IF f \in Settling THEN e + 1 ELSE e) OBVIOUS
    <2>3. Passed(r, {"depositPayment"}, d2)'
      <3>1. CASE f = "depositPayment"
        <4>1. k >= d2 BY <1>9, <1>12, <2>1, <3>1 DEF Climb
        <4> QED BY <1>18, <3>1, <4>1
      <3>2. CASE f # "depositPayment"
        <4>1. Passed(rk, {"depositPayment"}, d) BY <1>1, <1>6 DEF CountInv
        <4> QED BY <1>15, <2>1, <3>2, <4>1
      <3> QED BY <3>1, <3>2
    <2>4. Passed(r, Settling, e2)'
      <3>1. CASE f \in Settling
        <4>1. k >= e2 BY <1>5, <1>9, <1>12, <2>2, <3>1, SMTT(30) DEF Climb, Settling
        <4> QED BY <1>18, <3>1, <4>1
      <3>2. CASE f \notin Settling
        <4>1. Passed(rk, Settling, 2 * e) BY <1>1, <1>7 DEF CountInv
        <4> QED BY <1>15, <2>2, <3>2, <4>1
      <3> QED BY <3>1, <3>2
    <2>5. Passed(r, {"depositPayment"}, Deposits)' BY <1>16, <2>1, <2>3 DEF Passed
    <2>6. Passed(r, Settling, 2 * Releases)' BY <1>16, <2>2, <2>4 DEF Passed, Settling
    <2>7. Deposits' <= 1 BY <1>12, <1>16
    <2>8. k <= 2 + 2 * Deposits'
      <3>1. CASE f = "depositPayment" BY <1>12, <1>14, <1>16, <3>1
      <3>2. CASE f # "depositPayment" BY <1>9, <1>12, <1>16, <3>2 DEF Climb
      <3> QED BY <3>1, <3>2
    <2> QED BY <1>15, <1>16, <2>5, <2>6, <2>7, <2>8 DEF CountInv
  <1>20. LiveInv(r)'
    <2>1. ASSUME NEW u \in DOMAIN txs', txs'[u].phase \in Live
          PROVE  /\ txs'[u].form = "depositPayment" => Deposits' = 0
                 /\ txs'[u].form \in Settling => r[0] >= 2 * Releases' + 1
      <3>1. u # t /\ u \in DOMAIN txs /\ txs'[u] = txs[u]
        BY <1>10, <2>1 DEF Live
      <3>2. txs[u].phase \in Pending BY <2>1, <3>1 DEF Live, Pending
      <3>3. f = "depositPayment" => txs[u].form # "depositPayment"
        BY <1>17, <3>1, <3>2
      <3>4. f \in Settling => txs[u].form \notin Settling
        BY <1>17, <3>1, <3>2
      <3>5. /\ txs[u].form = "depositPayment" => d = 0
            /\ txs[u].form \in Settling => rk[0] >= 2 * e + 1
        BY <1>1, <1>6, <1>7, <2>1, <3>1 DEF LiveInv
      <3> QED BY <1>15, <1>16, <3>1, <3>3, <3>4, <3>5
    <2>2. ASSUME open'["disputePayment"]
          PROVE  \/ r[0] >= 2 * Releases' + 1
                 \/ \E u \in DOMAIN txs' : txs'[u].form = "disputePayment" /\ txs'[u].phase = "included"
      <3>1. CASE f = "disputePayment" BY <1>10, <3>1
      <3>2. CASE f = "completePayment"
        <4>1. busy[f]
          <5>1. txs[t].form \in Settling /\ txs[t].phase \in Pending
            BY <1>2, <1>10, <3>2 DEF Settling, Pending
          <5> QED BY <1>2, <5>1, OneOnItsWay
        <4> QED BY <1>10, <2>2, <3>2, <4>1 DEF ButtonsInv, ExclusionInv
      <3>3. CASE f \notin Settling
        <4>1. \/ rk[0] >= 2 * e + 1
              \/ \E u \in DOMAIN txs : txs[u].form = "disputePayment" /\ txs[u].phase = "included"
          BY <1>1, <1>7, <1>10, <2>2 DEF LiveInv
        <4> QED BY <1>11, <1>15, <1>16, <3>3, <4>1
      <3> QED BY <3>1, <3>2, <3>3 DEF Settling
    <2> QED BY <2>1, <2>2 DEF LiveInv, Live, Settling
  <1> QED BY <1>15, <1>19, <1>20 DEF SettledInv

\* What is delivered first: the ranks move up by one.
LEMMA DeliverSettles ==
  ASSUME NEW rk, SettledInv(rk), ButtonsInv, Deliver
  PROVE  \E r : SettledInv(r)'
  <1>1. NoticesInv /\ RankInv(rk) /\ CountInv(rk) /\ LiveInv(rk) BY DEF SettledInv
  <1>2. PICK n \in Nat : n = Len(notices) BY <1>1, RankTypes
  <1>3. /\ n >= 1 /\ Head(notices) = notices[1]
        /\ IsSeq(notices') /\ Len(notices') = n - 1
        /\ DOMAIN notices = 1 .. n /\ DOMAIN notices' = 1 .. n - 1
        /\ \A i \in 1 .. n - 1 : notices'[i] = notices[i + 1]
    BY <1>1, <1>2, Tailed, SeqFacts DEF Deliver, NoticesInv
  <1>4. UNCHANGED <<chain, effects>> BY DEF Deliver
  <1>5. PICK r : r = [i \in 0 .. n - 1 |-> rk[i + 1]] OBVIOUS
  <1>6. /\ r \in [0 .. n - 1 -> 0 .. 4]
        /\ \A i \in 0 .. n - 1 : r[i] = rk[i + 1] /\ i + 1 \in 0 .. n
        /\ \A i, j \in 0 .. n - 1 : i <= j => r[i] <= r[j]
    <2>1. rk \in [0 .. n -> 0 .. 4] /\ \A i, j \in 0 .. n : i <= j => rk[i] <= rk[j]
      BY <1>1, <1>2 DEF RankInv
    <2>2. \A i \in 0 .. n - 1 : r[i] = rk[i + 1] /\ i + 1 \in 0 .. n BY <1>3, <1>5
    <2>3. r \in [0 .. n - 1 -> 0 .. 4] BY <1>5, <2>1, <2>2
    <2>4. \A i, j \in 0 .. n - 1 : i <= j => i + 1 <= j + 1 BY <1>3
    <2> QED BY <2>1, <2>2, <2>3, <2>4
  <1>7. /\ r[0] = rk[1] /\ r[n - 1] = rk[n] /\ rk[0] <= rk[1]
        /\ rk[0] \in 0 .. 4 /\ rk[1] \in 0 .. 4
        /\ 1 \in 1 .. n
    <2>1. 0 \in 0 .. n - 1 /\ n - 1 \in 0 .. n - 1 /\ n - 1 + 1 = n /\ 0 + 1 = 1 BY <1>3
    <2>2. 0 \in 0 .. n /\ 1 \in 0 .. n /\ 1 \in 1 .. n BY <1>3
    <2> QED BY <1>1, <1>2, <1>6, <2>1, <2>2, SMTT(30) DEF RankInv
  <1>8. \A i \in 1 .. n - 1 : i + 1 \in 1 .. n /\ i \in 0 .. n - 1 /\ i - 1 \in 0 .. n - 1 /\ i - 1 + 1 = i
    BY <1>3
  <1>9. \/ notices[1].kind = "storage" /\ ShowStorage(notices[1].value) /\ UNCHANGED formVars
        \/ notices[1].kind = "final" /\ Finalize(notices[1].value) /\ UNCHANGED pageVars
    BY <1>3 DEF Deliver
  <1>10. ASSUME notices[1].kind = "final"
         PROVE  \E t \in DOMAIN txs : notices[1] = FinalOf(t) /\ txs[t].phase = "included"
    BY <1>1, <1>3, <1>7, <1>10 DEF NoticesInv
  \* The forms: nothing moves, or one transaction leaves its block.
  <1>11. \A t \in DOMAIN txs : t \in DOMAIN txs' /\ txs'[t].form = txs[t].form
    <2>1. CASE UNCHANGED formVars BY <2>1 DEF formVars
    <2>2. CASE notices[1].kind = "final" /\ Finalize(notices[1].value)
      <3>1. PICK t \in DOMAIN txs : notices[1] = FinalOf(t) BY <1>10, <2>2
      <3>2. Moves(t, "finalized") BY <2>2, <3>1 DEF Finalize, FinalOf
      <3> QED BY <3>2, Moved DEF ButtonsInv
    <2> QED BY <1>9, <2>1, <2>2
  <1>12. \A t \in DOMAIN txs : txs[t].phase = "included" =>
           txs'[t].phase = "included" \/ notices[1] = FinalOf(t)
    <2>1. CASE UNCHANGED formVars BY <2>1 DEF formVars
    <2>2. CASE notices[1].kind = "final" /\ Finalize(notices[1].value)
      <3>1. PICK t \in DOMAIN txs : notices[1] = FinalOf(t) BY <1>10, <2>2
      <3>2. Moves(t, "finalized") BY <2>2, <3>1 DEF Finalize, FinalOf
      <3>3. \A u \in DOMAIN txs : u # t => txs'[u] = txs[u] BY <3>2, Moved DEF ButtonsInv
      <3> QED BY <3>1, <3>3
    <2> QED BY <1>9, <2>1, <2>2
  <1>13. \A t \in DOMAIN txs' : t \in DOMAIN txs /\ (txs'[t].phase \in Live => txs[t].phase \in Live)
    <2>1. CASE UNCHANGED formVars BY <2>1 DEF formVars
    <2>2. CASE notices[1].kind = "final" /\ Finalize(notices[1].value)
      <3>1. PICK t \in DOMAIN txs : notices[1] = FinalOf(t) BY <1>10, <2>2
      <3>2. Moves(t, "finalized") BY <2>2, <3>1 DEF Finalize, FinalOf
      <3>3. /\ DOMAIN txs' = DOMAIN txs /\ txs'[t].phase = "finalized"
            /\ \A u \in DOMAIN txs : u # t => txs'[u] = txs[u]
        BY <3>2, Moved DEF ButtonsInv
      <3> QED BY <3>1, <3>3 DEF Live
    <2> QED BY <1>9, <2>1, <2>2
  <1>14. NoticesInv'
    <2>1. ASSUME NEW i \in DOMAIN notices'
          PROVE  \/ notices'[i].kind = "storage"
                 \/ \E t \in DOMAIN txs' : notices'[i] = FinalOf(t) /\ txs'[t].phase = "included"
      <3>1. i + 1 \in DOMAIN notices /\ notices'[i] = notices[i + 1] /\ i + 1 # 1
        BY <1>3, <1>8, <2>1
      <3>2. CASE notices[i + 1].kind = "storage" BY <3>1, <3>2
      <3>3. CASE notices[i + 1].kind # "storage"
        <4>1. PICK t \in DOMAIN txs : notices[i + 1] = FinalOf(t) /\ txs[t].phase = "included"
          BY <1>1, <3>1, <3>3 DEF NoticesInv
        <4>2. notices[1] # FinalOf(t)
          BY <1>1, <1>3, <1>7, <3>1, <4>1 DEF NoticesInv, FinalOf
        <4> QED BY <1>11, <1>12, <3>1, <4>1, <4>2
      <3> QED BY <3>2, <3>3
    <2>2. ASSUME NEW i \in DOMAIN notices', NEW j \in DOMAIN notices',
                 notices'[i] = notices'[j], notices'[i].kind = "final"
          PROVE  i = j
      <3>1. /\ i + 1 \in DOMAIN notices /\ notices'[i] = notices[i + 1]
            /\ j + 1 \in DOMAIN notices /\ notices'[j] = notices[j + 1]
        BY <1>3, <1>8, <2>2
      <3>2. i + 1 = j + 1 BY <1>1, <2>2, <3>1 DEF NoticesInv
      <3> QED BY <1>3, <2>2, <3>2
    <2> QED BY <1>3, <2>1, <2>2 DEF NoticesInv, FinalOf
  <1>15. shown' # NoRecord => Fits(shown'.status, r[0])
    <2>1. CASE notices[1].kind = "storage" /\ ShowStorage(notices[1].value)
      <3>1. shown' = notices[1].value BY <2>1 DEF ShowStorage
      <3>2. Fits(notices[1].value.status, rk[1]) BY <1>1, <1>3, <1>7, <2>1 DEF RankInv
      <3> QED BY <1>7, <3>1, <3>2
    <2>2. CASE notices[1].kind = "final" /\ UNCHANGED pageVars
      <3>1. rk[1] = rk[1 - 1] BY <1>1, <1>3, <1>7, <2>2 DEF RankInv
      <3>2. rk[1] = rk[0] BY <3>1
      <3> QED BY <1>1, <1>7, <2>2, <3>2 DEF RankInv, pageVars
    <2> QED BY <1>9, <2>1, <2>2
  <1>16. RankInv(r)'
    <2>1. ASSUME NEW i \in DOMAIN notices'
          PROVE  IF notices'[i].kind = "storage" THEN Fits(notices'[i].value.status, r[i])
                 ELSE r[i] = r[i - 1]
      <3>1. i \in 1 .. n - 1 BY <1>3, <2>1
      <3>2. /\ i + 1 \in DOMAIN notices /\ notices'[i] = notices[i + 1]
            /\ r[i] = rk[i + 1] /\ r[i - 1] = rk[i] /\ (i + 1) - 1 = i
        BY <1>3, <1>6, <1>8, <3>1
      <3> QED BY <1>1, <3>2 DEF RankInv
    <2>2. Fits(chain'.status, r[n - 1]) /\ DOMAIN chain' = ChainFields
      BY <1>1, <1>2, <1>4, <1>7 DEF RankInv
    <2> QED BY <1>3, <1>6, <1>15, <2>1, <2>2 DEF RankInv, Fits, ChainFields
  <1>17. ASSUME NEW F, NEW k \in Nat, Passed(rk, F, k) PROVE Passed(r, F, k)'
    <2>1. r[n - 1] >= k BY <1>2, <1>7, <1>17 DEF Passed
    <2>2. r[0] >= k \/ \E t \in DOMAIN txs' : txs'[t].form \in F /\ txs'[t].phase = "included"
      <3>1. CASE rk[0] >= k BY <1>7, <3>1
      <3>2. CASE \E t \in DOMAIN txs : txs[t].form \in F /\ txs[t].phase = "included"
        <4>1. PICK t \in DOMAIN txs : txs[t].form \in F /\ txs[t].phase = "included" BY <3>2
        <4>2. CASE notices[1] = FinalOf(t)
          BY <1>3, <1>7, <1>17, <4>1, <4>2 DEF Passed
        <4>3. CASE txs'[t].phase = "included"
          BY <1>11, <4>1, <4>3
        <4> QED BY <1>12, <4>1, <4>2, <4>3
      <3> QED BY <1>17, <3>1, <3>2 DEF Passed
    <2>3. ASSUME NEW i \in DOMAIN notices', NEW t \in DOMAIN txs',
                 notices'[i] = FinalOf(t), txs'[t].form \in F
          PROVE  r[i] >= k
      <3>1. i \in 1 .. n - 1 BY <1>3, <2>3
      <3>2. i + 1 \in DOMAIN notices /\ notices[i + 1] = FinalOf(t) /\ r[i] = rk[i + 1]
        BY <1>3, <1>6, <1>8, <2>3, <3>1
      <3>3. t \in DOMAIN txs /\ txs[t].form \in F BY <1>11, <1>13, <2>3
      <3> QED BY <1>17, <3>2, <3>3 DEF Passed
    <2> QED BY <1>3, <2>1, <2>2, <2>3 DEF Passed, FinalOf
  <1>18. Deposits' = Deposits /\ Releases' = Releases BY <1>4 DEF Deposits, Releases
  <1>19. CountInv(r)'
    <2>1. PICK d \in Nat : d = Deposits BY <1>1, CountTypes DEF CountInv
    <2>2. PICK e \in Nat : e = 2 * Releases BY <1>1, CountTypes DEF CountInv
    <2>3. Passed(r, {"depositPayment"}, d)' BY <1>1, <1>17, <2>1 DEF CountInv
    <2>4. Passed(r, Settling, e)' BY <1>1, <1>17, <2>2 DEF CountInv
    <2>5. Passed(r, {"depositPayment"}, Deposits)' BY <1>18, <2>1, <2>3 DEF Passed
    <2>6. Passed(r, Settling, 2 * Releases)' BY <1>18, <2>2, <2>4 DEF Passed, Settling
    <2> QED BY <1>1, <1>2, <1>3, <1>4, <1>7, <1>18, <2>5, <2>6 DEF CountInv
  <1>20. LiveInv(r)'
    <2>1. PICK e \in Nat : e = Releases BY <1>1, CountTypes DEF CountInv
    <2>2. \A t \in DOMAIN txs' : txs'[t].phase \in Live =>
            /\ txs'[t].form = "depositPayment" => Deposits' = 0
            /\ txs'[t].form \in Settling => r[0] >= 2 * e + 1
      BY <1>1, <1>7, <1>11, <1>13, <1>18, <2>1 DEF LiveInv
    <2>3. ASSUME open'["disputePayment"]
          PROVE  \/ r[0] >= 2 * e + 1
                 \/ \E t \in DOMAIN txs' : txs'[t].form = "disputePayment" /\ txs'[t].phase = "included"
      <3>1. open["disputePayment"] /\ ~(\E t \in DOMAIN txs : notices[1] = FinalOf(t) /\ txs[t].form = "disputePayment")
        <4>1. CASE UNCHANGED formVars /\ notices[1].kind = "storage"
          <5>1. open' = open BY <4>1 DEF formVars
          <5>2. \A t : FinalOf(t).kind = "final" BY DEF FinalOf
          <5> QED BY <2>3, <4>1, <5>1, <5>2
        <4>2. CASE notices[1].kind = "final" /\ Finalize(notices[1].value)
          <5>1. PICK t \in DOMAIN txs : notices[1] = FinalOf(t) BY <1>10, <4>2
          <5>2. txs[t].form \in Forms /\ "disputePayment" \in Forms
            BY PageRows DEF ButtonsInv, TxsInv
          <5>3. open' = [open EXCEPT ![txs[t].form] = @ /\ ~Row[txs[t].form].closes]
            <6>1. notices[1].value = t BY <5>1 DEF FinalOf
            <6>2. Finalize(t) BY <4>2, <6>1
            <6>3. Row[txs[t].form].name = txs[t].form BY <5>2, RowFacts
            <6> QED BY <6>2, <6>3 DEF Finalize
          <5>4. open \in [Forms -> BOOLEAN] BY DEF ButtonsInv, TxsInv
          <5>5. txs[t].form # "disputePayment"
            BY <2>3, <5>2, <5>3, <5>4, PageFlags
          <5>6. open["disputePayment"] BY <2>3, <5>2, <5>3, <5>4, <5>5
          <5>7. \A u : notices[1] = FinalOf(u) => u = t BY <5>1 DEF FinalOf
          <5> QED BY <5>5, <5>6, <5>7
        <4> QED BY <1>9, <4>1, <4>2
      <3>2. CASE rk[0] >= 2 * e + 1 BY <1>7, <2>1, <3>2
      <3>3. CASE \E t \in DOMAIN txs : txs[t].form = "disputePayment" /\ txs[t].phase = "included"
        BY <1>11, <1>12, <3>1, <3>3
      <3> QED BY <1>1, <2>1, <3>1, <3>2, <3>3 DEF LiveInv
    <2> QED BY <1>18, <2>1, <2>2, <2>3 DEF LiveInv, Live, Settling
  <1> QED BY <1>14, <1>16, <1>19, <1>20 DEF SettledInv

\* What the page offers for the record it shows.
LEMMA ReadyToSettle ==
  ASSUME NEW rk, SettledInv(rk), ButtonsInv, shown # NoRecord, shown.status = "Deposited",
         \A g \in Settling : ~busy[g]
  PROVE  rk[0] >= 2 * Releases + 1
  <1>1. NoticesInv /\ RankInv(rk) /\ CountInv(rk) BY DEF SettledInv
  <1>2. rk[0] \in {1, 3} BY <1>1 DEF RankInv, Fits
  <1>3. \A t \in DOMAIN txs : ~(txs[t].form \in Settling /\ txs[t].phase = "included")
    BY OneOnItsWay DEF Pending
  <1>4. rk[0] >= 2 * Releases BY <1>1, <1>3 DEF CountInv, Passed
  <1>5. Releases \in Nat BY <1>1, CountTypes DEF CountInv
  <1> QED BY <1>2, <1>4, <1>5

LEMMA ReadyToDeposit ==
  ASSUME NEW rk, SettledInv(rk), ButtonsInv, shown # NoRecord, shown.status = "WaitingForDeposit",
         ~busy["depositPayment"]
  PROVE  Deposits = 0
  <1>1. NoticesInv /\ RankInv(rk) /\ CountInv(rk) BY DEF SettledInv
  <1>2. rk[0] = 0 BY <1>1 DEF RankInv, Fits
  <1>3. \A t \in DOMAIN txs : ~(txs[t].form \in {"depositPayment"} /\ txs[t].phase = "included")
    BY OneOnItsWay DEF Pending
  <1>4. rk[0] >= Deposits BY <1>1, <1>3 DEF CountInv, Passed
  <1>5. Deposits \in Nat BY <1>1, CountTypes DEF CountInv
  <1> QED BY <1>2, <1>4, <1>5

LEMMA OpenSettles ==
  ASSUME NEW rk, SettledInv(rk), ButtonsInv, NEW f \in Forms, Offered(f), Open(f), Elsewhere
  PROVE  \E r : SettledInv(r)'
  <1>1. UNCHANGED <<chain, shown, notices, effects, txs>> BY DEF Open, Elsewhere, pageVars
  <1>2. open' = [open EXCEPT ![f] = TRUE] /\ \A g \in Row[f].opening : ~busy[g] BY DEF Open
  <1>3. open'["disputePayment"] => open["disputePayment"] \/ rk[0] >= 2 * Releases + 1
    <2>1. CASE f = "disputePayment"
      <3>1. shown # NoRecord /\ shown.status = "Deposited" BY <2>1 DEF Offered
      <3>2. \A g \in Settling : ~busy[g] BY <1>2, <2>1, PageFlags
      <3> QED BY <3>1, <3>2, ReadyToSettle
    <2>2. CASE f # "disputePayment" BY <1>2, <2>2 DEF ButtonsInv, TxsInv
    <2> QED BY <2>1, <2>2
  <1> QED BY <1>1, <1>3, QuietKeeps

LEMMA PressSettles ==
  ASSUME NEW rk, SettledInv(rk), ButtonsInv, NEW f \in Forms, NEW from, NEW showing,
         Row[f].dialog \/ Offered(f), Press(f, from, showing), Elsewhere
  PROVE  \E r : SettledInv(r)'
  <1>1. UNCHANGED <<chain, shown, notices, effects, open>> BY DEF Press, Elsewhere, pageVars
  <1>2. PICK elt : txs' = Append(txs, elt) /\ elt.form = f /\ elt.phase = "account"
    <2>1. PICK bad : txs' = Append(txs, [form |-> f, mount |-> mounts[f], from |-> from,
                                         shown |-> showing, bad |-> bad, phase |-> "account"])
      BY DEF Press
    <2> QED BY <2>1
  <1>3. PICK n \in Nat : n = Len(txs) /\ DOMAIN txs = 1 .. n
    BY SeqFacts DEF ButtonsInv, TxsInv
  <1>4. /\ DOMAIN txs' = 1 .. n + 1 /\ txs'[n + 1] = elt
        /\ \A t \in 1 .. n : txs'[t] = txs[t]
    <2>1. IsSeq(txs) BY DEF ButtonsInv, TxsInv
    <2>2. IsSeq(txs') /\ Len(txs') = n + 1 BY <1>2, <1>3, <2>1, Appended
    <2> QED BY <1>2, <1>3, <2>1, <2>2, Appended, SeqFacts
  <1>5. Usable(f) /\ \A g \in Row[f].blocked : ~busy[g] BY DEF Press
  <1>6. f = "depositPayment" => Deposits = 0
    <2> SUFFICES ASSUME f = "depositPayment" PROVE Deposits = 0 OBVIOUS
    <2>1. shown # NoRecord /\ shown.status = "WaitingForDeposit"
      BY PageFlags DEF Offered
    <2> QED BY <1>5, <2>1, PageFlags, ReadyToDeposit
  <1>7. f \in Settling => rk[0] >= 2 * Releases + 1
    <2>1. CASE f = "completePayment"
      <3>1. shown # NoRecord /\ shown.status = "Deposited"
        BY <2>1, PageFlags DEF Offered
      <3> QED BY <1>5, <2>1, <3>1, PageFlags, ReadyToSettle
    <2>2. CASE f = "disputePayment"
      <3>1. open["disputePayment"] /\ ~busy["disputePayment"]
        BY <1>5, <2>2, PageFlags DEF Usable
      <3>2. \A t \in DOMAIN txs : ~(txs[t].form = "disputePayment" /\ txs[t].phase = "included")
        BY <3>1, OneOnItsWay DEF Pending, Settling
      <3> QED BY <3>1, <3>2 DEF SettledInv, LiveInv
    <2> QED BY <2>1, <2>2 DEF Settling
  <1>8. \A t \in DOMAIN txs : /\ t \in DOMAIN txs' /\ txs'[t].form = txs[t].form
                              /\ txs[t].phase = "included" => txs'[t].phase = "included"
    BY <1>3, <1>4
  <1>9. \A t \in DOMAIN txs' : txs'[t].phase \in Live =>
            \/ t \in DOMAIN txs /\ txs[t].phase \in Live
            \/ /\ txs'[t].form = "depositPayment" => Deposits = 0
               /\ txs'[t].form \in Settling => rk[0] >= 2 * Releases + 1
    <2> TAKE t \in DOMAIN txs'
    <2>1. CASE t \in 1 .. n BY <1>3, <1>4, <2>1
    <2>2. CASE t = n + 1 BY <1>2, <1>4, <1>6, <1>7, <2>2
    <2> QED BY <1>4, <2>1, <2>2
  <1> QED BY <1>1, <1>8, <1>9, QuietKeeps

LEMMA UserSettles ==
  ASSUME NEW rk, SettledInv(rk), FormPagesInv, UserStep PROVE \E r : SettledInv(r)'
  <1>1. PICK f \in view.forms :
          \/ Offered(f) /\ Open(f) /\ Elsewhere
          \/ Close(f) /\ Elsewhere
          \/ Type(f) /\ Elsewhere
          \/ ChooseImage(f) /\ Elsewhere
          \/ (Row[f].dialog \/ Offered(f)) /\ Press(f, pair, account) /\ Elsewhere
    BY DEF UserStep
  <1>2. f \in Forms /\ ButtonsInv BY FormPagesAssumption DEF FormPagesInv
  <1>3. CASE Offered(f) /\ Open(f) /\ Elsewhere BY <1>2, <1>3, OpenSettles
  <1>4. CASE (Row[f].dialog \/ Offered(f)) /\ Press(f, pair, account) /\ Elsewhere
    <2>1. PICK from, showing : from = pair /\ showing = account OBVIOUS
    <2> QED BY <1>2, <1>4, <2>1, PressSettles
  <1>5. CASE (Close(f) \/ Type(f) \/ ChooseImage(f)) /\ Elsewhere
    <2>1. UNCHANGED <<chain, shown, notices, effects, txs>>
      BY <1>5 DEF Close, Type, ChooseImage, Elsewhere, pageVars
    <2>2. open' = [open EXCEPT ![f] = FALSE] \/ open' = open
      BY <1>5 DEF Close, Closed, Type, ChooseImage
    <2>3. open'["disputePayment"] => open["disputePayment"]
      <3>1. open \in [Forms -> BOOLEAN] BY <1>2 DEF ButtonsInv, TxsInv
      <3>2. \A g \in Forms : open'[g] => open[g] BY <1>2, <2>2, <3>1
      <3> QED BY <3>2, PageRows
    <2> QED BY <2>1, <2>3, QuietKeeps
  <1> QED BY <1>1, <1>3, <1>4, <1>5

LEMMA UploadSettles ==
  ASSUME NEW rk, SettledInv(rk), UploadStep PROVE \E r : SettledInv(r)'
  <1>1. UNCHANGED <<chain, shown, notices, effects, txs, open>>
    BY DEF UploadStep, ReadImage, StoreImage, ImageUploaded, Stay, Elsewhere, pageVars
  <1> QED BY <1>1, QuietKeeps

LEMMA TransactionSettles ==
  ASSUME NEW rk, SettledInv(rk), ButtonsInv, TxStep PROVE \E r : SettledInv(r)'
  <1>1. PICK t \in DOMAIN txs :
          \/ (GetFromAcct(t) \/ Throw(t) \/ Sign(t) \/ Refuse(t) \/ Drop(t)) /\ Elsewhere
          \/ InBlock(t)
          \/ Final(t)
    BY DEF TxStep, Stay
  <1>2. CASE Final(t) BY <1>2, FinalSettles
  <1>3. CASE Include(t) /\ chain' = Changed(txs[t].form, txs[t].from)
             /\ effects' = [effects EXCEPT ![txs[t].form] = @ + 1]
             /\ notices' = (IF chain' = chain THEN notices ELSE Append(notices, Announce(chain')))
             /\ shown' = shown
    BY <1>3, EffectSettles
  <1>4. CASE /\ UNCHANGED <<chain, shown, notices, effects, open>>
             /\ \/ GetFromAcct(t) \/ Throw(t) \/ Sign(t) \/ Refuse(t) \/ Drop(t) \/ Include(t)
    <2>1. PICK phase : Moves(t, phase) /\ (phase \in Live => txs[t].phase \in Live)
      BY <1>4 DEF GetFromAcct, Throw, Sign, Refuse, Drop, Include, InPhase, Live
    <2>2. txs[t].phase # "included"
      BY <1>4 DEF GetFromAcct, Throw, Sign, Refuse, Drop, Include, InPhase
    <2>3. /\ DOMAIN txs' = DOMAIN txs /\ txs'[t].phase = phase /\ txs'[t].form = txs[t].form
          /\ \A u \in DOMAIN txs : u # t => txs'[u] = txs[u]
      BY <2>1, Moved DEF ButtonsInv
    <2>4. \A u \in DOMAIN txs : /\ u \in DOMAIN txs' /\ txs'[u].form = txs[u].form
                                /\ txs[u].phase = "included" => txs'[u].phase = "included"
      BY <2>2, <2>3
    <2>5. \A u \in DOMAIN txs' : txs'[u].phase \in Live => u \in DOMAIN txs /\ txs[u].phase \in Live
      BY <2>1, <2>3
    <2> QED BY <1>4, <2>4, <2>5, QuietKeeps
  <1>5. CASE (GetFromAcct(t) \/ Throw(t) \/ Sign(t) \/ Refuse(t) \/ Drop(t)) /\ Elsewhere
    <2>1. UNCHANGED <<chain, shown, notices, effects, open>>
      BY <1>5 DEF GetFromAcct, Throw, Sign, Refuse, Drop, Elsewhere, pageVars
    <2> QED BY <1>4, <1>5, <2>1
  <1>6. CASE InBlock(t)
    <2>1. Include(t) /\ shown' = shown /\ open' = open
      BY <1>6 DEF InBlock, Include, pageVars
    <2> QED BY <1>3, <1>4, <1>6, <2>1 DEF InBlock
  <1> QED BY <1>1, <1>2, <1>5, <1>6

LEMMA SettledInitially == Init => SomeSettledInv
  <1> SUFFICES ASSUME Init PROVE SomeSettledInv OBVIOUS
  <1>1. /\ txs = <<>> /\ open = [f \in Forms |-> FALSE] /\ shown = NoRecord
        /\ effects = [f \in Forms |-> 0]
        /\ chain = [status |-> view.status, payer |-> view.payer, dispute |-> view.dispute]
        /\ notices = <<Announce(chain)>>
    BY DEF Init, FormsInit, Announce
  <1>2. DOMAIN txs = {} BY <1>1, NothingIn
  <1>3. IsSeq(notices) /\ Len(notices) = 1 /\ notices[1] = Announce(chain)
    <2>1. IsSeq(<<>>) BY DEF IsSeq
    <2>2. notices = Append(<<>>, Announce(chain)) BY <1>1
    <2>3. notices \in Seq({Announce(chain)}) BY <1>1
    <2> QED BY <1>1, <2>3 DEF IsSeq
  <1>4. DOMAIN notices = 1 .. 1 BY <1>3, SeqFacts
  <1>5. PICK k \in 0 .. 2 : k = IF view.status = "WaitingForDeposit" THEN 0
                                ELSE IF view.status = "Deposited" THEN 1 ELSE 2
    OBVIOUS
  <1>6. PICK r : r = [i \in 0 .. 1 |-> k] OBVIOUS
  <1>7. r \in [0 .. 1 -> 0 .. 4] /\ \A i \in 0 .. 1 : r[i] = k BY <1>6
  <1>8. DOMAIN chain = ChainFields /\ Fits(chain.status, k)
    BY <1>1, <1>5 DEF ChainFields, Fits
  <1>9. NoticesInv BY <1>3, <1>4 DEF NoticesInv, Announce
  <1>10. RankInv(r)
    <2>1. \A i \in DOMAIN notices : i = 1 BY <1>4
    <2>2. notices[1].kind = "storage" /\ notices[1].value = chain BY <1>3 DEF Announce
    <2> QED BY <1>1, <1>3, <1>7, <1>8, <2>1, <2>2 DEF RankInv
  <1>11. effects \in [Forms -> Nat] /\ Deposits = 0 /\ Releases = 0
    BY <1>1, DepositRow, PageRows DEF Deposits, Releases
  <1>12. CountInv(r)
    <2>1. \A F : Passed(r, F, 0) BY <1>2, <1>3, <1>7 DEF Passed
    <2> QED BY <1>3, <1>7, <1>11, <2>1 DEF CountInv
  <1>13. LiveInv(r) BY <1>1, <1>2, PageRows DEF LiveInv
  <1> QED BY <1>9, <1>10, <1>12, <1>13 DEF SomeSettledInv, SettledInv

LEMMA SettledKeeps ==
  ASSUME FormPagesInv, SomeSettledInv, [Next]_vars PROVE SomeSettledInv'
  <1>1. PICK rk : SettledInv(rk) BY DEF SomeSettledInv
  <1>2. ButtonsInv BY DEF FormPagesInv
  <1>3. CASE (\E a \in Accounts : Select(a)) \/ UNCHANGED vars
    <2>1. UNCHANGED <<chain, shown, notices, effects, txs, open>>
      BY <1>3 DEF Select, vars, formVars, pageVars
    <2>2. \E r : SettledInv(r)' BY <1>1, <2>1, QuietKeeps
    <2> QED BY <2>2 DEF SomeSettledInv
  <1>4. CASE ~((\E a \in Accounts : Select(a)) \/ UNCHANGED vars)
    <2>1. \E r : SettledInv(r)'
      BY <1>1, <1>2, <1>4, UserSettles, UploadSettles, TransactionSettles, DeliverSettles,
         ForeignSettles DEF Next
    <2> QED BY <2>1 DEF SomeSettledInv
  <1> QED BY <1>3, <1>4

(* Whatever other users do meanwhile, a page deposits at most once, and    *)
(* releases or disputes at most once more than it deposited                *)
(* (ProcessPayment.js:70-72, 95-99, 293-329).                              *)
THEOREM SettledSound == Spec => []SettledOnce
  <1>1. SomeSettledInv => SettledOnce BY SettledFollows DEF SomeSettledInv
  <1>2. FormPagesInv /\ SomeSettledInv /\ [Next]_vars => SomeSettledInv' BY SettledKeeps
  <1> QED BY <1>1, <1>2, SettledInitially, FormPagesSafe, PTL DEF Spec

(***************************************************************************)
(* Types, and the bound of the socket's queue: a transaction is told of    *)
(* twice at most, when it changes the record and when its block is final.  *)
(***************************************************************************)

\* Every step starts a transaction, moves one on, or leaves them.
Started == \E f : Press(f, pair, account)
MovesOn(t, phase) ==
    /\ Moves(t, phase)
    /\ txs[t].phase # "finalized" /\ (txs[t].phase = "included" => phase = "finalized")

LEMMA TxsChange ==
  ASSUME [Next]_vars
  PROVE  \/ txs' = txs
         \/ Started
         \/ \E t \in DOMAIN txs, phase \in Phases : MovesOn(t, phase)
  <1>1. CASE UserStep
    BY <1>1 DEF UserStep, Open, Close, Type, ChooseImage, Started
  <1>2. CASE UploadStep
    BY <1>2 DEF UploadStep, ReadImage, StoreImage, ImageUploaded
  <1>3. CASE TxStep
    <2>1. PICK t \in DOMAIN txs :
            \/ GetFromAcct(t) \/ Throw(t) \/ Sign(t) \/ Refuse(t) \/ Drop(t) \/ Include(t)
            \/ Final(t)
      BY <1>3 DEF TxStep, InBlock
    <2>2. CASE Final(t) BY <2>2 DEF Final, formVars
    <2>3. CASE \/ GetFromAcct(t) \/ Throw(t) \/ Sign(t) \/ Refuse(t) \/ Drop(t) \/ Include(t)
      <3>1. /\ txs[t].phase \in {"account", "signing", "sent"}
            /\ \E phase \in Phases : Moves(t, phase)
        BY <2>3 DEF GetFromAcct, Throw, Sign, Refuse, Drop, Include, InPhase, Phases
      <3> QED BY <3>1 DEF MovesOn
    <2> QED BY <2>1, <2>2, <2>3
  <1>4. CASE Deliver
    <2>1. CASE UNCHANGED formVars BY <2>1 DEF formVars
    <2>2. CASE Finalize(Head(notices).value)
      <3>1. PICK t \in DOMAIN txs : Finalize(t)
        <4>1. Head(notices).value \in DOMAIN txs BY <2>2, Zenon DEF Finalize, InPhase
        <4> QED BY <2>2, <4>1, Zenon
      <3>2. MovesOn(t, "finalized") /\ "finalized" \in Phases
        BY <3>1 DEF Finalize, InPhase, MovesOn, Phases
      <3> QED BY <3>2
    <2> QED BY <1>4, <2>1, <2>2 DEF Deliver
  <1>5. CASE \E a \in Accounts : Select(a) BY <1>5 DEF Select, formVars
  <1>6. CASE \E f \in Forms, a \in Accounts : Foreign(f, a) BY <1>6 DEF Foreign, formVars
  <1>7. CASE UNCHANGED vars BY <1>7 DEF vars, formVars
  <1> QED BY <1>1, <1>2, <1>3, <1>4, <1>5, <1>6, <1>7 DEF Next

\* What is typed, and the account it is signed with.
StartsTyped ==
    /\ Len(txs) <= MaxTxs
    /\ \A t \in DOMAIN txs : txs[t].phase \in Phases /\ txs[t].from \in Keyring

LEMMA PressAppends ==
  ASSUME TxsInv, NEW f, Press(f, pair, account)
  PROVE  /\ IsSeq(txs') /\ Len(txs) < MaxTxs /\ Len(txs') = Len(txs) + 1
         /\ DOMAIN txs = 1 .. Len(txs) /\ DOMAIN txs' = 1 .. Len(txs) + 1 /\ Len(txs) \in Nat
         /\ \A t \in 1 .. Len(txs) : txs'[t] = txs[t]
         /\ txs'[Len(txs) + 1].phase = "account" /\ txs'[Len(txs) + 1].from = pair
  <1>1. PICK elt : txs' = Append(txs, elt) /\ elt.from = pair /\ elt.phase = "account"
    BY DEF Press
  <1>2. IsSeq(txs) BY DEF TxsInv
  <1>3. Len(txs) \in Nat /\ DOMAIN txs = 1 .. Len(txs) BY <1>2, SeqFacts
  <1>4. /\ IsSeq(txs') /\ Len(txs') = Len(txs) + 1
        /\ \A t \in 1 .. Len(txs) : txs'[t] = txs[t]
        /\ txs'[Len(txs) + 1] = elt
    BY <1>1, <1>2, Appended
  <1>5. DOMAIN txs' = 1 .. Len(txs) + 1 BY <1>4, SeqFacts
  <1> QED BY <1>1, <1>3, <1>4, <1>5 DEF Press

LEMMA StartsKept ==
  ASSUME FormPagesInv, StartsTyped, pair \in Keyring, [Next]_vars PROVE StartsTyped'
  <1>1. TxsInv BY DEF FormPagesInv, ButtonsInv
  <1>2. CASE txs' = txs BY <1>2 DEF StartsTyped, Phases
  <1>3. CASE Started
    <2>1. PICK f : Press(f, pair, account) BY <1>3 DEF Started
    <2>2. Len(txs') <= MaxTxs BY <1>1, <2>1, PressAppends, FormsAssumption
    <2>3. "account" \in Phases BY DEF Phases
    <2>4. ASSUME NEW t \in DOMAIN txs' PROVE txs'[t].phase \in Phases /\ txs'[t].from \in Keyring
      BY <1>1, <2>1, <2>3, PressAppends DEF StartsTyped
    <2> QED BY <2>2, <2>4 DEF StartsTyped, Phases
  <1>4. CASE \E t \in DOMAIN txs, phase \in Phases : MovesOn(t, phase)
    <2>1. PICK t \in DOMAIN txs, phase \in Phases : Moves(t, phase) BY <1>4 DEF MovesOn
    <2>2. /\ IsSeq(txs') /\ DOMAIN txs' = DOMAIN txs
          /\ \A u \in DOMAIN txs : u # t => txs'[u] = txs[u]
          /\ txs'[t].from = txs[t].from /\ txs'[t].phase = phase
      BY <1>1, <2>1, Moved
    <2>3. Len(txs') = Len(txs)
      <3>1. IsSeq(txs) BY <1>1 DEF TxsInv
      <3>2. /\ Len(txs) \in Nat /\ DOMAIN txs = 1 .. Len(txs)
            /\ Len(txs') \in Nat /\ DOMAIN txs' = 1 .. Len(txs')
        BY <2>2, <3>1, SeqFacts
      <3> QED BY <2>2, <3>2
    <2> QED BY <2>2, <2>3 DEF StartsTyped, Phases
  <1> QED BY <1>2, <1>3, <1>4, TxsChange

\* The flags of the uploaders, the dialogs opened, what forms hold.
Drafts == [text : 0 .. MaxTyped, image : Images]
FormsTyped ==
    /\ loading \in [Forms -> BOOLEAN]
    /\ \A f \in Forms :
         /\ mounts[f] <= MaxMounts /\ typed[f] \in 0 .. MaxTyped /\ draft[f] \in Drafts

LEMMA EmptyIsDraft ==
  ASSUME NEW f PROVE EmptyDraft(f) \in Drafts
  <1>1. NoImage \in Images /\ NoUrl \in Images /\ 0 \in 0 .. MaxTyped
    BY FormsAssumption DEF Images
  <1> QED BY <1>1 DEF EmptyDraft, Drafts

UploadTyped(up) ==
    /\ up.text \in 0 .. MaxTyped /\ up.url \in Keys \cup {NoUrl}
    /\ up.phase \in {"head", "put"} => up.key \in Keys
UploadsTyped ==
    /\ \A u \in DOMAIN uploads : UploadTyped(uploads[u])
    /\ store \subseteq Keys

DataTyped == FormsTyped /\ UploadsTyped

LEMMA DataUnchanged ==
  ASSUME DataTyped, UNCHANGED <<mounts, typed, draft, uploadVars>> PROVE DataTyped'
  BY DEF DataTyped, FormsTyped, Drafts, UploadsTyped, UploadTyped, uploadVars, Images

LEMMA UserData ==
  ASSUME FormPagesInv, DataTyped, UserStep PROVE DataTyped'
  <1>1. PICK f \in view.forms :
          \/ Open(f) \/ Close(f) \/ Type(f) \/ ChooseImage(f) \/ Press(f, pair, account)
    BY DEF UserStep
  <1>2. f \in Forms BY FormPagesAssumption DEF FormPagesInv
  <1>3. /\ mounts \in [Forms -> Nat] /\ DOMAIN draft = Forms /\ DOMAIN typed = Forms
        /\ \A g \in Forms : DOMAIN draft[g] = {"text", "image"}
    BY DEF FormPagesInv, ButtonsInv, TxsInv, DraftInv
  <1>4. \A g \in Forms : EmptyDraft(g) \in Drafts BY EmptyIsDraft
  <1>5. /\ MaxTyped \in Nat /\ MaxMounts \in Nat /\ 0 \in 0 .. MaxTyped
    BY FormsAssumption
  <1>6. CASE Open(f)
    <2>1. /\ mounts[f] < MaxMounts /\ mounts' = [mounts EXCEPT ![f] = @ + 1]
          /\ loading' = [loading EXCEPT ![f] = FALSE]
          /\ UNCHANGED <<draft, typed, uploads, store>>
      BY <1>6 DEF Open
    <2>2. \A g \in Forms : mounts'[g] <= MaxMounts
      BY <1>2, <1>3, <1>5, <2>1 DEF DataTyped, FormsTyped
    <2> QED BY <2>1, <2>2 DEF DataTyped, FormsTyped, Drafts, UploadsTyped, UploadTyped, Images
  <1>7. CASE Close(f)
    <2>1. Closed(f) /\ UNCHANGED <<mounts, uploadVars>> BY <1>7 DEF Close
    <2>2. \A g \in Forms : /\ typed'[g] \in {typed[g], 0}
                           /\ draft'[g] = draft[g] \/ draft'[g] = EmptyDraft(g)
      BY <1>2, <1>3, <2>1 DEF Closed
    <2>3. \A g \in Forms : typed'[g] \in 0 .. MaxTyped /\ draft'[g] \in Drafts
      BY <1>4, <1>5, <2>2 DEF DataTyped, FormsTyped
    <2> QED BY <2>1, <2>3 DEF DataTyped, FormsTyped, Drafts, UploadsTyped, UploadTyped, uploadVars, Images
  <1>8. CASE Type(f)
    <2>1. /\ typed[f] < MaxTyped /\ typed' = [typed EXCEPT ![f] = @ + 1]
          /\ draft' = [draft EXCEPT ![f].text = typed'[f]]
          /\ UNCHANGED <<mounts, uploadVars>>
      BY <1>8 DEF Type
    <2>2. typed'[f] \in 0 .. MaxTyped /\ \A g \in Forms : typed'[g] \in 0 .. MaxTyped
      BY <1>2, <1>3, <1>5, <2>1 DEF DataTyped, FormsTyped
    <2>3. \A g \in Forms : draft'[g] \in {draft[g], [draft[g] EXCEPT !.text = typed'[f]]}
      BY <1>2, <1>3, <2>1
    <2>4. \A g \in Forms : draft'[g] \in Drafts
      BY <2>2, <2>3 DEF DataTyped, FormsTyped, Drafts
    <2> QED BY <2>1, <2>2, <2>4 DEF DataTyped, FormsTyped, Drafts, UploadsTyped, UploadTyped, uploadVars, Images
  <1>9. CASE ChooseImage(f)
    <2>1. /\ uploads' = Append(uploads, [form |-> f, mount |-> mounts[f], text |-> draft[f].text,
                                         phase |-> "reading", key |-> NoUrl, url |-> NoUrl])
          /\ UNCHANGED <<mounts, typed, draft, loading, store>>
      BY <1>9 DEF ChooseImage, SelectFile
    <2>2. PICK up : /\ uploads' = Append(uploads, up)
                    /\ up.text = draft[f].text /\ up.phase = "reading" /\ up.url = NoUrl
      BY <2>1
    <2>3. IsSeq(uploads) /\ UploadTyped(up)
      BY <1>2, <2>2 DEF FormPagesInv, DraftInv, DataTyped, FormsTyped, Drafts, UploadTyped
    <2>4. /\ IsSeq(uploads') /\ Len(uploads') = Len(uploads) + 1
          /\ Len(uploads) \in Nat /\ DOMAIN uploads = 1 .. Len(uploads)
          /\ \A u \in 1 .. Len(uploads) : uploads'[u] = uploads[u]
          /\ uploads'[Len(uploads) + 1] = up
      BY <2>2, <2>3, Appended, SeqFacts
    <2>5. DOMAIN uploads' = 1 .. Len(uploads) + 1 BY <2>4, SeqFacts
    <2>6. \A u \in DOMAIN uploads' : UploadTyped(uploads'[u])
      BY <2>3, <2>4, <2>5 DEF DataTyped, UploadsTyped
    <2> QED BY <2>1, <2>6 DEF DataTyped, FormsTyped, Drafts, UploadsTyped, UploadTyped, Images
  <1>10. CASE Press(f, pair, account)
    BY <1>10, DataUnchanged DEF Press
  <1> QED BY <1>1, <1>6, <1>7, <1>8, <1>9, <1>10

LEMMA UploadData ==
  ASSUME FormPagesInv, DataTyped, UploadStep PROVE DataTyped'
  <1>1. PICK u \in DOMAIN uploads :
          (\E key \in Keys : ReadImage(u, key)) \/ StoreImage(u) \/ ImageUploaded(u)
    BY DEF UploadStep
  <1> DEFINE up == uploads[u]
  <1>2. /\ DOMAIN up = UploadFields /\ up.form \in Forms /\ UploadTyped(up)
        /\ DOMAIN draft = Forms
    BY DEF FormPagesInv, DraftInv, Uploading, DataTyped, UploadsTyped
  <1>3. UNCHANGED <<mounts, typed>>
    BY <1>1 DEF ReadImage, StoreImage, ImageUploaded
  <1>4. ASSUME NEW r, uploads' = [uploads EXCEPT ![u] = r], UploadTyped(r), store' \subseteq Keys
        PROVE  UploadsTyped'
    BY <1>4 DEF DataTyped, UploadsTyped, UploadTyped
  <1>5. CASE \E key \in Keys : ReadImage(u, key)
    <2>1. PICK key \in Keys : ReadImage(u, key) BY <1>5
    <2> DEFINE r == [up EXCEPT !.phase = "head", !.key = key]
    <2>2. /\ uploads' = [uploads EXCEPT ![u] = r] /\ store' = store /\ draft' = draft
          /\ loading' \in [Forms -> BOOLEAN]
      BY <2>1, <1>2 DEF ReadImage, FileRead, Mounted, DataTyped, FormsTyped
    <2>3. UploadTyped(r) BY <1>2 DEF UploadTyped, UploadFields
    <2> HIDE DEF r
    <2>4. UploadsTyped' BY <1>4, <2>2, <2>3 DEF DataTyped, UploadsTyped
    <2> QED BY <1>3, <2>2, <2>4 DEF DataTyped, FormsTyped, Drafts, Images
  <1>6. CASE StoreImage(u)
    <2>1. /\ UNCHANGED <<loading, draft>> /\ up.key \in Keys
          /\ store' \in {store, store \cup {up.key}}
          /\ \/ uploads' = [uploads EXCEPT ![u].phase = "put"]
             \/ \E url \in {NoUrl, up.key} :
                  uploads' = [uploads EXCEPT ![u].phase = "answered", ![u].url = url]
      BY <1>2, <1>6 DEF StoreImage, ServiceStep, HeadObject, PutObject, At, Answered, UploadTyped
    <2>2. store' \subseteq Keys BY <2>1 DEF DataTyped, UploadsTyped
    <2>3. UploadsTyped'
      <3>1. CASE uploads' = [uploads EXCEPT ![u].phase = "put"]
        <4> DEFINE r == [up EXCEPT !.phase = "put"]
        <4>1. UploadTyped(r) BY <1>2, <2>1 DEF UploadTyped, UploadFields
        <4>2. uploads' = [uploads EXCEPT ![u] = r] BY <3>1
        <4> HIDE DEF r
        <4> QED BY <1>4, <2>2, <4>1, <4>2
      <3>2. CASE \E url \in {NoUrl, up.key} :
                   uploads' = [uploads EXCEPT ![u].phase = "answered", ![u].url = url]
        <4>1. PICK url \in {NoUrl, up.key} :
                uploads' = [uploads EXCEPT ![u].phase = "answered", ![u].url = url]
          BY <3>2
        <4> DEFINE r == [up EXCEPT !.phase = "answered", !.url = url]
        <4>2. UploadTyped(r) BY <1>2, <2>1, <4>1 DEF UploadTyped, UploadFields
        <4>3. uploads' = [uploads EXCEPT ![u] = r] BY <4>1
        <4> HIDE DEF r
        <4> QED BY <1>4, <2>2, <4>2, <4>3
      <3> QED BY <2>1, <3>1, <3>2
    <2> QED BY <1>3, <2>1, <2>3 DEF DataTyped, FormsTyped, Drafts, Images
  <1>7. CASE ImageUploaded(u)
    <2> DEFINE phase == IF At(u, "answered") THEN "given" ELSE "lost"
               r == [up EXCEPT !.phase = phase]
    <2>1. /\ uploads' = [uploads EXCEPT ![u] = r]
          /\ loading' \in [Forms -> BOOLEAN]
      BY <1>2, <1>7 DEF ImageUploaded, UploadEnds, Mounted, DataTyped, FormsTyped
    <2>2. store' \in {store, store \cup {up.key}} /\ (store' # store => up.key \in Keys)
      BY <1>2, <1>7 DEF ImageUploaded, UploadEnds, At, UploadTyped
    <2>3. store' \subseteq Keys BY <2>2 DEF DataTyped, UploadsTyped
    <2>4. UploadTyped(r)
      <3>1. phase \notin {"head", "put"} OBVIOUS
      <3> HIDE DEF phase
      <3> QED BY <1>2, <3>1 DEF UploadTyped, UploadFields
    <2>5. \A g \in Forms : draft'[g] \in {draft[g], [text |-> up.text, image |-> up.url]}
      BY <1>2, <1>7 DEF ImageUploaded
    <2>6. \A g \in Forms : draft'[g] \in Drafts
      BY <1>2, <2>5 DEF UploadTyped, DataTyped, FormsTyped, Drafts, Images
    <2> HIDE DEF r
    <2>7. UploadsTyped' BY <1>4, <2>1, <2>3, <2>4
    <2> QED BY <1>3, <2>1, <2>6, <2>7 DEF DataTyped, FormsTyped, Drafts, Images
  <1> QED BY <1>1, <1>5, <1>6, <1>7

LEMMA DataKept ==
  ASSUME FormPagesInv, DataTyped, [Next]_vars PROVE DataTyped'
  <1>1. CASE Deliver
    <2>1. CASE UNCHANGED formVars BY <2>1, DataUnchanged DEF formVars
    <2>2. CASE Finalize(Head(notices).value)
      <3>1. PICK t \in DOMAIN txs : Finalize(t)
        <4>1. Head(notices).value \in DOMAIN txs BY <2>2, Zenon DEF Finalize, InPhase
        <4> QED BY <2>2, <4>1, Zenon
      <3>2. UNCHANGED <<mounts, uploadVars>> BY <3>1 DEF Finalize
      <3>3. \A g \in Forms : /\ typed'[g] \in {typed[g], 0}
                             /\ draft'[g] = draft[g] \/ draft'[g] = EmptyDraft(g)
        BY <3>1 DEF Finalize, FormPagesInv, DraftInv
      <3>4. \A g \in Forms : EmptyDraft(g) \in Drafts BY EmptyIsDraft
      <3>5. 0 \in 0 .. MaxTyped BY FormsAssumption
      <3>6. \A g \in Forms : typed'[g] \in 0 .. MaxTyped /\ draft'[g] \in Drafts
        BY <3>3, <3>4, <3>5 DEF DataTyped, FormsTyped
      <3> QED BY <3>2, <3>6 DEF DataTyped, FormsTyped, Drafts, UploadsTyped, UploadTyped, uploadVars, Images
    <2> QED BY <1>1, <2>1, <2>2 DEF Deliver
  <1>2. CASE TxStep
    <2>1. UNCHANGED <<mounts, typed, draft, uploadVars>>
      BY <1>2 DEF TxStep, GetFromAcct, Throw, Sign, Refuse, Drop, Include, InBlock, Final, formVars
    <2> QED BY <2>1, DataUnchanged
  <1>3. CASE UNCHANGED formVars
    BY <1>3, DataUnchanged DEF formVars
  <1>4. UserStep \/ UploadStep \/ TxStep \/ Deliver \/ UNCHANGED formVars
    BY DEF Next, Select, Foreign, vars
  <1> QED BY <1>1, <1>2, <1>3, <1>4, UserData, UploadData

\* Payers known to the chain and on their way, the account shown, the pair.
Payers == Accounts \cup {NoAccount}
AccountsTyped ==
    /\ account \in Accounts /\ pair \in Keyring
    /\ DOMAIN chain = ChainFields /\ chain.payer \in Payers
    /\ IsSeq(notices)
    /\ \A i \in DOMAIN notices : notices[i].kind = "storage" => notices[i].value.payer \in Payers

\* What is told next: a value whose payer is known, or a final block.
Telling(n) == n.kind = "storage" => n.value.payer \in Payers

LEMMA Told ==
  ASSUME AccountsTyped, UNCHANGED <<account, pair>>, DOMAIN chain' = ChainFields, chain'.payer \in Payers,
         NEW n, Telling(n), notices' = Append(notices, n)
  PROVE  AccountsTyped'
  <1>1. /\ IsSeq(notices') /\ Len(notices') = Len(notices) + 1
        /\ Len(notices) \in Nat /\ DOMAIN notices = 1 .. Len(notices)
        /\ \A i \in 1 .. Len(notices) : notices'[i] = notices[i]
        /\ notices'[Len(notices) + 1] = n
    BY Appended, SeqFacts DEF AccountsTyped
  <1>2. DOMAIN notices' = 1 .. Len(notices) + 1 BY <1>1, SeqFacts
  <1>3. \A i \in DOMAIN notices' : notices'[i].kind = "storage" => notices'[i].value.payer \in Payers
    BY <1>1, <1>2 DEF AccountsTyped, Telling
  <1> QED BY <1>1, <1>3 DEF AccountsTyped, Payers, ChainFields

LEMMA ChangedTyped ==
  ASSUME AccountsTyped, NEW f, NEW a \in Accounts
  PROVE  DOMAIN Changed(f, a) = ChainFields /\ Changed(f, a).payer \in Payers
  BY DEF AccountsTyped, Changed, ChainFields, Payers

LEMMA AccountsKept ==
  ASSUME FormPagesInv, StartsTyped, AccountsTyped, [Next]_vars PROVE AccountsTyped'
  <1>1. Keyring \subseteq Accounts BY FormPagesAssumption
  <1>2. CASE UNCHANGED <<chain, pageVars, notices>>
    BY <1>2 DEF AccountsTyped, pageVars, Payers, ChainFields, IsSeq
  <1>3. CASE \E a \in Accounts : Select(a)
    <2>1. PICK a \in Keyring : account' = a /\ pair' = PairOf(a) BY <1>3 DEF Select
    <2>2. UNCHANGED <<chain, notices>> BY <1>3 DEF Select
    <2> QED BY <1>1, <2>1, <2>2 DEF AccountsTyped, PairOf, Payers, ChainFields, IsSeq
  <1>4. CASE \E f \in Forms, a \in Accounts : Foreign(f, a)
    <2>1. PICK f \in Forms, a \in Accounts : Foreign(f, a) BY <1>4
    <2>2. /\ chain' = Changed(f, a) /\ notices' = Append(notices, Announce(chain'))
          /\ UNCHANGED <<account, pair>>
      BY <2>1 DEF Foreign, pageVars
    <2>3. DOMAIN chain' = ChainFields /\ chain'.payer \in Payers BY <2>2, ChangedTyped
    <2>4. Telling(Announce(chain')) BY <2>3 DEF Telling, Announce
    <2> QED BY <2>2, <2>3, <2>4, Told
  <1>5. CASE \E t \in DOMAIN txs : InBlock(t)
    <2>1. PICK t \in DOMAIN txs : InBlock(t) BY <1>5
    <2>2. UNCHANGED pageVars BY <2>1 DEF InBlock
    <2>3. CASE UNCHANGED <<chain, notices>> BY <1>2, <2>2, <2>3
    <2>4. CASE /\ chain' = Changed(txs[t].form, txs[t].from)
               /\ notices' = IF chain' = chain THEN notices ELSE Append(notices, Announce(chain'))
      <3>1. txs[t].from \in Accounts BY <1>1 DEF StartsTyped
      <3>2. DOMAIN chain' = ChainFields /\ chain'.payer \in Payers BY <2>4, <3>1, ChangedTyped
      <3>3. Telling(Announce(chain')) BY <3>2 DEF Telling, Announce
      <3>4. UNCHANGED <<account, pair>> BY <2>2 DEF pageVars
      <3>5. CASE chain' = chain BY <2>2, <2>3, <2>4, <3>5
      <3>6. CASE chain' # chain BY <2>4, <3>2, <3>3, <3>4, <3>6, Told
      <3> QED BY <3>5, <3>6
    <2> QED BY <2>1, <2>3, <2>4 DEF InBlock
  <1>6. CASE \E t \in DOMAIN txs : Final(t)
    <2>1. PICK t \in DOMAIN txs : Final(t) BY <1>6
    <2>2. notices' = Append(notices, FinalOf(t)) /\ UNCHANGED <<chain, account, pair>>
      BY <2>1 DEF Final, FinalOf, pageVars
    <2>3. Telling(FinalOf(t)) BY DEF Telling, FinalOf
    <2>4. DOMAIN chain' = ChainFields /\ chain'.payer \in Payers BY <2>2 DEF AccountsTyped
    <2> QED BY <2>2, <2>3, <2>4, Told
  <1>7. CASE Deliver
    <2>1. /\ Len(notices) >= 1 /\ Head(notices) = notices[1] /\ IsSeq(notices')
          /\ Len(notices) \in Nat /\ DOMAIN notices = 1 .. Len(notices)
          /\ Len(notices') = Len(notices) - 1
          /\ \A i \in 1 .. Len(notices) - 1 : notices'[i] = notices[i + 1]
      BY <1>7, Tailed, SeqFacts DEF Deliver, AccountsTyped
    <2>2. DOMAIN notices' = 1 .. Len(notices) - 1 BY <2>1, SeqFacts
    <2>3. \A i \in DOMAIN notices' : notices'[i].kind = "storage" => notices'[i].value.payer \in Payers
      <3> TAKE i \in DOMAIN notices'
      <3>1. i + 1 \in DOMAIN notices /\ notices'[i] = notices[i + 1] BY <2>1, <2>2
      <3> QED BY <3>1 DEF AccountsTyped
    <2>4. account' \in Accounts /\ pair' \in Keyring
      <3>1. CASE UNCHANGED pageVars BY <3>1 DEF pageVars, AccountsTyped
      <3>2. CASE Head(notices).kind = "storage" /\ ShowStorage(Head(notices).value)
        <4>1. Head(notices).value.payer \in Payers BY <2>1, <3>2 DEF AccountsTyped
        <4> QED BY <3>2, <4>1 DEF ShowStorage, PairOf, Payers, AccountsTyped
      <3> QED BY <1>7, <3>1, <3>2 DEF Deliver
    <2>5. chain' = chain BY <1>7 DEF Deliver
    <2> QED BY <2>1, <2>3, <2>4, <2>5 DEF AccountsTyped, Payers, ChainFields
  <1>8. \/ UNCHANGED <<chain, pageVars, notices>>
        \/ \E a \in Accounts : Select(a)
        \/ \E f \in Forms, a \in Accounts : Foreign(f, a)
        \/ \E t \in DOMAIN txs : InBlock(t) \/ Final(t)
        \/ Deliver
    BY DEF Next, UserStep, UploadStep, TxStep, Stay, Elsewhere, vars
  <1> QED BY <1>2, <1>3, <1>4, <1>5, <1>6, <1>7, <1>8

\* Transactions whose change may have been announced, and those whose final
\* block was.
Included == {t \in DOMAIN txs : txs[t].phase \in {"included", "finalized"}}
Announced == {t \in DOMAIN txs : txs[t].phase = "finalized"
                                 \/ \E i \in DOMAIN notices : notices[i] = FinalOf(t)}

QueueBounded ==
    /\ foreign \in Nat /\ foreign <= view.foreign
    /\ Len(notices) <= 1 + foreign + Cardinality(Included) + Cardinality(Announced)

LEMMA UpToFinite ==
  ASSUME NEW n \in Nat PROVE IsFiniteSet(1 .. n) /\ Cardinality(1 .. n) = n
  <1>1. 1 \in Int /\ n \in Int OBVIOUS
  <1>2. IsFiniteSet(1 .. n) /\ Cardinality(1 .. n) = IF 1 > n THEN 0 ELSE n - 1 + 1
    BY <1>1, FS_Interval
  <1> QED BY <1>2

LEMMA TwiceAtMost ==
  ASSUME NEW q \in Nat, NEW m \in Nat, NEW f \in Nat, NEW bound \in Nat, NEW len \in Nat,
         NEW a \in Nat, NEW b \in Nat, q <= 1 + f + a + b, a <= len, b <= len, len <= m, f <= bound
  PROVE  q <= 1 + bound + 2 * m
  OBVIOUS

LEMMA Counted ==
  ASSUME NEW s, IsSeq(s), NEW S, S \subseteq DOMAIN s
  PROVE  IsFiniteSet(S) /\ Cardinality(S) \in Nat /\ Cardinality(S) <= Len(s)
  <1>1. Len(s) \in Nat /\ DOMAIN s = 1 .. Len(s) BY SeqFacts
  <1>2. IsFiniteSet(1 .. Len(s)) /\ Cardinality(1 .. Len(s)) = Len(s)
    BY <1>1, UpToFinite
  <1>3. IsFiniteSet(S) /\ Cardinality(S) <= Cardinality(1 .. Len(s))
    BY <1>1, <1>2, FS_Subset
  <1> QED BY <1>2, <1>3, FS_CardinalityType

LEMMA CountGrows ==
  ASSUME NEW S, NEW T, IsFiniteSet(T), S \subseteq T
  PROVE  /\ Cardinality(S) \in Nat /\ Cardinality(T) \in Nat
         /\ Cardinality(S) <= Cardinality(T)
         /\ \A x \in T : x \notin S => Cardinality(S) + 1 <= Cardinality(T)
  <1>1. IsFiniteSet(S) /\ Cardinality(S) <= Cardinality(T) BY FS_Subset
  <1>2. Cardinality(S) \in Nat /\ Cardinality(T) \in Nat BY <1>1, FS_CardinalityType
  <1>3. ASSUME NEW x \in T, x \notin S PROVE Cardinality(S) + 1 <= Cardinality(T)
    <2>1. Cardinality(S \cup {x}) = Cardinality(S) + 1 BY <1>1, <1>3, FS_AddElement
    <2>2. Cardinality(S \cup {x}) <= Cardinality(T) BY <1>3, FS_Subset
    <2> QED BY <2>1, <2>2
  <1> QED BY <1>1, <1>2, <1>3

\* Transactions stay, in a block and final for good.
PhasesStay ==
    \A t \in DOMAIN txs :
        /\ t \in DOMAIN txs'
        /\ txs[t].phase = "finalized" => txs'[t].phase = "finalized"
        /\ txs[t].phase = "included" => txs'[t].phase \in {"included", "finalized"}

LEMMA PhasesKept ==
  ASSUME FormPagesInv, [Next]_vars PROVE PhasesStay /\ IsSeq(txs')
  <1>1. TxsInv /\ IsSeq(txs) BY DEF FormPagesInv, ButtonsInv, TxsInv
  <1>2. CASE txs' = txs BY <1>1, <1>2 DEF PhasesStay, IsSeq
  <1>3. CASE Started
    <2>1. PICK f : Press(f, pair, account) BY <1>3 DEF Started
    <2> QED BY <1>1, <2>1, PressAppends DEF PhasesStay
  <1>4. CASE \E t \in DOMAIN txs, phase \in Phases : MovesOn(t, phase)
    <2>1. PICK t \in DOMAIN txs, phase \in Phases : MovesOn(t, phase) BY <1>4
    <2>2. /\ IsSeq(txs') /\ DOMAIN txs' = DOMAIN txs
          /\ \A u \in DOMAIN txs : u # t => txs'[u] = txs[u]
          /\ txs'[t].phase = phase
      BY <1>1, <2>1, Moved DEF MovesOn
    <2> QED BY <2>1, <2>2 DEF PhasesStay, MovesOn
  <1> QED BY <1>2, <1>3, <1>4, TxsChange

LEMMA QueueKept ==
  ASSUME FormPagesInv, AccountsTyped, QueueBounded, [Next]_vars PROVE QueueBounded'
  <1>1. PhasesStay /\ IsSeq(txs') /\ IsSeq(txs)
    BY PhasesKept DEF FormPagesInv, ButtonsInv, TxsInv
  <1>2. view' = view
    BY DEF Next, UserStep, UploadStep, TxStep, Deliver, Select, Foreign, Stay, Elsewhere, InBlock,
           Final, vars
  <1>3. view.foreign \in Nat BY FormPagesAssumption DEF FormPagesInv
  <1>4. Included \subseteq Included' BY <1>1 DEF Included, PhasesStay
  <1> DEFINE N == Len(notices)
             I == Cardinality(Included)
             A == Cardinality(Announced)
             J == Cardinality(Included')
             B == Cardinality(Announced')
  <1>5. /\ IsFiniteSet(Included') /\ IsFiniteSet(Announced')
        /\ I \in Nat /\ A \in Nat /\ J \in Nat /\ B \in Nat /\ N \in Nat
    <2>1. Included \subseteq DOMAIN txs /\ Announced \subseteq DOMAIN txs
      BY DEF Included, Announced
    <2>2. Included' \subseteq DOMAIN txs' /\ Announced' \subseteq DOMAIN txs'
      BY DEF Included, Announced
    <2>3. N \in Nat BY SeqFacts DEF AccountsTyped
    <2> QED BY <1>1, <2>1, <2>2, <2>3, Counted
  <1>6. I <= J BY <1>4, <1>5, CountGrows
  <1>7. ASSUME \A i \in DOMAIN notices : notices[i] \in {notices'[j] : j \in DOMAIN notices'}
        PROVE  Announced \subseteq Announced' /\ A <= B
    <2>1. Announced \subseteq Announced'
      BY <1>1, <1>7 DEF Announced, PhasesStay, FinalOf
    <2> QED BY <1>5, <2>1, CountGrows
  <1>8. ASSUME NEW n, notices' = Append(notices, n)
        PROVE  /\ Len(notices') = N + 1 /\ Announced \subseteq Announced' /\ A <= B
               /\ n \in {notices'[j] : j \in DOMAIN notices'}
    <2>1. /\ IsSeq(notices') /\ Len(notices') = N + 1
          /\ DOMAIN notices = 1 .. N
          /\ \A i \in 1 .. N : notices'[i] = notices[i]
          /\ notices'[N + 1] = n
      BY <1>8, Appended, SeqFacts DEF AccountsTyped
    <2>2. DOMAIN notices' = 1 .. N + 1 BY <2>1, SeqFacts
    <2>3. \A i \in DOMAIN notices : notices[i] \in {notices'[j] : j \in DOMAIN notices'}
      BY <1>5, <2>1, <2>2
    <2>4. n \in {notices'[j] : j \in DOMAIN notices'} BY <1>5, <2>1, <2>2
    <2> QED BY <1>7, <2>1, <2>3, <2>4
  <1>9. foreign \in Nat /\ foreign <= view.foreign /\ N <= 1 + foreign + I + A
    BY DEF QueueBounded
  <1>10. SUFFICES /\ foreign' \in Nat /\ foreign' <= view.foreign
                  /\ Len(notices') <= 1 + foreign' + J + B
    BY <1>2 DEF QueueBounded
  <1> HIDE DEF N, I, A, J, B
  <1>11. CASE UNCHANGED <<notices, foreign>>
    <2>1. \A i \in DOMAIN notices : notices[i] \in {notices'[j] : j \in DOMAIN notices'}
      BY <1>11
    <2>2. A <= B BY <1>7, <2>1
    <2> QED BY <1>5, <1>6, <1>9, <1>11, <2>2 DEF N
  <1>12. CASE \E f \in Forms, a \in Accounts : Foreign(f, a)
    <2>1. PICK f \in Forms, a \in Accounts : Foreign(f, a) BY <1>12
    <2>2. /\ foreign < view.foreign /\ foreign' = foreign + 1
          /\ notices' = Append(notices, Announce(chain'))
      BY <2>1 DEF Foreign
    <2>3. Len(notices') = N + 1 /\ A <= B BY <1>8, <2>2
    <2> QED BY <1>3, <1>5, <1>6, <1>9, <2>2, <2>3
  <1>13. CASE \E t \in DOMAIN txs : InBlock(t)
    <2>1. PICK t \in DOMAIN txs : InBlock(t) BY <1>13
    <2>2. foreign' = foreign BY <2>1 DEF InBlock
    <2>3. CASE notices' = notices BY <1>11, <2>2, <2>3
    <2>4. CASE notices' = Append(notices, Announce(chain'))
      <3>1. Len(notices') = N + 1 /\ A <= B BY <1>8, <2>4
      <3>2. txs[t].phase = "sent" /\ Moves(t, "included")
        BY <2>1 DEF InBlock, Include, InPhase
      <3>3. t \in DOMAIN txs' /\ txs'[t].phase = "included"
        BY <3>2, Moved DEF FormPagesInv, ButtonsInv
      <3>4. t \in Included' /\ t \notin Included BY <3>2, <3>3 DEF Included
      <3>5. I + 1 <= J BY <1>4, <1>5, <3>4, CountGrows DEF I, J
      <3> QED BY <1>3, <1>5, <1>9, <2>2, <3>1, <3>5
    <2> QED BY <2>1, <2>3, <2>4 DEF InBlock
  <1>14. CASE \E t \in DOMAIN txs : Final(t)
    <2>1. PICK t \in DOMAIN txs : Final(t) BY <1>14
    <2>2. /\ foreign' = foreign /\ txs' = txs /\ txs[t].phase = "included"
          /\ notices' = Append(notices, FinalOf(t))
          /\ \A i \in DOMAIN notices : notices[i] # FinalOf(t)
      BY <2>1 DEF Final, FinalOf, InPhase, formVars
    <2>3. /\ Len(notices') = N + 1 /\ Announced \subseteq Announced'
          /\ FinalOf(t) \in {notices'[j] : j \in DOMAIN notices'}
      BY <1>8, <2>2
    <2>4. t \notin Announced BY <2>2 DEF Announced
    <2>5. t \in Announced' BY <2>2, <2>3 DEF Announced, FinalOf
    <2>6. A + 1 <= B BY <1>5, <2>3, <2>4, <2>5, CountGrows DEF A, B
    <2> QED BY <1>3, <1>5, <1>6, <1>9, <2>2, <2>3, <2>6
  <1>15. CASE Deliver
    <2>1. foreign' = foreign BY <1>15 DEF Deliver
    <2>2. /\ N >= 1 /\ Head(notices) = notices[1] /\ IsSeq(notices')
          /\ DOMAIN notices = 1 .. N /\ Len(notices') = N - 1
          /\ \A i \in 1 .. N - 1 : notices'[i] = notices[i + 1]
      BY <1>15, Tailed, SeqFacts DEF Deliver, AccountsTyped, N
    <2>3. DOMAIN notices' = 1 .. N - 1 BY <2>2, SeqFacts
    <2>4. ASSUME NEW t \in Announced PROVE t \in Announced'
      <3>1. t \in DOMAIN txs /\ t \in DOMAIN txs' BY <1>1 DEF Announced, PhasesStay
      <3>2. CASE txs[t].phase = "finalized" BY <1>1, <3>1, <3>2 DEF Announced, PhasesStay
      <3>3. CASE \E i \in DOMAIN notices : notices[i] = FinalOf(t)
        <4>1. PICK i \in 1 .. N : notices[i] = FinalOf(t) BY <2>2, <3>3
        <4>2. CASE i = 1
          <5>1. Head(notices) = FinalOf(t) BY <2>2, <4>1, <4>2
          <5>2. Finalize(t) BY <1>15, <5>1 DEF Deliver, FinalOf
          <5>3. txs'[t].phase = "finalized"
            BY <3>1, <5>2, Moved DEF Finalize, FormPagesInv, ButtonsInv
          <5> QED BY <3>1, <5>3 DEF Announced
        <4>3. CASE i # 1
          <5>1. i - 1 \in DOMAIN notices' /\ notices'[i - 1] = notices[i]
            BY <1>5, <2>2, <2>3, <4>1, <4>3
          <5> QED BY <3>1, <4>1, <5>1 DEF Announced, FinalOf
        <4> QED BY <4>2, <4>3
      <3> QED BY <3>2, <3>3 DEF Announced
    <2>5. A <= B
      <3>1. Announced \subseteq Announced' BY <2>4
      <3> QED BY <1>5, <3>1, CountGrows DEF A, B
    <2> QED BY <1>5, <1>6, <1>9, <2>1, <2>2, <2>5
  <1>16. \/ UNCHANGED <<notices, foreign>>
         \/ \E f \in Forms, a \in Accounts : Foreign(f, a)
         \/ \E t \in DOMAIN txs : InBlock(t) \/ Final(t)
         \/ Deliver
    BY DEF Next, UserStep, UploadStep, TxStep, Select, Stay, Elsewhere, vars
  <1> QED BY <1>11, <1>12, <1>13, <1>14, <1>15, <1>16

TypedInv == StartsTyped /\ DataTyped /\ AccountsTyped /\ QueueBounded

LEMMA TypedInitially == Init => TypedInv
  <1> SUFFICES ASSUME Init PROVE TypedInv OBVIOUS
  <1>1. /\ txs = <<>> /\ uploads = <<>> /\ store = {} /\ loading = [f \in Forms |-> FALSE]
        /\ mounts = [f \in Forms |-> 0] /\ typed = [f \in Forms |-> 0]
        /\ draft = [f \in Forms |-> EmptyDraft(f)]
    BY DEF Init, FormsInit, UploadsInit
  <1>2. /\ view \in Views /\ foreign = 0 /\ pair = account
        /\ chain = [status |-> view.status, payer |-> view.payer, dispute |-> view.dispute]
        /\ notices = <<Announce(chain)>>
        /\ account \in Keyring
    BY FormPagesAssumption DEF Init, Announce
  <1>3. DOMAIN txs = {} /\ DOMAIN uploads = {} /\ Len(txs) = 0 BY <1>1, NothingIn
  <1>4. MaxTyped \in Nat /\ MaxMounts \in Nat /\ MaxTxs \in Nat BY FormsAssumption
  <1>5. StartsTyped BY <1>3, <1>4 DEF StartsTyped
  <1>6. DataTyped
    <2>1. \A f \in Forms : EmptyDraft(f) \in Drafts BY EmptyIsDraft
    <2> QED BY <1>1, <1>3, <1>4, <2>1 DEF DataTyped, FormsTyped, UploadsTyped
  <1>7. IsSeq(notices) /\ Len(notices) = 1 /\ DOMAIN notices = {1} /\ notices[1] = Announce(chain)
    <2> DEFINE n == Announce(chain)
    <2>1. notices = <<n>> BY <1>2
    <2> HIDE DEF n
    <2>2. notices \in Seq({n}) /\ Len(notices) = 1 /\ notices[1] = n BY <2>1
    <2>3. IsSeq(notices) BY <2>2 DEF IsSeq
    <2>4. DOMAIN notices = 1 .. 1 BY <2>2, <2>3, SeqFacts
    <2> QED BY <2>2, <2>3, <2>4 DEF n
  <1>8. AccountsTyped
    <2>1. chain.payer \in Payers /\ DOMAIN chain = ChainFields
      BY <1>2, FormPagesAssumption DEF Payers, ChainFields
    <2> QED BY <1>2, <1>7, <2>1, FormPagesAssumption DEF AccountsTyped, Announce
  <1>9. QueueBounded
    <2>1. Included = {} /\ Announced = {} BY <1>3 DEF Included, Announced
    <2>2. Cardinality(Included) = 0 /\ Cardinality(Announced) = 0 BY <2>1, FS_EmptySet
    <2>3. view.foreign \in Nat BY <1>2, FormPagesAssumption
    <2> QED BY <1>2, <1>7, <2>2, <2>3 DEF QueueBounded
  <1> QED BY <1>5, <1>6, <1>8, <1>9 DEF TypedInv

(* What the forms, the uploads and the pages hold stays typed, whatever is *)
(* opened, typed, uploaded, sent and told; a page always has an account of *)
(* the chain and a pair of the keyring; and the socket never queues more   *)
(* than a change and a final block for each transaction                    *)
(* (ProcessPayment.js:46-82, 94-112).                                      *)
THEOREM FormPagesTyped == Spec => []FormPagesTypeOK
  <1>1. FormPagesInv /\ TypedInv /\ [Next]_vars => TypedInv'
    BY StartsKept, DataKept, AccountsKept, QueueKept DEF TypedInv, AccountsTyped
  <1>2. ASSUME FormPagesInv, TypedInv PROVE FormPagesTypeOK
    <2>1. ASSUME NEW f \in Forms
          PROVE  /\ open[f] \in BOOLEAN /\ busy[f] \in BOOLEAN /\ loading[f] \in BOOLEAN
                 /\ mounts[f] \in 0 .. MaxMounts /\ typed[f] \in 0 .. MaxTyped
                 /\ draft[f] \in [text : 0 .. MaxTyped, image : Images]
      <3>1. /\ open[f] \in BOOLEAN /\ busy[f] \in BOOLEAN /\ mounts[f] \in Nat
        BY <1>2 DEF FormPagesInv, ButtonsInv, TxsInv
      <3>2. /\ loading[f] \in BOOLEAN /\ mounts[f] <= MaxMounts /\ typed[f] \in 0 .. MaxTyped
            /\ draft[f] \in Drafts
        BY <1>2 DEF TypedInv, DataTyped, FormsTyped
      <3> QED BY <3>1, <3>2, FormsAssumption DEF Drafts
    <2>2. Len(notices) <= 1 + view.foreign + 2 * MaxTxs
      <3>1. IsSeq(txs) /\ Len(txs) <= MaxTxs /\ Len(txs) \in Nat
        BY <1>2, SeqFacts DEF FormPagesInv, ButtonsInv, TxsInv, TypedInv, StartsTyped
      <3>2. Included \subseteq DOMAIN txs /\ Announced \subseteq DOMAIN txs
        BY DEF Included, Announced
      <3>3. /\ Cardinality(Included) \in Nat /\ Cardinality(Included) <= Len(txs)
            /\ Cardinality(Announced) \in Nat /\ Cardinality(Announced) <= Len(txs)
        BY <3>1, <3>2, Counted
      <3>4. view.foreign \in Nat /\ MaxTxs \in Nat
        BY <1>2, FormPagesAssumption, FormsAssumption DEF FormPagesInv
      <3>5. Len(notices) \in Nat BY <1>2, SeqFacts DEF TypedInv, AccountsTyped
      <3>6. /\ foreign \in Nat /\ foreign <= view.foreign
            /\ Len(notices) <= 1 + foreign + Cardinality(Included) + Cardinality(Announced)
        BY <1>2 DEF TypedInv, QueueBounded
      <3> QED BY <3>1, <3>3, <3>4, <3>5, <3>6, TwiceAtMost
    <2> QED BY <1>2, <2>1, <2>2 DEF TypedInv, StartsTyped, DataTyped, UploadsTyped, AccountsTyped,
                                   FormPagesTypeOK
  <1> QED BY <1>1, <1>2, TypedInitially, FormPagesSafe, PTL DEF Spec
=============================================================================
