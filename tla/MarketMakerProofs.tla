------------------------- MODULE MarketMakerProofs -------------------------
(***************************************************************************)
(* Proofs about the market-maker bot, for any number of quotes, any prices *)
(* and any threshold: its type invariant, that listed quotes are funded,   *)
(* that withdrawals spare the rounds, and that it knows its deposits.      *)
(***************************************************************************)
EXTENDS MarketMaker, TLAPS

(***************************************************************************)
(* The inductive invariant.  The properties are not inductive: a cancel or *)
(* a deposit that is mined late, or whose receipt the bot is about to      *)
(* read, has to agree with the book, the locks and the escrow.             *)
(***************************************************************************)

\* The bot is waiting for its transaction, or has its receipt.
ReceiptAgrees ==
  bot # Asleep =>
    /\ bot.tx = "sent" => pendingTx = [kind |-> bot.pc, quote |-> bot.quote]
    /\ bot.tx = "mined" => pendingTx = NoTx

\* A quote being cancelled is out of the book and of the rounds.
CancelAgrees ==
  bot.pc = "cancelling" =>
    /\ active[bot.side] = bot.quote
    /\ book[bot.quote] \notin {"active", "absent"}
    /\ bot.quote \notin locked
    /\ bot.tx = "mined" => status[bot.quote] = "closed"

\* A quote being deposited is not listed, and if it is open, that is because
\* this attempt was mined or the receipt of an earlier one was lost.
DepositAgrees ==
  bot.pc = "depositing" =>
    /\ bot.job.kind = "refresh"
    /\ bot.quote = bot.job.ids[bot.side]
    /\ book[bot.quote] = "absent"
    /\ bot.tx = "mined" => status[bot.quote] = "open"
    /\ status[bot.quote] = "open" => bot.tx = "mined" \/ bot.quote \in forgotten

\* The ids a tick has still to deposit for are unused and differ.
IdsReserved ==
  bot # Asleep /\ bot.job.kind = "refresh" =>
    /\ bot.job.ids[1] # bot.job.ids[2]
    /\ \A s \in Side : bot.pc = "cancelling" \/ s > bot.side => bot.job.ids[s] \in Unused

\* A cancel in the mempool, however old, is of a delisted quote.
LateCancel ==
  pendingTx.kind = "cancelling" =>
    /\ book[pendingTx.quote] \notin {"active", "absent"}
    /\ pendingTx.quote \notin locked

\* A deposit in the mempool is the one awaited, or its receipt was lost.
LateDeposit ==
  pendingTx.kind = "depositing" =>
    \/ pendingTx.quote \in forgotten
    \/ bot.pc = "depositing" /\ bot.quote = pendingTx.quote /\ bot.tx = "sent"

\* What is tracked was listed, what was listed was deposited.
Deposited ==
  /\ \A s \in Side : active[s] # NoQuote => book[active[s]] # "absent"
  /\ \A q \in Quotes : book[q] # "absent" => status[q] # "none"

IInv ==
  /\ TypeOK
  /\ ReceiptAgrees /\ CancelAgrees /\ DepositAgrees /\ IdsReserved
  /\ LateCancel /\ LateDeposit /\ Deposited
  /\ ListedAreFunded /\ OpenAreKnown

(***************************************************************************)
(* What a coroutine step leads to: the tick ends, or the next cancel or    *)
(* deposit is awaited.                                                     *)
(***************************************************************************)

\* Where a tick of this job stands, deposits being due from side "from" on.
Resumed(job, from) ==
  \/ bot' = Asleep
  \/ \E s \in Side :
       /\ from = 1
       /\ active'[s] # NoQuote /\ active'[s] \notin locked' /\ book'[active'[s]] # "active"
       /\ bot' = Awaiting("cancelling", job, s, active'[s])
  \/ \E s \in Side : s >= from /\ job.can[s] /\ bot' = Awaiting("depositing", job, s, job.ids[s])

\* Min of sides that are left is one of them.
LEMMA MinSide ==
  ASSUME NEW todo \in SUBSET Side, todo # {}
  PROVE  Min(todo) \in todo
<1>1. \E x \in todo : \A y \in todo : x <= y
  <2>1. CASE 1 \in todo
    <3>1. \A y \in todo : 1 <= y
      BY DEF Side
    <3> QED BY <2>1, <3>1
  <2>2. CASE 1 \notin todo
    <3>1. \A y \in todo : y = 2
      BY <2>2 DEF Side
    <3>2. PICK x \in todo : TRUE
      OBVIOUS
    <3> QED BY <3>1, <3>2
  <2> QED BY <2>1, <2>2
<1> QED BY <1>1 DEF Min

\* DepositNext ends the tick or awaits a deposit, and keeps the type of quoted.
LEMMA DepositNextResumes ==
  ASSUME TypeOK, NEW job \in Job, NEW from \in 1..3, DepositNext(job, from)
  PROVE  /\ Resumed(job, from)
         /\ quoted' \in [mid : Mids \union {NoPrice}, can : [Side -> BOOLEAN]]
<1> DEFINE todo == {s \in Side : s >= from /\ job.can[s]}
<1>1. CASE todo = {}
  <2>1. EndTick(job)
    BY <1>1 DEF DepositNext
  <2>2. job.kind = "refresh" => job.mid \in Mids /\ job.can \in [Side -> BOOLEAN]
    BY DEF Job, Withdraw
  <2> QED BY <2>1, <2>2 DEF EndTick, Resumed, TypeOK
<1>2. CASE todo # {}
  <2>1. Min(todo) \in todo
    BY <1>2, MinSide
  <2>2. bot' = Awaiting("depositing", job, Min(todo), job.ids[Min(todo)]) /\ quoted' = quoted
    BY <1>2 DEF DepositNext
  <2> QED BY <2>1, <2>2 DEF Resumed, TypeOK
<1> QED BY <1>1, <1>2

\* CancelNext does so too, or awaits a cancel of a quote it has delisted; it
\* only delists.
LEMMA CancelNextResumes ==
  ASSUME TypeOK, NEW job \in Job, NEW from \in 1..3, CancelNext(job, from, active'),
         active' \in [Side -> Quotes \union {NoQuote}], locked' = locked
  PROVE  /\ Resumed(job, 1)
         /\ quoted' \in [mid : Mids \union {NoPrice}, can : [Side -> BOOLEAN]]
         /\ book' \in [Quotes -> {"absent", "active", "cancelled", "filled"}]
         /\ \A q \in Quotes : book'[q] # book[q] => book[q] = "active" /\ book'[q] = "cancelled"
<1> DEFINE todo == {s \in Side : s >= from /\ active'[s] # NoQuote /\ MayCancel(active'[s])}
<1>1. CASE todo = {}
  <2>1. DepositNext(job, 1) /\ book' = book
    BY <1>1 DEF CancelNext
  <2> QED BY <2>1, DepositNextResumes DEF TypeOK
<1>2. CASE todo # {}
  <2> DEFINE side == Min(todo)
  <2>1. side \in todo
    BY <1>2, MinSide
  <2>2. /\ bot' = Awaiting("cancelling", job, side, active'[side])
        /\ book' = Delist(active'[side])
        /\ quoted' = quoted
    BY <1>2 DEF CancelNext
  <2> HIDE DEF side
  <2>3. side \in Side /\ active'[side] \in Quotes /\ active'[side] \notin locked'
    BY <2>1 DEF MayCancel, NoQuote
  <2>4. book'[active'[side]] # "active"
    BY <2>2, <2>3 DEF Delist, TypeOK
  <2>5. Resumed(job, 1)
    BY <2>2, <2>3, <2>4 DEF Resumed, NoQuote, Quotes
  <2> QED BY <2>2, <2>3, <2>5 DEF Delist, TypeOK
<1> QED BY <1>1, <1>2

\* Wherever a tick stands, the conjuncts about the coroutine hold, if the ids
\* it still needs are unused.
LEMMA ResumedAgrees ==
  ASSUME NEW job \in Job, NEW from \in 1..3, Resumed(job, from), Deposited',
         active' \in [Side -> Quotes \union {NoQuote}],
         job.kind = "refresh" =>
           job.ids[1] # job.ids[2] /\ \A s \in Side : s >= from => job.ids[s] \in Unused'
  PROVE  /\ bot' \in {Asleep} \union Awaited
         /\ ReceiptAgrees' /\ CancelAgrees' /\ DepositAgrees' /\ IdsReserved'
         /\ bot' # Asleep => bot'.tx = "unsent"
<1>1. CASE bot' = Asleep
  BY <1>1 DEF Asleep, ReceiptAgrees, CancelAgrees, DepositAgrees, IdsReserved
<1>2. ASSUME NEW s \in Side, from = 1,
             active'[s] # NoQuote, active'[s] \notin locked', book'[active'[s]] # "active",
             bot' = Awaiting("cancelling", job, s, active'[s])
      PROVE  /\ bot' \in Awaited
             /\ ReceiptAgrees' /\ CancelAgrees' /\ DepositAgrees' /\ IdsReserved'
             /\ bot'.tx = "unsent"
  <2>1. bot' \in Awaited
    BY <1>2 DEF Awaiting, Awaited, ATTEMPTS
  <2>2. book'[active'[s]] # "absent"
    BY <1>2 DEF Deposited
  <2> QED BY <1>2, <2>1, <2>2 DEF Awaiting, Asleep, ReceiptAgrees, CancelAgrees, DepositAgrees,
                                  IdsReserved, Side
<1>3. ASSUME NEW s \in Side, s >= from, job.can[s],
             bot' = Awaiting("depositing", job, s, job.ids[s])
      PROVE  /\ bot' \in Awaited
             /\ ReceiptAgrees' /\ CancelAgrees' /\ DepositAgrees' /\ IdsReserved'
             /\ bot'.tx = "unsent"
  <2>1. job.kind = "refresh" /\ job.ids[s] \in Quotes
    BY <1>3 DEF Job, Withdraw
  <2>2. bot' \in Awaited
    BY <1>3, <2>1 DEF Awaiting, Awaited, ATTEMPTS
  <2>3. job.ids[s] \in Unused'
    BY <1>3, <2>1
  <2>4. status'[job.ids[s]] = "none" /\ book'[job.ids[s]] = "absent"
    BY <2>1, <2>3 DEF Unused, Deposited
  <2>5. DepositAgrees'
    BY <1>3, <2>1, <2>4 DEF Awaiting, DepositAgrees
  <2>6. IdsReserved'
    BY <1>3, <2>1 DEF Awaiting, IdsReserved, Side
  <2> QED BY <1>3, <2>2, <2>5, <2>6 DEF Awaiting, ReceiptAgrees, CancelAgrees
<1> QED BY <1>1, <1>2, <1>3 DEF Resumed

(***************************************************************************)
(* The invariant is preserved.                                             *)
(***************************************************************************)

\* It holds initially.
LEMMA InitIInv == Init => IInv
<1> SUFFICES ASSUME Init PROVE IInv
  OBVIOUS
<1> USE DEF Init, Asleep, NoTx, NoQuote, NoPrice, Quotes, Side
<1>1. TypeOK
  BY DEF TypeOK
<1>2. ReceiptAgrees /\ CancelAgrees /\ DepositAgrees /\ IdsReserved /\ LateCancel /\ LateDeposit
  BY DEF ReceiptAgrees, CancelAgrees, DepositAgrees, IdsReserved, LateCancel, LateDeposit
<1>3. Deposited /\ ListedAreFunded /\ OpenAreKnown
  BY DEF Deposited, ListedAreFunded, OpenAreKnown
<1> QED BY <1>1, <1>2, <1>3 DEF IInv

\* A tick that starts only delists and awaits.
LEMMA TickKeeps ==
  ASSUME IInv, NEW job \in Job, bot = Asleep, CancelNext(job, 1, active),
         job.kind = "refresh" => job.ids \in FreshIds,
         UNCHANGED <<active, locked, status, pendingTx, forgotten>>
  PROVE  IInv'
<1> USE DEF IInv
<1>1. /\ Resumed(job, 1)
      /\ quoted' \in [mid : Mids \union {NoPrice}, can : [Side -> BOOLEAN]]
      /\ book' \in [Quotes -> {"absent", "active", "cancelled", "filled"}]
      /\ \A q \in Quotes : book'[q] # book[q] => book[q] = "active" /\ book'[q] = "cancelled"
  BY CancelNextResumes DEF TypeOK
<1>2. Deposited' /\ ListedAreFunded'
  BY <1>1 DEF Deposited, ListedAreFunded, TypeOK
<1>3. /\ bot' \in {Asleep} \union Awaited
      /\ ReceiptAgrees' /\ CancelAgrees' /\ DepositAgrees' /\ IdsReserved'
      /\ bot' # Asleep => bot'.tx = "unsent"
  <2>1. job.kind = "refresh" =>
          job.ids[1] # job.ids[2] /\ \A s \in Side : s >= 1 => job.ids[s] \in Unused'
    BY DEF FreshIds, Unused
  <2> QED BY <1>1, <1>2, <2>1, ResumedAgrees DEF TypeOK
<1>4. TypeOK'
  BY <1>1, <1>3 DEF TypeOK
<1>5. LateCancel' /\ LateDeposit'
  BY <1>1 DEF LateCancel, LateDeposit, TypeOK, Asleep, NoTx
<1>6. OpenAreKnown'
  BY DEF OpenAreKnown, Asleep
<1> QED BY <1>2, <1>3, <1>4, <1>5, <1>6

\* The transaction is sent: it becomes the pending one.
LEMMA SendKeeps == IInv /\ Send => IInv'
<1> SUFFICES ASSUME IInv, Send PROVE IInv'
  OBVIOUS
<1> USE DEF IInv
<1>1. /\ bot \in Awaited /\ bot.tx = "unsent" /\ pendingTx = NoTx
      /\ bot' = [bot EXCEPT !.tx = "sent"]
      /\ pendingTx' = [kind |-> bot.pc, quote |-> bot.quote]
      /\ UNCHANGED <<active, quoted, book, locked, status, forgotten>>
  BY DEF Send, TypeOK, Asleep
<1>2. bot' \in Awaited /\ bot' # Asleep
  BY <1>1 DEF Awaited, Asleep
<1>3. TypeOK'
  BY <1>1, <1>2 DEF TypeOK, Awaited
<1>4. ReceiptAgrees' /\ CancelAgrees' /\ DepositAgrees'
  BY <1>1 DEF ReceiptAgrees, CancelAgrees, DepositAgrees, Awaited
<1>5. IdsReserved'
  <2>1. CASE bot.pc = "cancelling"
    BY <1>1, <2>1 DEF IdsReserved, Unused, Awaited, CancelAgrees, Deposited, Asleep
  <2>2. CASE bot.pc = "depositing"
    BY <1>1, <2>2 DEF IdsReserved, Unused, Awaited, DepositAgrees, Asleep, Side
  <2> QED BY <1>1, <2>1, <2>2 DEF Awaited
<1>6. LateCancel' /\ LateDeposit'
  BY <1>1 DEF LateCancel, LateDeposit, CancelAgrees, Awaited
<1>7. Deposited' /\ ListedAreFunded' /\ OpenAreKnown'
  BY <1>1 DEF Deposited, ListedAreFunded, OpenAreKnown, Awaited
<1> QED BY <1>3, <1>4, <1>5, <1>6, <1>7

\* The chain executes the pending transaction, awaited or not.
LEMMA MineKeeps == IInv /\ Mine => IInv'
<1> SUFFICES ASSUME IInv, Mine PROVE IInv'
  OBVIOUS
<1> USE DEF IInv
<1> DEFINE q == pendingTx.quote
           deposits == pendingTx.kind = "depositing"
           succeeds == status[q] = IF deposits THEN "none" ELSE "open"
<1>1. /\ pendingTx' = NoTx
      /\ pendingTx \in [kind : {"cancelling", "depositing"}, quote : Quotes]
      /\ status' = IF succeeds THEN [status EXCEPT ![q] = IF deposits THEN "open" ELSE "closed"]
                   ELSE status
      /\ bot' = IF bot.pc # "asleep" /\ bot.tx = "sent"
                THEN [bot EXCEPT !.tx = IF succeeds THEN "mined" ELSE "reverted"] ELSE bot
      /\ UNCHANGED <<active, quoted, book, locked, forgotten>>
  BY DEF Mine, TypeOK
<1>2. \/ bot' = bot /\ (bot = Asleep \/ (bot \in Awaited /\ bot.tx # "sent"))
      \/ /\ bot \in Awaited /\ bot' \in Awaited
         /\ bot.tx = "sent" /\ bot'.tx = IF succeeds THEN "mined" ELSE "reverted"
         /\ bot'.pc = bot.pc /\ bot'.job = bot.job /\ bot'.side = bot.side /\ bot'.quote = bot.quote
         /\ pendingTx = [kind |-> bot.pc, quote |-> bot.quote]
  <2>1. CASE bot = Asleep
    BY <1>1, <2>1 DEF Asleep
  <2>2. CASE bot \in Awaited /\ bot.tx # "sent"
    BY <1>1, <2>2
  <2>3. CASE bot \in Awaited /\ bot.tx = "sent"
    <3>1. bot.pc # "asleep" /\ bot # Asleep
      BY <2>3 DEF Awaited, Asleep
    <3>2. CASE succeeds
      BY <1>1, <2>3, <3>1, <3>2 DEF Awaited, ReceiptAgrees
    <3>3. CASE ~succeeds
      BY <1>1, <2>3, <3>1, <3>3 DEF Awaited, ReceiptAgrees
    <3> QED BY <3>2, <3>3
  <2> QED BY <2>1, <2>2, <2>3 DEF TypeOK
<1>3. /\ status' \in [Quotes -> {"none", "open", "closed"}]
      /\ \A o \in Quotes : o # q => status'[o] = status[o]
      /\ deposits => status'[q] = IF succeeds THEN "open" ELSE status[q]
      /\ ~deposits => status'[q] = IF succeeds THEN "closed" ELSE status[q]
      /\ q \in Quotes
  BY <1>1 DEF TypeOK
<1>4. deposits \/ pendingTx.kind = "cancelling"
  BY <1>1
<1> HIDE DEF deposits, succeeds, q
<1>5. TypeOK'
  BY <1>1, <1>2, <1>3 DEF TypeOK
<1>6. ReceiptAgrees'
  BY <1>1, <1>2 DEF ReceiptAgrees
<1>7. CancelAgrees'
  BY <1>1, <1>2, <1>3, <1>4 DEF CancelAgrees, Asleep, Awaited, deposits, succeeds, q
<1>8. DepositAgrees'
  <2>1. CASE bot' = bot /\ bot = Asleep
    BY <2>1 DEF DepositAgrees, Asleep
  <2>2. CASE bot' = bot /\ bot \in Awaited /\ bot.tx # "sent"
    <3> SUFFICES ASSUME bot.pc = "depositing"
                 PROVE  DepositAgrees'
      BY <2>2 DEF DepositAgrees
    <3>1. bot.quote \in Quotes
      BY <2>2 DEF Awaited
    <3>2. CASE bot.quote = q
      <4>1. deposits => q \in forgotten
        BY <2>2 DEF LateDeposit, deposits, q
      <4>2. ~deposits => book[q] # "absent"
        BY <1>4 DEF LateCancel, q
      <4>3. book[q] = "absent" /\ (bot.tx = "mined" => status[q] = "open")
        BY <3>2 DEF DepositAgrees
      <4>4. bot.tx = "mined" => status'[q] = "open"
        BY <1>3, <4>2, <4>3 DEF succeeds
      <4> QED BY <1>1, <2>2, <3>2, <4>1, <4>2, <4>3, <4>4 DEF DepositAgrees
    <3>3. CASE bot.quote # q
      BY <1>1, <1>3, <2>2, <3>1, <3>3 DEF DepositAgrees
    <3> QED BY <3>2, <3>3
  <2>3. CASE /\ bot \in Awaited /\ bot' \in Awaited
             /\ bot.tx = "sent" /\ bot'.tx = IF succeeds THEN "mined" ELSE "reverted"
             /\ bot'.pc = bot.pc /\ bot'.job = bot.job /\ bot'.side = bot.side /\ bot'.quote = bot.quote
             /\ pendingTx = [kind |-> bot.pc, quote |-> bot.quote]
    <3>1. bot.pc = "depositing" => deposits /\ q = bot.quote
      BY <2>3 DEF deposits, q
    <3> QED BY <1>1, <1>3, <2>3, <3>1 DEF DepositAgrees
  <2> QED BY <1>2, <2>1, <2>2, <2>3
<1>9. IdsReserved'
  BY <1>1, <1>2, <1>3 DEF IdsReserved, Unused, Asleep, q, NoTx, NoQuote, Quotes
<1>10. LateCancel' /\ LateDeposit'
  BY <1>1 DEF LateCancel, LateDeposit, NoTx
<1>11. Deposited'
  BY <1>1, <1>3, <1>4 DEF Deposited, succeeds
<1>12. ListedAreFunded'
  BY <1>1, <1>3, <1>4 DEF ListedAreFunded, LateCancel, deposits, succeeds, q
<1>13. OpenAreKnown'
  BY <1>1, <1>2, <1>3, <1>4 DEF OpenAreKnown, LateDeposit, Asleep, deposits, succeeds, q
<1> QED BY <1>5, <1>6, <1>7, <1>8, <1>9, <1>10, <1>11, <1>12, <1>13

\* An attempt that failed: the deposit it may have left behind is forgotten.
LEMMA AttemptFailsKeeps ==
  ASSUME IInv, bot \in Awaited, AttemptFails,
         UNCHANGED <<locked, status, pendingTx>>,
         \/ forgotten' = forgotten
         \/ bot.pc = "depositing" /\ forgotten' = forgotten \union {bot.quote},
         pendingTx.kind = "depositing" => pendingTx.quote \in forgotten',
         bot.pc = "depositing" /\ status[bot.quote] = "open" => bot.quote \in forgotten'
  PROVE  IInv'
<1> USE DEF IInv
<1>1. /\ bot.pc \in {"cancelling", "depositing"} /\ bot.job \in Job /\ bot.side \in Side
      /\ bot.quote \in Quotes /\ bot.attempt \in 1..ATTEMPTS /\ bot # Asleep
      /\ forgotten' \subseteq Quotes /\ forgotten \subseteq forgotten'
  BY DEF Awaited, Asleep, TypeOK
<1>2. /\ bot.pc = "cancelling" => \A s \in Side : bot.job.kind = "refresh" => bot.job.ids[s] \in Unused'
      /\ bot.pc = "depositing" => \A s \in Side : s > bot.side => bot.job.ids[s] \in Unused'
      /\ bot.job.kind = "refresh" => bot.job.ids[1] # bot.job.ids[2]
  <2>1. CASE bot.pc = "cancelling"
    BY <1>1, <2>1 DEF IdsReserved, Unused
  <2>2. CASE bot.pc = "depositing"
    <3>1. bot.job.kind = "refresh" /\ bot.quote = bot.job.ids[bot.side]
      BY <2>2 DEF DepositAgrees
    <3>2. \A s \in Side : s > bot.side => bot.job.ids[s] \in Unused /\ bot.job.ids[s] # bot.quote
      BY <1>1, <3>1 DEF IdsReserved, Side
    <3>3. \A o \in Unused : o # bot.quote => o \in Unused'
      BY DEF Unused
    <3> QED BY <1>1, <2>2, <3>1, <3>2, <3>3 DEF IdsReserved
  <2> QED BY <1>1, <2>1, <2>2
<1>3. CASE ~LastAttempt
  <2>1. bot' = NextAttempt /\ UNCHANGED <<active, quoted, book>>
    BY <1>3 DEF AttemptFails
  <2>2. /\ bot' \in Awaited /\ bot' # Asleep /\ bot'.tx = "unsent"
        /\ bot'.pc = bot.pc /\ bot'.job = bot.job /\ bot'.side = bot.side /\ bot'.quote = bot.quote
    <3>1. bot.attempt + 1 \in 1..ATTEMPTS
      BY <1>1, <1>3 DEF LastAttempt, ATTEMPTS
    <3>2. bot' = [bot EXCEPT !.attempt = bot.attempt + 1, !.tx = "unsent"]
      BY <2>1 DEF NextAttempt
    <3>3. bot' \in Awaited
      BY <3>1, <3>2 DEF Awaited
    <3>4. /\ bot'.tx = "unsent"
          /\ bot'.pc = bot.pc /\ bot'.job = bot.job /\ bot'.side = bot.side /\ bot'.quote = bot.quote
      BY <3>2 DEF Awaited
    <3> QED BY <1>1, <3>3, <3>4 DEF Asleep
  <2>3. TypeOK'
    BY <1>1, <2>1, <2>2 DEF TypeOK
  <2>4. ReceiptAgrees' /\ CancelAgrees' /\ DepositAgrees'
    <3>1. ReceiptAgrees'
      BY <2>2 DEF ReceiptAgrees
    <3>2. CancelAgrees'
      BY <2>1, <2>2 DEF CancelAgrees
    <3>3. DepositAgrees'
      BY <2>1, <2>2 DEF DepositAgrees
    <3> QED BY <3>1, <3>2, <3>3
  <2>5. IdsReserved'
    BY <1>1, <1>2, <2>2 DEF IdsReserved
  <2>6. LateCancel' /\ LateDeposit' /\ Deposited' /\ ListedAreFunded'
    BY <2>1 DEF LateCancel, LateDeposit, Deposited, ListedAreFunded
  <2>7. OpenAreKnown'
    BY <1>1, <2>1, <2>2 DEF OpenAreKnown
  <2> QED BY <2>3, <2>4, <2>5, <2>6, <2>7
<1>4. CASE LastAttempt
  <2>1. /\ active' = active
        /\ \E from \in 1..3 :
             /\ Resumed(bot.job, from)
             /\ bot.job.kind = "refresh" => \A s \in Side : s >= from => bot.job.ids[s] \in Unused'
        /\ quoted' \in [mid : Mids \union {NoPrice}, can : [Side -> BOOLEAN]]
        /\ book' \in [Quotes -> {"absent", "active", "cancelled", "filled"}]
        /\ \A q \in Quotes : book'[q] # book[q] => book[q] = "active" /\ book'[q] = "cancelled"
    <3>1. bot.side + 1 \in 1..3 /\ 1 \in 1..3
      BY <1>1 DEF Side
    <3>2. CASE bot.pc = "cancelling"
      <4>1. active' = active /\ CancelNext(bot.job, bot.side + 1, active')
        BY <1>4, <3>2 DEF AttemptFails, Kept
      <4>2. active' \in [Side -> Quotes \union {NoQuote}]
        BY <4>1 DEF TypeOK
      <4>3. /\ Resumed(bot.job, 1)
            /\ quoted' \in [mid : Mids \union {NoPrice}, can : [Side -> BOOLEAN]]
            /\ book' \in [Quotes -> {"absent", "active", "cancelled", "filled"}]
            /\ \A q \in Quotes : book'[q] # book[q] => book[q] = "active" /\ book'[q] = "cancelled"
        BY <1>1, <3>1, <4>1, <4>2, CancelNextResumes
      <4> QED BY <1>2, <3>1, <3>2, <4>1, <4>3
    <3>3. CASE bot.pc = "depositing"
      <4>1. UNCHANGED <<active, book>> /\ DepositNext(bot.job, bot.side + 1)
        BY <1>4, <3>3 DEF AttemptFails
      <4>2. /\ Resumed(bot.job, bot.side + 1)
            /\ quoted' \in [mid : Mids \union {NoPrice}, can : [Side -> BOOLEAN]]
        BY <1>1, <3>1, <4>1, DepositNextResumes
      <4>3. \A s \in Side : s >= bot.side + 1 => bot.job.ids[s] \in Unused'
        BY <1>1, <1>2, <3>3 DEF Side
      <4> QED BY <3>1, <4>1, <4>2, <4>3 DEF TypeOK
    <3> QED BY <1>1, <3>2, <3>3
  <2>2. Deposited' /\ ListedAreFunded'
    BY <2>1 DEF Deposited, ListedAreFunded, TypeOK
  <2>3. /\ bot' \in {Asleep} \union Awaited
        /\ ReceiptAgrees' /\ CancelAgrees' /\ DepositAgrees' /\ IdsReserved'
    BY <1>1, <1>2, <2>1, <2>2, ResumedAgrees DEF TypeOK
  <2>4. TypeOK'
    BY <1>1, <2>1, <2>3 DEF TypeOK
  <2>5. LateCancel' /\ LateDeposit'
    BY <2>1 DEF LateCancel, LateDeposit, TypeOK, NoTx
  <2>6. OpenAreKnown'
    BY <1>1, <2>1 DEF OpenAreKnown
  <2> QED BY <2>2, <2>3, <2>4, <2>5, <2>6
<1> QED BY <1>3, <1>4

\* Nothing was sent, or what was sent reverted: no deposit is left behind.
LEMMA GetNoHashKeeps == IInv /\ GetNoHash => IInv'
<1> SUFFICES ASSUME IInv, GetNoHash PROVE IInv'
  OBVIOUS
<1>1. bot \in Awaited /\ bot.tx \in {"unsent", "reverted"}
  BY DEF IInv, TypeOK, GetNoHash, Asleep
<1>2. AttemptFails /\ UNCHANGED <<locked, status, pendingTx, forgotten>>
  BY DEF GetNoHash
<1>3. pendingTx.kind = "depositing" => pendingTx.quote \in forgotten'
  BY <1>1, <1>2 DEF IInv, LateDeposit
<1>4. bot.pc = "depositing" /\ status[bot.quote] = "open" => bot.quote \in forgotten'
  BY <1>1, <1>2 DEF IInv, DepositAgrees
<1> QED BY <1>1, <1>2, <1>3, <1>4, AttemptFailsKeeps

\* The receipt is lost: the deposit may be mined, or be mined later.
LEMMA LoseReceiptKeeps == IInv /\ LoseReceipt => IInv'
<1> SUFFICES ASSUME IInv, LoseReceipt PROVE IInv'
  OBVIOUS
<1>1. bot \in Awaited
  BY DEF IInv, TypeOK, LoseReceipt, Asleep
<1>2. /\ AttemptFails /\ UNCHANGED <<locked, status, pendingTx>>
      /\ forgotten' = IF bot.pc = "depositing" THEN forgotten \union {bot.quote} ELSE forgotten
  BY DEF LoseReceipt
<1>3. pendingTx.kind = "depositing" => pendingTx.quote \in forgotten'
  BY <1>2 DEF IInv, LateDeposit
<1> QED BY <1>1, <1>2, <1>3, AttemptFailsKeeps

\* A deposit given up by an exception was never sent in this attempt.
LEMMA DepositRaisesKeeps == IInv /\ DepositRaises => IInv'
<1> SUFFICES ASSUME IInv, DepositRaises PROVE IInv'
  OBVIOUS
<1> USE DEF IInv
<1>1. /\ bot.pc = "depositing" /\ bot.tx = "unsent" /\ bot' = Asleep
      /\ UNCHANGED <<active, quoted, book, locked, status, pendingTx, forgotten>>
  BY DEF DepositRaises
<1>2. TypeOK'
  BY <1>1 DEF TypeOK
<1>3. ReceiptAgrees' /\ CancelAgrees' /\ DepositAgrees' /\ IdsReserved'
  BY <1>1 DEF ReceiptAgrees, CancelAgrees, DepositAgrees, IdsReserved, Asleep
<1>4. LateCancel' /\ LateDeposit' /\ Deposited' /\ ListedAreFunded'
  BY <1>1 DEF LateCancel, LateDeposit, Deposited, ListedAreFunded
<1>5. OpenAreKnown'
  BY <1>1 DEF OpenAreKnown, DepositAgrees
<1> QED BY <1>2, <1>3, <1>4, <1>5

\* A confirmed cancel closed the quote, so it need not be tracked.
LEMMA CancelConfirmedKeeps == IInv /\ CancelConfirmed => IInv'
<1> SUFFICES ASSUME IInv, CancelConfirmed PROVE IInv'
  OBVIOUS
<1> USE DEF IInv
<1>1. /\ bot.pc = "cancelling" /\ bot.tx = "mined"
      /\ active' = [active EXCEPT ![bot.side] = NoQuote]
      /\ CancelNext(bot.job, bot.side + 1, active')
      /\ UNCHANGED <<locked, status, pendingTx, forgotten>>
  BY DEF CancelConfirmed
<1>2. bot \in Awaited /\ bot # Asleep
  BY <1>1 DEF TypeOK, Asleep
<1>3. bot.job \in Job /\ bot.side \in Side /\ bot.quote \in Quotes
  BY <1>2 DEF Awaited
<1>4. bot.side + 1 \in 1..3 /\ active' \in [Side -> Quotes \union {NoQuote}]
  BY <1>1, <1>3 DEF TypeOK, Side
<1>5. /\ Resumed(bot.job, 1)
      /\ quoted' \in [mid : Mids \union {NoPrice}, can : [Side -> BOOLEAN]]
      /\ book' \in [Quotes -> {"absent", "active", "cancelled", "filled"}]
      /\ \A q \in Quotes : book'[q] # book[q] => book[q] = "active" /\ book'[q] = "cancelled"
  BY <1>1, <1>3, <1>4, CancelNextResumes
<1>6. Deposited' /\ ListedAreFunded'
  BY <1>1, <1>3, <1>4, <1>5 DEF Deposited, ListedAreFunded, TypeOK
<1>7. /\ bot' \in {Asleep} \union Awaited
      /\ ReceiptAgrees' /\ CancelAgrees' /\ DepositAgrees' /\ IdsReserved'
  <2>1. bot.job.kind = "refresh" =>
          bot.job.ids[1] # bot.job.ids[2] /\ \A s \in Side : s >= 1 => bot.job.ids[s] \in Unused'
    BY <1>1, <1>2 DEF IdsReserved, Unused
  <2> QED BY <1>3, <1>4, <1>5, <1>6, <2>1, ResumedAgrees
<1>8. TypeOK'
  BY <1>1, <1>4, <1>5, <1>7 DEF TypeOK
<1>9. LateCancel' /\ LateDeposit'
  BY <1>1, <1>2 DEF ReceiptAgrees, LateCancel, LateDeposit, NoTx
<1>10. OpenAreKnown'
  <2>1. status[bot.quote] = "closed" /\ active[bot.side] = bot.quote
    BY <1>1 DEF CancelAgrees
  <2>2. \A q \in Quotes, s \in Side : status[q] = "open" /\ active[s] = q => active'[s] = q
    BY <1>1, <1>3, <2>1 DEF TypeOK
  <2> QED BY <1>1, <2>2 DEF OpenAreKnown
<1> QED BY <1>6, <1>7, <1>8, <1>9, <1>10

\* A confirmed deposit is open, so it can be listed; what it replaces was
\* listed, so it is not an id that is still reserved.
LEMMA DepositConfirmedKeeps == IInv /\ DepositConfirmed => IInv'
<1> SUFFICES ASSUME IInv, DepositConfirmed PROVE IInv'
  OBVIOUS
<1> USE DEF IInv
<1>1. /\ bot.pc = "depositing" /\ bot.tx = "mined"
      /\ book' = [book EXCEPT ![bot.quote] = "active"]
      /\ active' = [active EXCEPT ![bot.side] = bot.quote]
      /\ forgotten' = forgotten \union ({active[bot.side]} \ {NoQuote})
      /\ DepositNext(bot.job, bot.side + 1)
      /\ UNCHANGED <<locked, status, pendingTx>>
  BY DEF DepositConfirmed
<1>2. bot \in Awaited /\ bot # Asleep
  BY <1>1 DEF TypeOK, Asleep
<1>3. /\ bot.job \in Job /\ bot.side \in Side /\ bot.quote \in Quotes
      /\ bot.quote # NoQuote /\ bot.side + 1 \in 1..3
  BY <1>2 DEF Awaited, Side, Quotes, NoQuote
<1>4. /\ book' \in [Quotes -> {"absent", "active", "cancelled", "filled"}]
      /\ active' \in [Side -> Quotes \union {NoQuote}]
      /\ forgotten' \subseteq Quotes
  BY <1>1, <1>3 DEF TypeOK
<1>5. /\ Resumed(bot.job, bot.side + 1)
      /\ quoted' \in [mid : Mids \union {NoPrice}, can : [Side -> BOOLEAN]]
  BY <1>1, <1>3, DepositNextResumes
<1>6. status[bot.quote] = "open" /\ pendingTx = NoTx /\ bot.job.kind = "refresh"
  BY <1>1, <1>2 DEF DepositAgrees, ReceiptAgrees
<1>7. Deposited' /\ ListedAreFunded'
  BY <1>1, <1>3, <1>6 DEF Deposited, ListedAreFunded, TypeOK
<1>8. /\ bot' \in {Asleep} \union Awaited
      /\ ReceiptAgrees' /\ CancelAgrees' /\ DepositAgrees' /\ IdsReserved'
  <2>1. active[bot.side] # NoQuote => active[bot.side] \in Quotes /\ status[active[bot.side]] # "none"
    BY <1>3 DEF Deposited, TypeOK
  <2>2. Unused \subseteq Unused'
    BY <1>1, <2>1 DEF Unused
  <2>3. bot.job.ids[1] # bot.job.ids[2]
    BY <1>2, <1>6 DEF IdsReserved
  <2>4. \A s \in Side : s >= bot.side + 1 => bot.job.ids[s] \in Unused'
    BY <1>2, <1>3, <1>6, <2>2 DEF IdsReserved, Side
  <2> QED BY <1>3, <1>4, <1>5, <1>7, <2>3, <2>4, ResumedAgrees
<1>9. TypeOK'
  BY <1>1, <1>4, <1>5, <1>8 DEF TypeOK
<1>10. LateCancel' /\ LateDeposit'
  BY <1>1, <1>6 DEF LateCancel, LateDeposit, NoTx
<1>11. OpenAreKnown'
  <2>1. active'[bot.side] = bot.quote /\ \A s \in Side : s # bot.side => active'[s] = active[s]
    BY <1>1, <1>3 DEF TypeOK
  <2>2. \A q \in Quotes, s \in Side : active[s] = q => active'[s] = q \/ q \in forgotten'
    BY <1>1, <2>1 DEF Quotes, NoQuote
  <2> QED BY <1>1, <1>3, <2>1, <2>2 DEF OpenAreKnown
<1> QED BY <1>7, <1>8, <1>9, <1>10, <1>11

\* A round locks listed quotes, which are not those being cancelled.
LEMMA LockRoundKeeps ==
  ASSUME IInv, NEW ids \in SUBSET {q \in Quotes : book[q] = "active"}, LockRound(ids)
  PROVE  IInv'
<1> USE DEF IInv
<1>1. locked' = ids /\ UNCHANGED <<bot, active, quoted, book, status, pendingTx, forgotten>>
  BY DEF LockRound
<1>2. TypeOK'
  BY <1>1 DEF TypeOK
<1>3. ReceiptAgrees' /\ DepositAgrees' /\ IdsReserved'
  BY <1>1 DEF ReceiptAgrees, DepositAgrees, IdsReserved, Unused
<1>4. CancelAgrees' /\ LateCancel'
  BY <1>1 DEF CancelAgrees, LateCancel
<1>5. LateDeposit' /\ Deposited' /\ ListedAreFunded' /\ OpenAreKnown'
  BY <1>1 DEF LateDeposit, Deposited, ListedAreFunded, OpenAreKnown
<1> QED BY <1>2, <1>3, <1>4, <1>5

\* It fills a quote that was listed, which is then no longer listed.
LEMMA FillQuoteKeeps ==
  ASSUME IInv, NEW o \in locked, FillQuote(o)
  PROVE  IInv'
<1> USE DEF IInv
<1>1. /\ book[o] \in {"active", "cancelled"} /\ book' = [book EXCEPT ![o] = "filled"]
      /\ UNCHANGED <<bot, active, quoted, locked, status, pendingTx, forgotten>>
  BY DEF FillQuote
<1>2. /\ o \in Quotes /\ book'[o] = "filled"
      /\ \A q \in Quotes : q # o => book'[q] = book[q]
  BY <1>1 DEF TypeOK
<1>3. TypeOK'
  BY <1>1, <1>2 DEF TypeOK
<1>4. ReceiptAgrees' /\ IdsReserved' /\ LateDeposit' /\ OpenAreKnown'
  BY <1>1 DEF ReceiptAgrees, IdsReserved, Unused, LateDeposit, OpenAreKnown
<1>5. CancelAgrees' /\ DepositAgrees'
  <2>1. bot.pc \in {"cancelling", "depositing"} => bot.quote \in Quotes
    BY DEF TypeOK, Awaited, Asleep
  <2>2. CancelAgrees'
    BY <1>1, <1>2, <2>1 DEF CancelAgrees
  <2>3. DepositAgrees'
    BY <1>1, <1>2, <2>1 DEF DepositAgrees
  <2> QED BY <2>2, <2>3
<1>6. LateCancel'
  BY <1>1, <1>2 DEF LateCancel, TypeOK, NoTx
<1>7. Deposited' /\ ListedAreFunded'
  BY <1>1, <1>2 DEF Deposited, ListedAreFunded, TypeOK
<1> QED BY <1>3, <1>4, <1>5, <1>6, <1>7

\* It unlocks all.
LEMMA UnlockRoundKeeps == IInv /\ UnlockRound => IInv'
<1> SUFFICES ASSUME IInv, UnlockRound PROVE IInv'
  OBVIOUS
<1> USE DEF IInv
<1>1. locked' = {} /\ UNCHANGED <<bot, active, quoted, book, status, pendingTx, forgotten>>
  BY DEF UnlockRound
<1>2. TypeOK'
  BY <1>1 DEF TypeOK
<1>3. ReceiptAgrees' /\ DepositAgrees' /\ IdsReserved' /\ CancelAgrees' /\ LateCancel'
  BY <1>1 DEF ReceiptAgrees, DepositAgrees, IdsReserved, Unused, CancelAgrees, LateCancel
<1>4. LateDeposit' /\ Deposited' /\ ListedAreFunded' /\ OpenAreKnown'
  BY <1>1 DEF LateDeposit, Deposited, ListedAreFunded, OpenAreKnown
<1> QED BY <1>2, <1>3, <1>4

\* A swap closes a quote that is filled, so neither listed nor being deposited.
LEMMA MineSwapKeeps ==
  ASSUME IInv, NEW o \in Quotes, MineSwap(o)
  PROVE  IInv'
<1> USE DEF IInv
<1>1. /\ book[o] = "filled" /\ status[o] = "open" /\ status' = [status EXCEPT ![o] = "closed"]
      /\ UNCHANGED <<bot, active, quoted, book, locked, pendingTx, forgotten>>
  BY DEF MineSwap
<1>2. /\ status'[o] = "closed"
      /\ \A q \in Quotes : q # o => status'[q] = status[q]
  BY <1>1 DEF TypeOK
<1>3. TypeOK'
  BY <1>1, <1>2 DEF TypeOK
<1>4. ReceiptAgrees' /\ LateCancel' /\ LateDeposit'
  BY <1>1 DEF ReceiptAgrees, LateCancel, LateDeposit
<1>5. CancelAgrees' /\ DepositAgrees'
  <2>1. bot.pc \in {"cancelling", "depositing"} => bot.quote \in Quotes
    BY DEF TypeOK, Awaited, Asleep
  <2>2. CancelAgrees'
    BY <1>1, <1>2, <2>1 DEF CancelAgrees
  <2>3. DepositAgrees'
    BY <1>1, <1>2, <2>1 DEF DepositAgrees
  <2> QED BY <2>2, <2>3
<1>6. IdsReserved'
  <2>1. Unused \subseteq Unused'
    BY <1>1, <1>2 DEF Unused
  <2> QED BY <1>1, <2>1 DEF IdsReserved
<1>7. Deposited' /\ ListedAreFunded' /\ OpenAreKnown'
  BY <1>1, <1>2 DEF Deposited, ListedAreFunded, OpenAreKnown, TypeOK
<1> QED BY <1>3, <1>4, <1>5, <1>6, <1>7

\* The API takes a listed quote out of the book.
LEMMA CancelByApiKeeps ==
  ASSUME IInv, NEW o \in Quotes, CancelByApi(o)
  PROVE  IInv'
<1> USE DEF IInv
<1>1. /\ book[o] = "active" /\ book' = [book EXCEPT ![o] = "cancelled"]
      /\ UNCHANGED <<bot, active, quoted, locked, status, pendingTx, forgotten>>
  BY DEF CancelByApi
<1>2. /\ o \in Quotes /\ book'[o] = "cancelled"
      /\ \A q \in Quotes : q # o => book'[q] = book[q]
  BY <1>1 DEF TypeOK
<1>3. TypeOK'
  BY <1>1, <1>2 DEF TypeOK
<1>4. ReceiptAgrees' /\ IdsReserved' /\ LateDeposit' /\ OpenAreKnown'
  BY <1>1 DEF ReceiptAgrees, IdsReserved, Unused, LateDeposit, OpenAreKnown
<1>5. CancelAgrees' /\ DepositAgrees'
  <2>1. bot.pc \in {"cancelling", "depositing"} => bot.quote \in Quotes
    BY DEF TypeOK, Awaited, Asleep
  <2>2. CancelAgrees'
    BY <1>1, <1>2, <2>1 DEF CancelAgrees
  <2>3. DepositAgrees'
    BY <1>1, <1>2, <2>1 DEF DepositAgrees
  <2> QED BY <2>2, <2>3
<1>6. LateCancel'
  BY <1>1, <1>2 DEF LateCancel, TypeOK, NoTx
<1>7. Deposited' /\ ListedAreFunded'
  BY <1>1, <1>2 DEF Deposited, ListedAreFunded, TypeOK
<1> QED BY <1>3, <1>4, <1>5, <1>6, <1>7

\* A restart forgets the quotes, which stay delisted.
LEMMA RestartKeeps == IInv /\ Restart => IInv'
<1> SUFFICES ASSUME IInv, Restart PROVE IInv'
  OBVIOUS
<1> USE DEF IInv
<1>1. /\ bot' = Asleep /\ active' = [s \in Side |-> NoQuote] /\ locked' = {}
      /\ quoted' = [mid |-> NoPrice, can |-> [s \in Side |-> FALSE]]
      /\ forgotten' = forgotten \union {q \in Quotes : status[q] = "open" \/ pendingTx.quote = q}
      /\ status' = status /\ pendingTx' = pendingTx
  BY DEF Restart
<1>2. \A q \in Quotes : book'[q] = IF book[q] = "active" THEN "cancelled" ELSE book[q]
  BY DEF Restart
<1>3. TypeOK'
  <2>1. book' \in [Quotes -> {"absent", "active", "cancelled", "filled"}]
    BY DEF Restart, TypeOK
  <2>2. bot' \in {Asleep} \union Awaited
    BY <1>1
  <2>3. active' \in [Side -> Quotes \union {NoQuote}] /\ locked' \subseteq Quotes /\ forgotten' \subseteq Quotes
    BY <1>1 DEF TypeOK
  <2>4. quoted' \in [mid : Mids \union {NoPrice}, can : [Side -> BOOLEAN]]
    BY <1>1
  <2> QED BY <1>1, <2>1, <2>2, <2>3, <2>4 DEF TypeOK
<1>4. ReceiptAgrees' /\ CancelAgrees' /\ DepositAgrees' /\ IdsReserved'
  BY <1>1 DEF ReceiptAgrees, CancelAgrees, DepositAgrees, IdsReserved, Asleep
<1>5. LateCancel' /\ LateDeposit'
  <2>1. pendingTx = NoTx \/ pendingTx.quote \in Quotes
    BY DEF TypeOK
  <2> QED BY <1>1, <1>2, <2>1 DEF LateCancel, LateDeposit, NoTx
<1>6. Deposited' /\ ListedAreFunded' /\ OpenAreKnown'
  BY <1>1, <1>2 DEF Deposited, ListedAreFunded, OpenAreKnown
<1> QED BY <1>3, <1>4, <1>5, <1>6

\* Every step preserves the invariant.
LEMMA NextIInv == IInv /\ [Next]_vars => IInv'
<1> SUFFICES ASSUME IInv, [Next]_vars PROVE IInv'
  OBVIOUS
<1>1. CASE TickWithdraws
  <2>1. Withdraw \in Job /\ Withdraw.kind # "refresh"
    BY DEF Job, Withdraw
  <2> QED BY <1>1, <2>1, TickKeeps DEF TickWithdraws
<1>2. ASSUME NEW mid \in Mids, NEW can \in [Side -> BOOLEAN], TickRefreshes(mid, can)
      PROVE  IInv'
  <2> DEFINE ids == CHOOSE ids \in FreshIds : TRUE
             job == Refresh(mid, can, ids)
  <2>1. ids \in FreshIds
    BY <1>2 DEF TickRefreshes
  <2>2. /\ bot = Asleep /\ CancelNext(job, 1, active)
        /\ UNCHANGED <<active, locked, status, pendingTx, forgotten>>
    BY <1>2 DEF TickRefreshes
  <2> HIDE DEF ids
  <2>3. ids \in [Side -> Quotes]
    BY <2>1 DEF FreshIds, Unused
  <2>4. job \in Job /\ job.ids = ids
    BY <2>3 DEF Job, Refresh
  <2> QED BY <2>1, <2>2, <2>4, TickKeeps
<1>3. CASE BotStep
  BY <1>3, SendKeeps, GetNoHashKeeps, LoseReceiptKeeps, DepositRaisesKeeps, CancelConfirmedKeeps,
     DepositConfirmedKeeps DEF BotStep
<1>4. CASE Mine
  BY <1>4, MineKeeps
<1>5. CASE \E ids \in SUBSET {q \in Quotes : book[q] = "active"} : LockRound(ids)
  BY <1>5, LockRoundKeeps
<1>6. CASE \E q \in locked : FillQuote(q)
  BY <1>6, FillQuoteKeeps
<1>7. CASE UnlockRound
  BY <1>7, UnlockRoundKeeps
<1>8. CASE \E q \in Quotes : MineSwap(q)
  BY <1>8, MineSwapKeeps
<1>9. CASE \E q \in Quotes : CancelByApi(q)
  BY <1>9, CancelByApiKeeps
<1>10. CASE Restart
  BY <1>10, RestartKeeps
<1>11. CASE UNCHANGED vars
  BY <1>11 DEF vars, IInv, TypeOK, ReceiptAgrees, CancelAgrees, DepositAgrees, IdsReserved, Unused,
              LateCancel, LateDeposit, Deposited, ListedAreFunded, OpenAreKnown
<1> QED BY <1>1, <1>2, <1>3, <1>4, <1>5, <1>6, <1>7, <1>8, <1>9, <1>10, <1>11 DEF Next

\* The invariant holds in every state.
THEOREM Invariance == Spec => []IInv
BY InitIInv, NextIInv, PTL DEF Spec

(***************************************************************************)
(* The properties.                                                         *)
(***************************************************************************)

\* Every variable keeps its type and no transaction is tried more than three
\* times, whatever fails and however late a transaction is mined.
THEOREM TypeCorrect == Spec => []TypeOK
<1>1. IInv => TypeOK
  BY DEF IInv
<1> QED BY <1>1, Invariance, PTL

\* A quote that a round can match has its deposit in the escrow.
THEOREM QuotesFunded == Spec => []ListedAreFunded
<1>1. IInv => ListedAreFunded
  BY DEF IInv
<1> QED BY <1>1, Invariance, PTL

\* No withdrawal in the mempool is of a quote that a round has locked.
THEOREM RoundsSpared == Spec => []WithdrawalsSpareRounds
<1>1. IInv => WithdrawalsSpareRounds
  BY DEF IInv, LateCancel, WithdrawalsSpareRounds
<1> QED BY <1>1, Invariance, PTL

\* The bot knows every open deposit of this process that it has not overwritten
\* or given up.
THEOREM DepositsKnown == Spec => []OpenAreKnown
<1>1. IInv => OpenAreKnown
  BY DEF IInv
<1> QED BY <1>1, Invariance, PTL
=============================================================================
