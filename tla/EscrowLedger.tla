---------------------------- MODULE EscrowLedger ----------------------------
(***************************************************************************)
(* What DarkPoolEscrow promises to the people who deposit into it, with    *)
(* fees, token transfers, signer rotation and the order struct left out.   *)
(*                                                                         *)
(* Every order has a status and an amount in custody.  Custody is created  *)
(* once, by a deposit; it leaves only by an exchange with another open     *)
(* order, under a swap id that is spent by it, or by a close that takes    *)
(* all that is left.  A closed order stays closed.                         *)
(***************************************************************************)
EXTENDS Naturals

CONSTANTS
  OrderIds,     \* order ids (bytes32)
  SwapIds,      \* swap ids (bytes32)
  Amounts       \* the positive amounts a deposit or a fill may have

VARIABLES
  status,       \* status[o]: "none", "open" or "closed"
  custody,      \* custody[o]: the tokens of o the escrow still owes
  spent         \* the swap ids that have been executed

ledgerVars == <<status, custody, spent>>

LedgerInit ==
  /\ status = [o \in OrderIds |-> "none"]
  /\ custody = [o \in OrderIds |-> 0]
  /\ spent = {}

\* A new order takes a positive amount into custody.
Open(o, amount) ==
  /\ status[o] = "none"
  /\ status' = [status EXCEPT ![o] = "open"]
  /\ custody' = [custody EXCEPT ![o] = amount]
  /\ UNCHANGED spent

\* f of order m is exchanged for g of order t; an emptied order closes.
Exchange(s, m, t, f, g) ==
  /\ s \notin spent
  /\ status[m] = "open" /\ status[t] = "open"
  /\ f <= custody[m] /\ g <= custody[t]
  /\ spent' = spent \union {s}
  /\ custody' = [custody EXCEPT ![m] = @ - f, ![t] = @ - g]
  /\ status' = [o \in OrderIds |->
                  IF o \in {m, t} /\ custody'[o] = 0 THEN "closed" ELSE status[o]]

\* The owner takes back everything that is left.
Close(o) ==
  /\ status[o] = "open"
  /\ status' = [status EXCEPT ![o] = "closed"]
  /\ custody' = [custody EXCEPT ![o] = 0]
  /\ UNCHANGED spent

LedgerNext ==
  \/ \E o \in OrderIds, amount \in Amounts : Open(o, amount)
  \/ \E s \in SwapIds, m, t \in OrderIds, f, g \in Amounts :
       m # t /\ Exchange(s, m, t, f, g)
  \/ \E o \in OrderIds : Close(o)

LedgerSpec == LedgerInit /\ [][LedgerNext]_ledgerVars

\* Status, custody and spent ids have their types.
LedgerTypeOK ==
  /\ status \in [OrderIds -> {"none", "open", "closed"}]
  /\ custody \in [OrderIds -> Nat]
  /\ spent \subseteq SwapIds
=============================================================================
