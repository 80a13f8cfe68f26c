------------------------------ MODULE Balances ------------------------------
(***************************************************************************)
(* The native currency as pallet-nfts uses it: pallet-balances behind the  *)
(* Currency and ReservableCurrency traits.  It is not part of this         *)
(* repository, so its operations are modelled from their uses.             *)
(*                                                                         *)
(* A balance sheet b is a record [free, reserved] of functions from        *)
(* accounts to amounts.  free counts what an account holds above the       *)
(* existential deposit: KeepAlive transfers and reserves never touch that  *)
(* deposit, so every account stays alive and an amount can be spent exactly*)
(* when it is at most free.                                                *)
(***************************************************************************)
EXTENDS Integers

\* The smaller of two amounts.
Lesser(x, y) == IF x <= y THEN x ELSE y

\* saturating_sub and saturating_reduce on an unsigned balance.
SatSub(x, y) == IF y <= x THEN x - y ELSE 0

\* The balance sheets over a set of accounts.
BalanceSheet(accounts) == [free : [accounts -> Nat], reserved : [accounts -> Nat]]

\* Currency::reserve fails with InsufficientBalance unless this holds.
CanReserve(b, who, amount) == amount <= b.free[who]

\* Currency::reserve.
Reserve(b, who, amount) ==
    [free     |-> [b.free     EXCEPT ![who] = @ - amount],
     reserved |-> [b.reserved EXCEPT ![who] = @ + amount]]

\* Currency::unreserve releases at most what is reserved; the callers drop
\* the remainder it returns.
Unreserve(b, who, amount) ==
    LET released == Lesser(amount, b.reserved[who]) IN
    [free     |-> [b.free     EXCEPT ![who] = @ + released],
     reserved |-> [b.reserved EXCEPT ![who] = @ - released]]

\* A run of Currency::unreserve calls, refund[a] in total from account a.
UnreserveAll(b, refund) ==
    LET released(a) == IF refund[a] \in 0..b.reserved[a] THEN refund[a] ELSE b.reserved[a] IN
    [free     |-> [a \in DOMAIN b.free     |-> b.free[a] + released(a)],
     reserved |-> [a \in DOMAIN b.reserved |-> b.reserved[a] - released(a)]]

\* Mutant: checks the funds of the wrong account.
CanTransferFromPayee(b, from, to, amount) == from = to \/ amount <= b.free[to]

\* Currency::transfer with KeepAlive: nothing to check when it moves nothing.
CanTransfer(b, from, to, amount) == from = to \/ amount <= b.free[from]

\* Currency::transfer.
Transfer(b, from, to, amount) ==
    IF from = to THEN b
    ELSE [free     |-> [b.free EXCEPT ![from] = @ - amount, ![to] = @ + amount],
          reserved |-> b.reserved]

\* Currency::repatriate_reserved to the reserve of another account: moves at
\* most what is reserved and succeeds.
Repatriate(b, from, to, amount) ==
    LET moved == Lesser(amount, b.reserved[from]) IN
    [free     |-> b.free,
     reserved |-> [b.reserved EXCEPT ![from] = @ - moved, ![to] = @ + moved]]

\* From an old reserve to a new one on the same account, as every deposit
\* update does: reserve the increase, or release the decrease.
CanAdjust(b, who, old, new) == new > old => CanReserve(b, who, new - old)

Adjust(b, who, old, new) ==
    IF new > old THEN Reserve(b, who, new - old) ELSE Unreserve(b, who, old - new)
=============================================================================
