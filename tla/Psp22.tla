-------------------------------- MODULE Psp22 --------------------------------
(***************************************************************************)
(* What the fungibles API promises, without contracts, weights, deposits,  *)
(* storage layers or pallet-assets: tokens with balances and allowances,   *)
(* that change by the operations of the PSP22 standard and of its          *)
(* mintable, burnable and management extensions, each of them whole or not *)
(* at all.                                                                 *)
(*                                                                         *)
(* An account that is left with less than the token's minimum balance by   *)
(* someone else's doing (transfer_from, burn) is emptied.                  *)
(***************************************************************************)
EXTENDS Integers

CONSTANTS AccountId, TokenId, Balance, None

VARIABLE token      \* None, or [admin, min_balance, live, supply, balance, allowance]

Init == token = [t \in TokenId |-> None]

Exists(t) == token[t] # None
Live(t) == Exists(t) /\ token[t].live

\* The amounts that really leave an account which is to give value.
Leaving(t, account, value) ==
    LET rest == token[t].balance[account] - value IN
    IF rest >= token[t].min_balance THEN {value} ELSE {value + rest}

\* balance after amount has gone from one account to another.
Moved(balance, from, to, amount) ==
    IF from = to THEN balance
    ELSE [balance EXCEPT ![from] = @ - amount, ![to] = @ + amount]

\* A token with these parts.
TokenRecord(admin, min_balance, live, supply, balance, allowance) ==
    [admin |-> admin, min_balance |-> min_balance, live |-> live, supply |-> supply,
     balance |-> balance, allowance |-> allowance]

\* Token t, which is live, gets this supply and these balances and allowances.
Becomes(t, supply, balance, allowance) ==
    token' = [token EXCEPT ![t] =
        TokenRecord(token[t].admin, token[t].min_balance, TRUE, supply, balance, allowance)]

Create(t, admin, min_balance) ==
    /\ ~ Exists(t)
    /\ min_balance > 0
    /\ token' = [token EXCEPT ![t] =
           TokenRecord(admin, min_balance, TRUE, 0, [a \in AccountId |-> 0],
                 [a \in AccountId |-> [b \in AccountId |-> 0]])]

StartDestroy(t) ==
    /\ Live(t)
    /\ token' = [token EXCEPT ![t] =
           TokenRecord(token[t].admin, token[t].min_balance, FALSE, token[t].supply,
                 token[t].balance, token[t].allowance)]

Destroy(t) == Exists(t) /\ ~ Live(t) /\ token' = [token EXCEPT ![t] = None]

\* The owner of the tokens keeps the minimum balance.
Transfer(t, from, to, value) ==
    /\ Live(t)
    /\ value + token[t].min_balance <= token[t].balance[from]
    /\ Becomes(t, token[t].supply, Moved(token[t].balance, from, to, value), token[t].allowance)

TransferFrom(t, spender, from, to, value) ==
    /\ Live(t)
    /\ value <= token[t].balance[from]
    /\ value <= token[t].allowance[from][spender]
    /\ \E amount \in Leaving(t, from, value) :
          Becomes(t, token[t].supply, Moved(token[t].balance, from, to, amount),
                  [token[t].allowance EXCEPT ![from][spender] = @ - value])

\* approve, increase_allowance and decrease_allowance.
SetAllowance(t, from, spender, value) ==
    /\ Live(t)
    /\ Becomes(t, token[t].supply, token[t].balance,
               [token[t].allowance EXCEPT ![from][spender] = value])

Mint(t, to, value) ==
    /\ Live(t)
    /\ token[t].balance[to] + value >= token[t].min_balance
    /\ Becomes(t, token[t].supply + value, [token[t].balance EXCEPT ![to] = @ + value],
               token[t].allowance)

Burn(t, from, value) ==
    /\ Live(t)
    /\ value <= token[t].balance[from]
    /\ \E amount \in Leaving(t, from, value) :
          Becomes(t, token[t].supply - amount, [token[t].balance EXCEPT ![from] = @ - amount],
                  token[t].allowance)

\* A step that changes nothing is none.
Next ==
    \E t \in TokenId :
        /\ token'[t] # token[t]
        /\ \/ \E admin \in AccountId, min_balance \in Balance : Create(t, admin, min_balance)
           \/ StartDestroy(t)
           \/ Destroy(t)
           \/ \E from, to \in AccountId, value \in Balance \ {0} :
                 \/ Transfer(t, from, to, value)
                 \/ \E spender \in AccountId : TransferFrom(t, spender, from, to, value)
           \/ \E a, b \in AccountId, value \in Balance : SetAllowance(t, a, b, value)
           \/ \E a \in AccountId, value \in Balance \ {0} : Mint(t, a, value) \/ Burn(t, a, value)

Spec == Init /\ [][Next]_token
=============================================================================
