----------------------------- MODULE Fungibles -----------------------------
(***************************************************************************)
(* The fungibles pallet (pallets/api/src/fungibles/mod.rs): a PSP22-like   *)
(* interface to the tokens of pallet-assets.                               *)
(*                                                                         *)
(* A call is a record [name, token, who, other, value]: who is its first   *)
(* account argument and other its second.  A dispatchable takes the ledger *)
(* and returns, besides the ledger and the error, its event, the weight it *)
(* reports (None if it reports none) and the storage operations it did, in *)
(* the units in which weights are counted here: one for each operation of  *)
(* pallet-assets and one for each separate read.                           *)
(***************************************************************************)
EXTENDS Assets

\* #[pallet::call_index] of the dispatchables and #[codec(index)] of Read.
CallIndex == [transfer |-> 3, transfer_from |-> 4, approve |-> 5, increase_allowance |-> 6,
              decrease_allowance |-> 7, create |-> 11, start_destroy |-> 12, set_metadata |-> 16,
              clear_metadata |-> 17, mint |-> 19, burn |-> 20]
ReadIndex == [total_supply |-> 0, balance_of |-> 1, allowance |-> 2, token_name |-> 8,
              token_symbol |-> 9, token_decimals |-> 10, token_exists |-> 18]

\* WeightInfo::approve(a, c): a base, with the read of the allowance, and one for each
\* approve_transfer and cancel_approval.
approve_weight(a, c) == 1 + a + c
balance_of_weight == 1
assets_weight == 1                  \* any of AssetsWeightInfo

\* Events of the pallet.
ApprovalEvent(t, owner, spender, value) ==
    [event |-> "Approval", token |-> t, from |-> owner, to |-> spender, value |-> value]
TransferEvent(t, from, to, value) ==
    [event |-> "Transfer", token |-> t, from |-> from, to |-> to, value |-> value]
CreatedEvent(t, creator, admin) ==
    [event |-> "Created", token |-> t, from |-> creator, to |-> admin, value |-> 0]

Event == [event : {"Approval", "Transfer", "Created"}, token : TokenId, from : Option(AccountId),
          to : Option(AccountId), value : Nat]

\* The result r of the last operation of pallet-assets, which ends the call.
Result(r, event, weight, work) ==
    [ledger |-> r.ledger, error |-> r.error, event |-> IF r.error = None THEN event ELSE None,
     weight |-> weight, work |-> work]
-----------------------------------------------------------------------------
\* Mutant: lets the sender's account be emptied.
TransferAllowDeath(l, origin, t, to, value) ==
    Result(Move(l, t, origin, to, value, FALSE), TransferEvent(t, origin, to, value), None, 1)

transfer(l, origin, t, to, value) ==
    Result(assets_transfer_keep_alive(l, origin, t, to, value),
           TransferEvent(t, origin, to, value), None, 1)

\* Mutant: moves the tokens without asking for an allowance.
TransferFromUnapproved(l, origin, t, from, to, value) ==
    Result(assets_transfer_keep_alive(l, from, t, to, value),
           TransferEvent(t, from, to, value), None, 1)

transfer_from(l, origin, t, from, to, value) ==
    Result(assets_transfer_approved(l, origin, t, from, to, value),
           TransferEvent(t, from, to, value), None, 1)

\* Mutant: approves the whole value where approve_transfer adds to the allowance.
ApproveAdds(l, origin, t, spender, value) ==
    Result(assets_approve_transfer(l, origin, t, spender, value),
           ApprovalEvent(t, origin, spender, value), approve_weight(1, 0), 2)

\* Mutant: reports the weight of doing nothing.
ApproveFree(l, origin, t, spender, value) ==
    Result(assets_cancel_approval(l, origin, t, spender),
           ApprovalEvent(t, origin, spender, value), approve_weight(0, 0), 2)

\* Sets the allowance, with an interface that can only add to it or cancel it.
approve(l, origin, t, spender, value) ==
    LET current   == allowance(l, t, origin, spender)
        event     == ApprovalEvent(t, origin, spender, value)
        cancelled == assets_cancel_approval(l, origin, t, spender)
    IN  CASE value = current -> Result(Ok(l), event, approve_weight(0, 0), 1)
          [] value > current ->
                Result(assets_approve_transfer(l, origin, t, spender, value - current), event,
                       approve_weight(1, 0), 2)
          [] value < current ->
                IF cancelled.error # None \/ value = 0
                THEN Result(cancelled, event, approve_weight(0, 1), 2)
                ELSE LET approved == assets_approve_transfer(cancelled.ledger, origin, t,
                                                             spender, value)
                     IN  Result(approved, event,
                                IF approved.error = None THEN approve_weight(1, 1) ELSE None, 3)

\* The event carries the allowance read again after the addition, which saturates.
increase_allowance(l, origin, t, spender, value) ==
    LET r == assets_approve_transfer(l, origin, t, spender, value) IN
    IF r.error # None
    THEN Result(r, None, assets_weight, 1)
    ELSE Result(r, ApprovalEvent(t, origin, spender, allowance(r.ledger, t, origin, spender)),
                None, 2)

\* Mutant: an allowance can be lowered, but not to zero.
DecreaseNotToZero(l, origin, t, spender, value) ==
    LET current   == allowance(l, t, origin, spender)
        cancelled == assets_cancel_approval(l, origin, t, spender)
    IN  IF value = 0 THEN Result(Ok(l), None, approve_weight(0, 0), 0)
        ELSE IF current <= value THEN Result(Err(l, Unapproved), None, None, 1)
        ELSE IF cancelled.error # None THEN Result(cancelled, None, approve_weight(0, 1), 2)
        ELSE Result(assets_approve_transfer(cancelled.ledger, origin, t, spender,
                                            current - value),
                    ApprovalEvent(t, origin, spender, current - value), None, 3)

\* Nothing to do, and no event, for zero.
decrease_allowance(l, origin, t, spender, value) ==
    LET current   == allowance(l, t, origin, spender)
        event     == ApprovalEvent(t, origin, spender, current - value)
        cancelled == assets_cancel_approval(l, origin, t, spender)
    IN  IF value = 0 THEN Result(Ok(l), None, approve_weight(0, 0), 0)
        ELSE IF current < value THEN Result(Err(l, Unapproved), None, None, 1)
        ELSE IF cancelled.error # None \/ current = value
             THEN Result(cancelled, event, approve_weight(0, 1), 2)
             ELSE LET approved == assets_approve_transfer(cancelled.ledger, origin, t, spender,
                                                          current - value)
                  IN  Result(approved, event,
                             IF approved.error = None THEN approve_weight(1, 1) ELSE None, 3)

create(l, origin, t, admin, min_balance) ==
    Result(assets_create(l, origin, t, admin, min_balance), CreatedEvent(t, origin, admin), None, 1)

start_destroy(l, origin, t) == Result(assets_start_destroy(l, origin, t), None, None, 1)

\* The name and the symbol have the same length here.
set_metadata(l, origin, t, length) ==
    Result(assets_set_metadata(l, origin, t, length, length, 0), None, None, 1)

clear_metadata(l, origin, t) == Result(assets_clear_metadata(l, origin, t), None, None, 1)

mint(l, origin, t, account, value) ==
    Result(assets_mint(l, origin, t, account, value), TransferEvent(t, None, account, value), None, 1)

\* pallet-assets burns as much as there is; the pallet insists on the whole value.
burn(l, origin, t, account, value) ==
    IF balance(l, t, account) < value
    THEN Result(Err(l, BalanceLow), None, balance_of_weight, 1)
    ELSE Result(assets_burn(l, origin, t, account, value), TransferEvent(t, account, None, value),
                None, 2)
-----------------------------------------------------------------------------
\* #[pallet::weight]: what a call is charged before it is dispatched.
DispatchWeight(call) ==
    CASE call.name \in {"approve", "decrease_allowance"} -> approve_weight(1, 1)
      [] call.name = "increase_allowance" -> approve_weight(1, 0)
      [] call.name = "burn" -> balance_of_weight + assets_weight
      [] OTHER -> assets_weight

\* A decoded call of the pallet by a signed origin.
Dispatchable(l, origin, c) ==
    CASE c.name = "transfer" -> transfer(l, origin, c.token, c.who, c.value)
      [] c.name = "transfer_from" -> transfer_from(l, origin, c.token, c.who, c.other, c.value)
      [] c.name = "approve" -> approve(l, origin, c.token, c.who, c.value)
      [] c.name = "increase_allowance" -> increase_allowance(l, origin, c.token, c.who, c.value)
      [] c.name = "decrease_allowance" -> decrease_allowance(l, origin, c.token, c.who, c.value)
      [] c.name = "create" -> create(l, origin, c.token, c.who, c.value)
      [] c.name = "start_destroy" -> start_destroy(l, origin, c.token)
      [] c.name = "set_metadata" -> set_metadata(l, origin, c.token, c.value)
      [] c.name = "clear_metadata" -> clear_metadata(l, origin, c.token)
      [] c.name = "mint" -> mint(l, origin, c.token, c.who, c.value)
      [] c.name = "burn" -> burn(l, origin, c.token, c.who, c.value)

\* FRAME dispatches a call in a storage layer: an error undoes what it has written.
Dispatch(l, origin, call) ==
    LET r == Dispatchable(l, origin, call) IN
    IF r.error = None THEN r ELSE [r EXCEPT !.ledger = l]

\* extract_actual_weight: never more than was charged, and all of it if none is reported.
ActualWeight(r, charged) == IF r.weight = None THEN charged ELSE Lesser(r.weight, charged)
-----------------------------------------------------------------------------
\* The arguments x have the types that the dispatchable or read of this name declares.
TakesWho == {"transfer", "transfer_from", "approve", "increase_allowance", "decrease_allowance",
             "create", "mint", "burn", "balance_of", "allowance", "transfer_keep_alive"}
TakesOther == {"transfer_from", "allowance"}
Typed(name, x) ==
    /\ name \in TakesWho => x.who \in AccountId
    /\ name \in TakesOther => x.other \in AccountId
    /\ name # "set_metadata" => x.value \in Balance

\* Read::weight.
ReadWeight(read) == 1

\* A name or symbol that is empty reads as None.
Filtered(l, t, field) ==
    IF l.metadata[t] = None \/ l.metadata[t][field] = 0 THEN None ELSE l.metadata[t][field]

\* Read::read.
Read(l, r) ==
    CASE r.name = "total_supply" -> total_supply(l, r.token)
      [] r.name = "balance_of" -> balance(l, r.token, r.who)
      [] r.name = "allowance" -> allowance(l, r.token, r.who, r.other)
      [] r.name = "token_name" -> Filtered(l, r.token, "name")
      [] r.name = "token_symbol" -> Filtered(l, r.token, "symbol")
      [] r.name = "token_decimals" ->
            IF l.metadata[r.token] = None THEN 0 ELSE l.metadata[r.token].decimals
      [] r.name = "token_exists" -> l.asset[r.token] # None
=============================================================================
