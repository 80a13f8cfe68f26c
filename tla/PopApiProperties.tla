-------------------------- MODULE PopApiProperties --------------------------
(***************************************************************************)
(* What must hold of the fungibles API, from the contract down to the      *)
(* ledger.                                                                 *)
(***************************************************************************)
EXTENDS FungibleContract

\* The ledger as the chain will keep it: a contract call counts once it has ended.
Committed == IF frame = None \/ frame.stage = "done" THEN ledger ELSE frame.saved

TokenOf(l, t) ==
    IF l.asset[t] = None THEN None
    ELSE [admin |-> l.asset[t].admin, min_balance |-> l.asset[t].min_balance, live |-> Live(l, t),
          supply |-> total_supply(l, t), balance |-> l.account[t],
          allowance |-> [a \in AccountId |-> [b \in AccountId |-> allowance(l, t, a, b)]]]

\* The tokens as Psp22 sees them.
Tokens == [t \in TokenId |-> TokenOf(Committed, t)]

\* Option::None is not a token.
ASSUME TokenAssumption ==
    None \notin [admin : AccountId, min_balance : Balance, live : BOOLEAN, supply : Balance,
                 balance : [AccountId -> Balance],
                 allowance : [AccountId -> [AccountId -> Balance]]]

Abstract == INSTANCE Psp22 WITH token <- Tokens

\* Contracts, weights, storage layers and deposits implement the abstract tokens: whatever
\* a contract call does, and wherever it runs out of gas or traps, the chain sees one whole
\* operation or none (functions.rs DispatchCall::execute, fungibles/mod.rs).
ImplementsPsp22 == Abstract!Spec
-----------------------------------------------------------------------------
\* What account a has on deposit: for the approvals it gave, the tokens it owns, and the
\* metadata of these.
Given(l, a) == {p \in TokenId \X AccountId : l.approval[p[1]][a][p[2]] # None}
Owned(l, a) == {t \in TokenId : l.asset[t] # None /\ l.asset[t].owner = a}
Described(l, a) == {t \in Owned(l, a) : l.metadata[t] # None}
Deposits(l, a) ==
    ApprovalDeposit * Cardinality(Given(l, a)) + AssetDeposit * Cardinality(Owned(l, a))
    + MetadataDepositBase * Cardinality(Described(l, a))

\* Each variable has its type.
TypeOK ==
    /\ ledger \in Ledger
    /\ owner \in Option(AccountId)
    /\ frame # None =>
          /\ frame.contract \in {Contract, Requester} /\ frame.caller \in Option(AccountId)
          /\ frame.gas \in Nat /\ frame.spent \in Nat /\ frame.work \in Nat
          /\ frame.stage \in {"api", "allowance", "done"}
    /\ env # None => frame # None

\* The API moves no native currency: an account's funds are its initial ones, and what is
\* reserved is the deposits for the tokens, metadata and approvals there are (approve and
\* decrease_allowance release and take deposits as they cancel and approve again).
DepositsExact ==
    \A a \in AccountId :
        /\ ledger.bal.reserved[a] = Deposits(ledger, a)
        /\ ledger.bal.free[a] = InitialFree[a] - Deposits(ledger, a)

\* All the work the runtime has done for a contract call is paid for by its gas at every
\* moment: charged before it is done, and never refunded below it.
WorkPaid == frame # None => frame.work <= frame.spent

\* Lowering an allowance is cancelling it and approving the rest: the second step cannot
\* fail once the first has succeeded, as the comment in the pallet's tests has it.
LoweringSucceeds ==
    env # None /\ env.phase = "dispatch" /\ env.call.pallet = "Fungibles" =>
        LET c    == env.call
            has  == allowance(ledger, c.token, frame.contract, c.who)
            less == \/ c.name = "approve" /\ c.value < has
                    \/ c.name = "decrease_allowance" /\ c.value <= has
        IN  less /\ Live(ledger, c.token)
                => Dispatch(ledger, frame.contract, c).error = None

\* What a contract learns of its request is what happened: the call that was dispatched is
\* the one its API function names, the status is 0 exactly when it succeeded, and otherwise
\* decodes to the error of the runtime.
StatusTrue ==
    env # None /\ env.phase = "returned" =>
        /\ Succeeded(env.status) <=> env.error = None
        /\ env.error # None => FromStatus(env.status) = V0Error(env.error)
        /\ frame.contract = Contract =>
              env.call.name = CASE frame.stage = "allowance" -> "allowance"
                                [] frame.message.name = "new" -> "create"
                                [] OTHER -> frame.message.name

\* What an account gained between the start of the call and now.
Gained(a) == ledger.account[Token][a] - frame.saved.account[Token][a]

\* amount is value, up to dust below the minimum balance.
UpToDust(amount, value) == amount - value \in 0..SatSub(frame.saved.asset[Token].min_balance, 1)

\* The events of the example contract describe what its call did, up to dust below the
\* minimum balance.  An Approval event carries the allowance there is.  The recipient a
\* Transfer event names has gained the value, and the source it names has lost it, except
\* that of transfer_from's Transfer event, which names the contract and not the account that
\* pays ("The source of the transfer.", events.rs): there the Approval event names the payer,
\* the owner of the allowance, who has lost the value.
EventsTrue ==
    frame # None /\ frame.stage = "done" =>
        \A i \in DOMAIN frame.events :
            LET e == frame.events[i]
                m == frame.message
            IN  CASE e.event = "Approval" ->
                        /\ e.value = allowance(ledger, Token, e.from, e.to)
                        /\ m.name = "transfer_from" => UpToDust(-Gained(e.from), m.value)
                  [] e.event = "Transfer" ->
                        /\ e.to # None => UpToDust(Gained(e.to), e.value)
                        /\ e.from # None /\ m.name # "transfer_from" =>
                              UpToDust(-Gained(e.from), e.value)
                  [] OTHER -> e.to = ledger.asset[Token].admin

\* A contract call that did not succeed has changed nothing, and one that did has changed
\* something only for the owner of the contract.
FailuresLeaveNoTrace ==
    frame # None /\ frame.stage = "done" =>
        /\ frame.result # "Ok" => ledger = frame.saved /\ frame.events = <<>>
        /\ frame.contract = Contract /\ ledger # frame.saved =>
              frame.caller = owner

\* A contract acts for itself: through the API it lowers the balance of another account only
\* by an allowance that it uses up or as the admin of the token, changes only allowances
\* that it gave or that it spends, and reserves nobody else's funds.
ActsForItself ==
    [][ InPhase("dispatch") =>
          LET me == frame.contract IN
          \A t \in TokenId, a \in AccountId \ {me} :
              /\ ledger'.bal.reserved[a] <= ledger.bal.reserved[a]
              /\ ledger'.account[t][a] < ledger.account[t][a] =>
                    \/ ledger.asset[t].admin = me
                    \/ /\ allowance(ledger', t, a, me) < allowance(ledger, t, a, me)
                       /\ SatSub(ledger.account[t][a] - ledger'.account[t][a],
                                 allowance(ledger, t, a, me) - allowance(ledger', t, a, me))
                             < ledger.asset[t].min_balance
              /\ \A b \in AccountId :
                    allowance(ledger', t, a, b) # allowance(ledger, t, a, b) =>
                        b = me /\ allowance(ledger', t, a, b) < allowance(ledger, t, a, b)
      ]_vars

\* Every contract call ends, whatever it asks of the extension and however little gas it
\* has.
CallsEnd == frame # None ~> frame = None
=============================================================================
