-------------------------- MODULE FungibleContract --------------------------
(***************************************************************************)
(* Contracts that use the API, the users who call them, and users who use  *)
(* the pallets directly.  Two contracts: the example of the repository     *)
(* (pop-api/examples/fungibles/lib.rs), which owns a token and offers PSP22*)
(* to its owner, and a contract that sends arbitrary requests to the chain *)
(* extension.                                                              *)
(*                                                                         *)
(* A message is [name, who, other, value].  frame is the contract call in  *)
(* progress.  It keeps the ledger it started from: a trap, and an Err that *)
(* the contract returns, restore it.  owner is the contract's storage, None*)
(* until it is instantiated.                                               *)
(***************************************************************************)
EXTENDS PopApi

CONSTANTS
    Contract,                       \* the account of the example contract
    Token,                          \* the id its constructor is given
    Requester,                      \* the account of the other contract
    Caller,                         \* the users who call contracts
    Message,                        \* what they may ask of the example
    Requests,                       \* what they may have the other contract ask for
    Extrinsic,                      \* [origin, call]: what users may call directly
    GasLimit,                       \* the gas limits of contract calls
    InitialFree                     \* the native balance of each account

ASSUME ContractAssumption ==
    /\ {Contract, Requester} \cup Caller \subseteq AccountId
    /\ Contract # Requester
    /\ InitialFree \in [AccountId -> Nat]
    /\ Token \in TokenId
    /\ GasLimit \subseteq Nat

MessageType ==
    [name : DOMAIN ApiStateQuery \cup (DOMAIN ApiDispatchable \ {"create"})
               \cup {"new", "transfer_ownership"},
     who : Option(AccountId), other : Option(AccountId), value : Nat]

\* What users submit has the types that the functions declare.
ASSUME ArgumentsAssumption ==
    /\ \A m \in Message :
          /\ m \in MessageType /\ Typed(m.name, m)
          /\ m.name = "transfer_ownership" => m.who \in AccountId
    /\ \A request \in Requests : WellFormed(request)
    /\ \A x \in Extrinsic :
          /\ x.origin \in AccountId
          /\ x.call \in [name : DOMAIN CallIndex, token : TokenId, who : Option(AccountId),
                         other : Option(AccountId), value : Nat]
          /\ Typed(x.call.name, x.call)

FrameType == [contract : {Contract, Requester}, caller : Option(AccountId),
              message : Option(MessageType), gas : Nat, spent : Nat, work : Nat, saved : Ledger,
              stage : {"api", "allowance", "done"}, events : Seq(Event),
              result : Option({"Ok", "NotOwner", "Status", "Trap", "InsufficientBalance",
                               "InsufficientAllowance", "Custom"}),
              value : Option(Nat \cup BOOLEAN)]

\* Option::None is none of the values of these types.
ASSUME NoneAssumption ==
    /\ None \notin Code /\ None \notin InputType /\ None \notin CallType
    /\ None \notin EnvType /\ None \notin FrameType
    /\ None \notin {"dispatch", "read"}

VARIABLE owner

vars == <<ledger, frame, env, owner>>

EmptyLedger ==
    [asset    |-> [t \in TokenId |-> None],
     account  |-> [t \in TokenId |-> [a \in AccountId |-> 0]],
     approval |-> [t \in TokenId |-> [a \in AccountId |-> [b \in AccountId |-> None]]],
     metadata |-> [t \in TokenId |-> None],
     bal      |-> [free |-> InitialFree, reserved |-> [a \in AccountId |-> 0]]]

Init == ledger = EmptyLedger /\ frame = None /\ env = None /\ owner = None

\* A contract call that starts with gas and nothing done.
Frame(contract, caller, message, gas) ==
    [contract |-> contract, caller |-> caller, message |-> message, gas |-> gas, spent |-> 0,
     work |-> 0, saved |-> ledger, stage |-> "api", events |-> <<>>, result |-> None,
     value |-> None]

\* The frame when the contract is finished, and the result it returns.
Done(f, result, value, events) ==
    [f EXCEPT !.stage = "done", !.result = result, !.value = value, !.events = @ \o events]
-----------------------------------------------------------------------------
(* The example contract *)

NotOwner == "NotOwner"              \* Psp22Error::Custom("Not the owner")

\* ensure_owner, for the messages that change something.
EnsureOwner(message, caller) == IsRead(message.name) \/ message.name = "new" \/ owner = caller

\* The messages that have nothing to do.
NoOp(m) ==
    CASE m.name = "transfer" -> Contract = m.who \/ m.value = 0
      [] m.name = "transfer_from" -> m.who = m.other \/ m.value = 0
      [] m.name = "approve" -> Contract = m.who
      [] m.name \in {"increase_allowance", "decrease_allowance"} ->
            Contract = m.who \/ m.value = 0
      [] m.name \in {"mint", "burn"} -> m.value = 0
      [] OTHER -> FALSE

\* The API call of a message: api::create in the constructor makes the contract the admin.
RequestOf(m) ==
    IF m.name = "new" THEN ApiRequest("create", Token, Contract, None, m.value)
    ELSE ApiRequest(m.name, Token, m.who, m.other, m.value)

\* The events of the contract, emitted when the API call has succeeded.
EventsOf(m) ==
    CASE m.name = "new" -> <<CreatedEvent(Token, Contract, Contract)>>
      [] m.name = "transfer" -> <<TransferEvent(Token, Contract, m.who, m.value)>>
      [] m.name = "transfer_from" -> <<TransferEvent(Token, Contract, m.other, m.value)>>
      [] m.name = "approve" -> <<ApprovalEvent(Token, Contract, m.who, m.value)>>
      [] m.name = "mint" -> <<TransferEvent(Token, None, m.who, m.value)>>
      [] m.name = "burn" -> <<TransferEvent(Token, m.who, None, m.value)>>
      [] OTHER -> <<>>

\* The owner and the spender of the allowance that is read again for an Approval event.
AllowanceOf(m) == IF m.name = "transfer_from" THEN <<m.who, Contract>> ELSE <<Contract, m.who>>
ReadsAllowance(m) == m.name \in {"transfer_from", "increase_allowance", "decrease_allowance"}

\* A user calls the contract, or instantiates it with the message new.  It returns at once
\* to someone who is not the owner, and when there is nothing to do.
CallContract(caller, m, gas) ==
    LET f == Frame(Contract, caller, m, gas) IN
    /\ frame = None
    /\ (m.name = "new") = (owner = None)
    /\ IF ~ EnsureOwner(m, caller)
       THEN frame' = Done(f, NotOwner, None, <<>>) /\ env' = None
       ELSE IF NoOp(m) \/ m.name = "transfer_ownership"
       THEN frame' = Done(f, "Ok", None, <<>>) /\ env' = None
       ELSE frame' = f /\ env' = Env(RequestOf(m))
    /\ owner' = IF EnsureOwner(m, caller) /\ m.name = "transfer_ownership" THEN m.who ELSE owner
    /\ UNCHANGED ledger

\* The API call of the message has returned.  An error of a dispatch is returned as a
\* Psp22Error, which reverts the contract call.
Resume ==
    LET m == frame.message IN
    /\ InPhase("returned")
    /\ frame.contract = Contract
    /\ frame.stage = "api"
    /\ IF IsRead(m.name)
       THEN frame' = Done(frame, "Ok", UnwrapOrDefault(m.name, env), <<>>) /\ env' = None
       ELSE IF ~ Succeeded(env.status)
       THEN frame' = Done(frame, Psp22Error(env.status), None, <<>>) /\ env' = None
       ELSE IF ReadsAllowance(m)
       THEN /\ frame' = [frame EXCEPT !.stage = "allowance", !.events = EventsOf(m)]
            /\ env' = Env(ApiRequest("allowance", Token, AllowanceOf(m)[1], AllowanceOf(m)[2], 0))
       ELSE frame' = Done(frame, "Ok", None, EventsOf(m)) /\ env' = None
    /\ ledger' = IF IsRead(m.name) \/ Succeeded(env.status) THEN ledger ELSE frame.saved
    /\ owner' = IF m.name = "new" /\ Succeeded(env.status) THEN frame.caller ELSE owner

\* The allowance for the Approval event has been read.
ResumeWithAllowance ==
    LET m == frame.message IN
    /\ InPhase("returned")
    /\ frame.stage = "allowance"
    /\ frame' = Done(frame, "Ok", None,
                     <<ApprovalEvent(Token, AllowanceOf(m)[1], AllowanceOf(m)[2],
                                     UnwrapOrDefault("allowance", env))>>)
    /\ env' = None
    /\ UNCHANGED <<ledger, owner>>
-----------------------------------------------------------------------------
(* The other contract, and what pallet-contracts does for both *)

\* Someone calls the other contract, which passes on one request and returns what comes
\* back.
CallRequester(request, gas) ==
    /\ frame = None
    /\ frame' = Frame(Requester, None, None, gas)
    /\ env' = Env(request)
    /\ UNCHANGED <<ledger, owner>>

ResumeRequester ==
    /\ InPhase("returned")
    /\ frame.contract = Requester
    /\ frame' = Done(frame, IF Succeeded(env.status) THEN "Ok" ELSE "Status", env.value, <<>>)
    /\ env' = None
    /\ UNCHANGED <<ledger, owner>>

\* Mutant: keeps what the contract did before it trapped.
TrapWithoutRollback ==
    /\ InPhase("trapped")
    /\ frame' = [Done(frame, "Trap", None, <<>>) EXCEPT !.events = <<>>]
    /\ env' = None
    /\ UNCHANGED <<ledger, owner>>

\* Mutant: a call that trapped is tried again.
TrapRetries ==
    /\ InPhase("trapped")
    /\ IF frame.contract = Contract
       THEN /\ frame' = [Frame(Contract, frame.caller, frame.message, frame.gas + frame.spent)
                            EXCEPT !.saved = frame.saved]
            /\ env' = Env(RequestOf(frame.message))
       ELSE frame' = Done(frame, "Trap", None, <<>>) /\ env' = None
    /\ ledger' = frame.saved
    /\ UNCHANGED owner

\* An error of the extension ends the call, and all it did is undone.
Trap ==
    /\ InPhase("trapped")
    /\ frame' = [Done(frame, "Trap", None, <<>>) EXCEPT !.events = <<>>]
    /\ env' = None
    /\ ledger' = frame.saved
    /\ UNCHANGED owner

\* Mutant: does not wait for the extension.
LeaveEarly ==
    /\ frame # None
    /\ frame' = None
    /\ UNCHANGED <<ledger, env, owner>>

\* The extrinsic that called the contract ends.
Leave ==
    /\ frame # None
    /\ frame.stage = "done"
    /\ frame' = None
    /\ UNCHANGED <<ledger, env, owner>>

\* A user calls the fungibles pallet directly.
SubmitExtrinsic(origin, call) ==
    /\ frame = None
    /\ ledger' = Dispatch(ledger, origin, call).ledger
    /\ UNCHANGED <<frame, env, owner>>

\* A user finishes the destruction of a token.
DestroyToken(t) ==
    /\ frame = None
    /\ assets_destroy(ledger, t).error = None
    /\ ledger' = assets_destroy(ledger, t).ledger
    /\ UNCHANGED <<frame, env, owner>>
-----------------------------------------------------------------------------
\* What goes on inside a contract call.
Pipeline ==
    \/ ExtensionStep /\ UNCHANGED owner
    \/ Resume
    \/ ResumeWithAllowance
    \/ ResumeRequester
    \/ Trap
    \/ Leave

\* What users start.
Users ==
    \/ \E gas \in GasLimit :
          \/ \E caller \in Caller, m \in Message : CallContract(caller, m, gas)
          \/ \E request \in Requests : CallRequester(request, gas)
    \/ \E x \in Extrinsic : SubmitExtrinsic(x.origin, x.call)
    \/ \E t \in TokenId : DestroyToken(t)

Next == Pipeline \/ Users

\* A call that was started is executed to its end in the same block.
Spec == Init /\ [][Next]_vars /\ WF_vars(Pipeline)
=============================================================================
