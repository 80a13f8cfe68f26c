----------------------------- MODULE Extension -----------------------------
(***************************************************************************)
(* The chain extension through which contracts reach the runtime: the      *)
(* functions of the extension crate, which charge weight, decode, filter,  *)
(* dispatch or read, and convert the result, as the API and the runtimes   *)
(* configure them (pallets/api/src/extension.rs, config/api).              *)
(*                                                                         *)
(* env is the extension call in progress, or None; frame is the contract   *)
(* call that made it.  Weights are counted in the units of Fungibles, with *)
(* one for each of the extension's own charges.  Every charge is a step of *)
(* its own, because the contract may run out of gas at each of them.       *)
(***************************************************************************)
EXTENDS Fungibles, RuntimeCalls

CONSTANT Chain                      \* the runtime: "devnet" or "testnet"

ASSUME ChainAssumption == Chain \in {"devnet", "testnet"}

VARIABLES ledger, frame, env

\* A request: the four bytes of the function id, the input (None when it is not the
\* encoding of the arguments) and whether the buffer for the output is large enough.
Request(id, input, room) == [id |-> id, input |-> input, room |-> room]
Input(token, who, other, value) == [token |-> token, who |-> who, other |-> other, value |-> value]

\* What env starts as for a request.
Env(request) ==
    [phase |-> "called", id |-> request.id, input |-> request.input, room |-> request.room,
     call |-> None, charged |-> 0, error |-> None, event |-> None, status |-> None,
     value |-> None]

Code == [1..4 -> Byte]              \* the bytes of a function id or of a status code
InputType == [token : TokenId, who : Option(AccountId), other : Option(AccountId), value : Nat]
CallType == [pallet : {"Fungibles", "Balances"},
             name : DOMAIN CallIndex \cup DOMAIN ReadIndex \cup {"transfer_keep_alive",
                                                                "force_transfer"},
             token : TokenId, who : Option(AccountId), other : Option(AccountId), value : Nat]
EnvType == [phase : {"called", "decode", "charge", "dispatch", "convert", "read", "write",
                     "returned", "trapped"},
            id : Code, input : Option(InputType), room : BOOLEAN, call : Option(CallType),
            charged : Nat, error : Option(DispatchErrors), event : Option(Event),
            status : Option(Code), value : Option(Nat \cup BOOLEAN)]

seal_debug_message == 1
seal_return == 1
seal_input == 1
-----------------------------------------------------------------------------
(* The environment of pallet-contracts *)

\* id.to_le_bytes(): func_id holds the low two bytes, ext_id the high two.
func_id(id) == id[1]
version(id) == id[2]
module_and_index(id) == <<id[3], id[4]>>

\* An error the extension returns ends the contract's execution.
Trapped(e, error) == [e EXCEPT !.phase = "trapped", !.error = error]

\* env.charge_weight(weight)?, and the work that it pays for.
ChargeWeight(weight, work, next) ==
    IF frame.gas < weight
    THEN env' = Trapped(env, OutOfGas) /\ UNCHANGED frame
    ELSE /\ frame' = [frame EXCEPT !.gas = @ - weight, !.spent = @ + weight, !.work = @ + work]
         /\ env' = next

\* env.adjust_weight: gives back what was charged above the actual weight.
AdjustWeight(f, charged, actual) ==
    [f EXCEPT !.gas = @ + (charged - actual), !.spent = @ - (charged - actual)]
-----------------------------------------------------------------------------
(* Decoding *)

\* IdentifiedByFirstByteOfFunctionId, and the order of Functions.
MatchedFunction(id) ==
    CASE func_id(id) = 0 -> "dispatch" [] func_id(id) = 1 -> "read" [] OTHER -> None

\* The calls of the runtime that the requests here can encode: those of the API, and a
\* transfer of pallet-balances, which is a valid call but not one of the API.
CallTable == [Fungibles |-> CallIndex, Balances |-> [transfer_keep_alive |-> 3,
                                                     force_transfer |-> 2]]
ReadTable == [Fungibles |-> ReadIndex]

TableOf(id) == IF MatchedFunction(id) = "dispatch" THEN CallTable ELSE ReadTable

\* The (pallet, name) that a version, module and index denote in a table.
Denoted(table, id) ==
    {p \in UNION {{pallet} \X DOMAIN table[pallet] : pallet \in DOMAIN table} :
        /\ version(id) = 0
        /\ module_and_index(id) = <<Pallets[Chain][p[1]], table[p[1]][p[2]]>>}

\* DecodesAs<VersionedRuntimeCall> and <VersionedRuntimeRead>: the Prepender puts version,
\* module and index before the input, and the whole must decode.
Decoded(id, input) ==
    LET denoted == Denoted(TableOf(id), id)
        target  == CHOOSE p \in denoted : TRUE
    IN  IF denoted = {} \/ input = None THEN None
        ELSE [pallet |-> target[1], name |-> target[2], token |-> input.token, who |-> input.who,
              other |-> input.other, value |-> input.value]

\* A request as a contract can make it: four bytes, and an input that is taken for the
\* arguments of a function only where it decodes as these.
WellFormed(request) ==
    /\ request \in [id : Code, input : Option(InputType), room : BOOLEAN]
    /\ request.input # None =>
          \A p \in Denoted(TableOf(request.id), request.id) : Typed(p[2], request.input)
-----------------------------------------------------------------------------
(* Filters of the two runtimes *)

DevnetCalls == {"transfer", "transfer_from", "approve", "increase_allowance",
                "decrease_allowance", "create", "set_metadata", "start_destroy",
                "clear_metadata", "mint", "burn"}
TestnetCalls == {"transfer", "transfer_from", "approve", "increase_allowance",
                 "decrease_allowance", "create", "set_metadata", "start_destroy",
                 "clear_metadata", "mint", "burn"}
DevnetReads == {"total_supply", "balance_of", "allowance", "token_name", "token_symbol",
                "token_decimals", "token_exists"}
TestnetReads == {"total_supply", "balance_of", "allowance", "token_name", "token_symbol",
                 "token_decimals", "token_exists"}

\* Mutant: only the calls that no origin may make are kept out.
OnlyBaseFilter(call) == BaseCallFilter(call)

\* Contains<RuntimeCall> for Filter.
CallAllowed(call) ==
    /\ BaseCallFilter(call)
    /\ call.pallet = "Fungibles"
    /\ call.name \in (IF Chain = "devnet" THEN DevnetCalls ELSE TestnetCalls)

\* Contains<RuntimeRead> for Filter.
ReadAllowed(read) == read.name \in (IF Chain = "devnet" THEN DevnetReads ELSE TestnetReads)

\* Dispatch of a call by the contract.  A filtered call fails before it does anything; a
\* transfer of the native currency is pallet-balances' own.
DispatchCall(l, origin, call) ==
    CASE ~ CallAllowed(call) -> Result(Err(l, CallFiltered), None, None, 0)
      [] CallAllowed(call) /\ call.pallet = "Fungibles" -> Dispatch(l, origin, call)
      [] OTHER -> Result(IF CanTransfer(l.bal, origin, call.who, call.value)
                         THEN Ok([l EXCEPT !.bal = Transfer(@, origin, call.who, call.value)])
                         ELSE Err(l, NestedError("Token", "FundsUnavailable")), None, None, 1)

\* GetDispatchInfo of a runtime call.
PreDispatchWeight(call) == IF call.pallet = "Fungibles" THEN DispatchWeight(call) ELSE 1
-----------------------------------------------------------------------------
(* The steps of an extension call *)

InPhase(phase) == frame # None /\ env # None /\ env.phase = phase

\* Extension::call: charge for the call itself, then find the function.
ExtensionCall ==
    /\ InPhase("called")
    /\ ChargeWeight(seal_debug_message, 1,
                    IF MatchedFunction(env.id) = None THEN Trapped(env, ContractsDecodingFailed)
                    ELSE [env EXCEPT !.phase = "decode"])
    /\ UNCHANGED ledger

\* Decodes::decode: charge for copying the input, read it, decode it.
DecodeInput ==
    /\ InPhase("decode")
    /\ LET call == Decoded(env.id, env.input) IN
       ChargeWeight(seal_return, 1,
                    IF call = None THEN Trapped(env, ContractsDecodingFailed)
                    ELSE [env EXCEPT !.phase = "charge", !.call = call])
    /\ UNCHANGED ledger

\* DispatchCall::execute, up to the dispatch: the declared weight is charged first.
ChargeForDispatch ==
    /\ InPhase("charge")
    /\ MatchedFunction(env.id) = "dispatch"
    /\ LET weight == PreDispatchWeight(env.call) IN
       ChargeWeight(weight, 0, [env EXCEPT !.phase = "dispatch", !.charged = weight])
    /\ UNCHANGED ledger

\* DispatchCall::execute: dispatch with the contract as the signed origin, and adjust the
\* charge whether the call succeeded or not.
DispatchRuntimeCall ==
    /\ InPhase("dispatch")
    /\ LET r == DispatchCall(ledger, frame.contract, env.call) IN
       /\ ledger' = r.ledger
       /\ frame' = [AdjustWeight(frame, env.charged, ActualWeight(r, env.charged))
                       EXCEPT !.work = @ + r.work]
       /\ env' = [env EXCEPT !.phase = "convert", !.error = r.error, !.event = r.event]

\* The end of DispatchCall::execute: Converging(0), or VersionedErrorConverter::convert.
ConvertResult ==
    /\ InPhase("convert")
    /\ LET status == IF env.error = None THEN Success
                     ELSE VersionedStatus(env.error, version(env.id)) IN
       env' = IF status = None THEN Trapped(env, ContractsDecodingFailed)
              ELSE [env EXCEPT !.phase = "returned", !.status = status]
    /\ UNCHANGED <<ledger, frame>>

\* ReadState::execute, up to the read: the weight of the read is charged first, then the
\* read must be allowed.
ChargeForRead ==
    /\ InPhase("charge")
    /\ MatchedFunction(env.id) = "read"
    /\ ChargeWeight(ReadWeight(env.call), 0,
                    IF ReadAllowed(env.call) THEN [env EXCEPT !.phase = "read"]
                    ELSE Trapped(env, CallFiltered))
    /\ UNCHANGED ledger

\* Read::read and VersionedResultConverter::try_convert.
ReadRuntimeState ==
    /\ InPhase("read")
    /\ frame' = [frame EXCEPT !.work = @ + 1]
    /\ env' = IF version(env.id) = 0
              THEN [env EXCEPT !.phase = "write", !.value = Read(ledger, env.call)]
              ELSE Trapped(env, ContractsDecodingFailed)
    /\ UNCHANGED ledger

\* The end of ReadState::execute: charge for the output and write it to the contract.
WriteOutput ==
    /\ InPhase("write")
    /\ ChargeWeight(seal_input, 1,
                    IF env.room THEN [env EXCEPT !.phase = "returned", !.status = Success]
                    ELSE Trapped(env, OutputBufferTooSmall))
    /\ UNCHANGED ledger

ExtensionStep ==
    \/ ExtensionCall \/ DecodeInput \/ ChargeForDispatch \/ DispatchRuntimeCall
    \/ ConvertResult \/ ChargeForRead \/ ReadRuntimeState \/ WriteOutput
=============================================================================
