---------------------------- MODULE StatusCodes ----------------------------
(***************************************************************************)
(* How a DispatchError of the runtime becomes the u32 status code that a   *)
(* contract receives, and what the contract makes of it: the Error of      *)
(* pop-primitives, its conversions (primitives/src/lib.rs, versioning.rs)  *)
(* and the error types of pop-api.                                         *)
(*                                                                         *)
(* A u32 is the sequence of its four little-endian bytes, as the code      *)
(* itself takes it apart with to_le_bytes and from_le_bytes.               *)
(***************************************************************************)
EXTENDS Naturals, Sequences

CONSTANT None                       \* Option::None, or no entry in a map

\* The pallet indices that pop-api knows (pop-api/src/lib.rs, constants).
ASSETS == 52
BALANCES == 10
FUNGIBLES == 150
MODULE_ERROR == 3
-----------------------------------------------------------------------------
(* DispatchError of sp-runtime.  sub is the name of the nested error of a Token, *)
(* Arithmetic or Transactional error, error the four bytes of a module's.        *)

TokenErrors == <<"FundsUnavailable", "OnlyProvider", "BelowMinimum", "CannotCreate",
                 "UnknownAsset", "Frozen", "Unsupported", "CannotCreateHold", "NotExpendable",
                 "Blocked">>
ArithmeticErrors == <<"Underflow", "Overflow", "DivisionByZero">>
TransactionalErrors == <<"LimitReached", "NoLayer">>

DispatchError(kind) == [kind |-> kind, index |-> 0, error |-> <<0, 0, 0, 0>>, sub |-> None]
ModuleError(index, error) ==
    [kind |-> "Module", index |-> index, error |-> <<error, 0, 0, 0>>, sub |-> None]
NestedError(kind, sub) == [DispatchError(kind) EXCEPT !.sub = sub]

NestedNames == [Token |-> TokenErrors, Arithmetic |-> ArithmeticErrors,
                Transactional |-> TransactionalErrors]
NamesIn(names) == {names[i] : i \in DOMAIN names}

\* The type of a DispatchError: a nested error has one of the names of its kind.
Byte == 0..255
DispatchErrors ==
    {e \in [kind  : {"Other", "CannotLookup", "BadOrigin", "Module", "ConsumerRemaining",
                     "NoProviders", "TooManyConsumers", "Token", "Arithmetic", "Transactional",
                     "Exhausted", "Corruption", "Unavailable", "RootNotAllowed"},
            index : Byte, error : [1..4 -> Byte],
            sub   : {None} \cup UNION {NamesIn(NestedNames[k]) : k \in DOMAIN NestedNames}] :
        e.kind \in DOMAIN NestedNames => e.sub \in NamesIn(NestedNames[e.kind])}

\* pallet_contracts is pallet 40 and DecodingFailed its error 11.
CONTRACTS == 40
ContractsDecodingFailed == ModuleError(CONTRACTS, 11)
OutOfGas == ModuleError(CONTRACTS, 2)
OutputBufferTooSmall == ModuleError(CONTRACTS, 3)
CallFiltered == ModuleError(0, 5)
-----------------------------------------------------------------------------
(* pop_primitives::v0::Error: a variant and the bytes of its fields.              *)

\* The #[repr(u8)] discriminants.
Discriminant ==
    [Other |-> 0, CannotLookup |-> 1, BadOrigin |-> 2, Module |-> 3, ConsumerRemaining |-> 4,
     NoProviders |-> 5, TooManyConsumers |-> 6, Token |-> 7, Arithmetic |-> 8,
     Transactional |-> 9, Exhausted |-> 10, Corruption |-> 11, Unavailable |-> 12,
     RootNotAllowed |-> 13, DecodingFailed |-> 254, Unknown |-> 255]

Error(variant, fields) == [variant |-> variant, fields |-> fields]

\* The position of a nested error in its enum, which is its encoding.
VariantOf(names, name) == (CHOOSE i \in DOMAIN names : names[i] = name) - 1

\* A module error keeps two of its four bytes, the message of Other is dropped.
V0Error(error) ==
    CASE error.kind = "Module" /\ error = ContractsDecodingFailed -> Error("DecodingFailed", <<>>)
      [] error.kind = "Module" /\ error # ContractsDecodingFailed ->
            Error("Module", <<error.index, error.error[1], error.error[2]>>)
      [] error.kind \in DOMAIN NestedNames ->
            Error(error.kind, <<VariantOf(NestedNames[error.kind], error.sub)>>)
      [] OTHER -> Error(error.kind, <<>>)

\* impl From<Error> for u32: the encoding, resized to four bytes.
IntoStatus(error) ==
    LET encoded == <<Discriminant[error.variant]>> \o error.fields IN
    [i \in 1..4 |-> IF i <= Len(encoded) THEN encoded[i] ELSE 0]

\* impl From<u32> for Error: decode what the variant needs and ignore the rest.
FromStatus(status) ==
    LET variants == {v \in DOMAIN Discriminant : Discriminant[v] = status[1]}
        variant  == CHOOSE v \in variants : TRUE
    IN  CASE variants = {} -> Error("DecodingFailed", <<>>)
          [] variants # {} /\ variant \in {"Module", "Unknown"} ->
                Error(variant, <<status[2], status[3], status[4]>>)
          [] variants # {} /\ variant \in DOMAIN NestedNames ->
                IF status[2] < Len(NestedNames[variant]) THEN Error(variant, <<status[2]>>)
                                                         ELSE Error("DecodingFailed", <<>>)
          [] OTHER -> Error(variant, <<>>)

\* TryFrom<(DispatchError, Version)> for VersionedError, and its conversion into u32: the
\* status of a failed call, or None when no such version of errors exists.
VersionedStatus(error, version) == IF version = 0 THEN IntoStatus(V0Error(error)) ELSE None
-----------------------------------------------------------------------------
(* pop-api: what a contract makes of a status code.                              *)

Success == <<0, 0, 0, 0>>

\* FromStatusCode: Ok(()) for 0, otherwise Err(StatusCode(status)).
IsOk(status) == status = Success

\* impl From<StatusCode> for Psp22Error; Custom carries the code as text.
Psp22Error(status) ==
    CASE status[1] = MODULE_ERROR /\ status[2] = ASSETS /\ status[3] = 0 -> "InsufficientBalance"
      [] status[1] = MODULE_ERROR /\ status[2] = ASSETS /\ status[3] = 10 -> "InsufficientAllowance"
      [] OTHER -> "Custom"

\* impl From<StatusCode> for FungiblesError.
FungiblesError(status) ==
    LET assets == [code \in {0, 1, 2, 3, 5, 7, 10} |->
                      CASE code = 0 -> "NoAccount"
                        [] code = 1 -> "NoPermission"
                        [] code = 2 -> "Unknown"
                        [] code = 3 -> "InUse"
                        [] code = 5 -> "MinBalanceZero"
                        [] code = 7 -> "InsufficientAllowance"
                        [] code = 10 -> "NotLive"]
    IN  CASE status[2] = BALANCES /\ status[3] = 2 -> "NoBalance"
          [] status[2] = ASSETS /\ status[3] \in DOMAIN assets -> assets[status[3]]
          [] OTHER -> "Other"
=============================================================================
