------------------------------- MODULE PopApi -------------------------------
(***************************************************************************)
(* The pop-api crate, which contracts are written against: each function   *)
(* of its fungibles API is a request to the chain extension, built from    *)
(* constants of its own, and its result is made of the status code and the *)
(* output that come back.                                                  *)
(***************************************************************************)
EXTENDS Extension

\* constants of v0/fungibles/mod.rs, by the function that uses each of them.
ApiStateQuery == [total_supply |-> 0, balance_of |-> 1, allowance |-> 2, token_name |-> 8,
               token_symbol |-> 9, token_decimals |-> 10, token_exists |-> 18]
ApiDispatchable == [transfer |-> 3, transfer_from |-> 4, approve |-> 5, increase_allowance |-> 6,
                  decrease_allowance |-> 7, create |-> 11, start_destroy |-> 12,
                  set_metadata |-> 16, clear_metadata |-> 17, mint |-> 19, burn |-> 20]

DISPATCH == 0
READ_STATE == 1
V0 == 0

\* build_extension_method: u32::from_le_bytes.
build_extension_method(function, v, module, dispatchable) == <<function, v, module, dispatchable>>

\* Mutant: one function has the index of the next.
build_dispatch_shifted(name) ==
    build_extension_method(DISPATCH, V0, FUNGIBLES,
                           IF name = "increase_allowance" THEN 7 ELSE ApiDispatchable[name])

build_dispatch(name) == build_extension_method(DISPATCH, V0, FUNGIBLES, ApiDispatchable[name])
build_read_state(name) == build_extension_method(READ_STATE, V0, FUNGIBLES, ApiStateQuery[name])

IsRead(name) == name \in DOMAIN ApiStateQuery

\* The request of an API function with its arguments.  The output buffer of a contract is
\* large enough for any result.
ApiRequest(name, token, who, other, value) ==
    Request(IF IsRead(name) THEN build_read_state(name) ELSE build_dispatch(name),
            Input(token, who, other, value), TRUE)

\* handle_error_code::<StatusCode>(): an error unless the status is 0.
Succeeded(status) == IsOk(status)

\* unwrap_or_default() on the result of a read.
UnwrapOrDefault(name, e) ==
    CASE Succeeded(e.status) -> e.value
      [] ~ Succeeded(e.status) /\ name \in {"token_name", "token_symbol"} -> None
      [] OTHER -> 0
=============================================================================
