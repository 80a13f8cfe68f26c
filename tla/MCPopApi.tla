------------------------------ MODULE MCPopApi ------------------------------
(***************************************************************************)
(* An instance of the fungibles API for TLC: one token id, two users, the  *)
(* example contract, the requesting contract, and an account that does not *)
(* exist.                                                                  *)
(***************************************************************************)
EXTENDS PopApiProperties

CONSTANTS user, other, contract, requester, nobody, token

Amount == {1, 2}
Funds == [a \in AccountId |-> IF a = contract THEN 3 ELSE IF a = nobody THEN 0 ELSE 2]

Msg(name, who, to, value) == [name |-> name, who |-> who, other |-> to, value |-> value]
Messages ==
    {Msg("new", None, None, v) : v \in Amount}
    \cup {Msg("total_supply", None, None, 0), Msg("balance_of", user, None, 0),
          Msg("token_name", None, None, 0), Msg("token_symbol", None, None, 0),
          Msg("token_decimals", None, None, 0), Msg("allowance", contract, user, 0)}
    \cup {Msg("transfer", to, None, 1) : to \in {user, nobody}}
    \cup {Msg("transfer_from", user, contract, v) : v \in {0, 1}}
    \cup {Msg("approve", user, None, v) : v \in {0, 1, 2}}
    \cup {Msg("increase_allowance", user, None, v) : v \in {0, 2}}
    \cup {Msg("decrease_allowance", user, None, v) : v \in Amount}
    \cup {Msg("mint", contract, None, 1), Msg("mint", user, None, 2)}
    \cup {Msg("burn", user, None, v) : v \in {0, 1}}
    \cup {Msg("transfer_ownership", u, None, 0) : u \in {user, other}}

Api(name, who, to, value) == ApiRequest(name, token, who, to, value)
RawRequests ==
    {Request(id, Input(token, user, None, 1), TRUE) :
        id \in {<<2, 0, FUNGIBLES, 3>>,      \* no such function
                <<0, 1, FUNGIBLES, 3>>,      \* no such version
                <<0, 0, FUNGIBLES + 1, 3>>,  \* no such module
                <<0, 0, FUNGIBLES, 13>>,     \* no such dispatchable
                <<1, 1, FUNGIBLES, 1>>,      \* no such version of reads
                <<0, 0, BALANCES, 3>>}}      \* a call that is not of the API
    \cup {Request(<<0, 0, FUNGIBLES, 3>>, None, TRUE),
          Request(<<1, 0, FUNGIBLES, 18>>, Input(token, None, None, 0), FALSE),
          Api("token_exists", None, None, 0), Api("create", requester, None, 2),
          Api("start_destroy", None, None, 0), Api("set_metadata", None, None, 1),
          Api("clear_metadata", None, None, 0), Api("mint", user, None, 2),
          Api("burn", user, None, 1), Api("transfer_from", user, requester, 1)}

Call(name, who, to, value) ==
    [name |-> name, token |-> token, who |-> who, other |-> to, value |-> value]
Extrinsics ==
    [origin : {user},
     call : {Call("approve", contract, None, v) : v \in {0, 2}}
            \cup {Call("approve", requester, None, 1), Call("create", user, None, 1),
                  Call("set_metadata", None, None, 3), Call("start_destroy", None, None, 0),
                  Call("transfer", contract, None, 1),
                  Call("transfer_from", contract, user, 1)}]
=============================================================================
