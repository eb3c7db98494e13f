-------------------------------- MODULE Token -------------------------------
(***************************************************************************)
(* The MRM-20 token, class mermai_token_contract (src/vm/mermai_token.cpp):*)
(* balances, allowances, the supply and the log of events.  A call that is *)
(* refused returns false and changes nothing, so it is no step.            *)
(*                                                                         *)
(* Amounts are uint64_t and no operation checks for overflow: sums are     *)
(* taken modulo TokenModulus.                                              *)
(***************************************************************************)
EXTENDS Integers, FiniteSets, SequencesExt

CONSTANTS Holders,        \* addresses, none of them the empty string
          NoAddress,      \* the empty string
          TokenAmounts,   \* amounts that callers pass
          InitialSupply,
          TokenModulus,   \* 2^64
          MaxCalls        \* bound on the number of calls

ASSUME TokenConstants ==
  /\ IsFiniteSet(Holders)
  /\ NoAddress \notin Holders
  /\ TokenModulus \in Nat \ {0}
  /\ TokenAmounts \subseteq 0..(TokenModulus - 1)
  /\ InitialSupply \in 0..(TokenModulus - 1)

VARIABLES balances, allowances, total_supply, event_logs,
          owner_,     \* chosen when the contract is constructed
          caller,     \* history: who made the last call
          issued,     \* history: the supply as an exact integer
          cleared,    \* history: the balances when the log was last cleared
          calls       \* how much of the bound is used up

tokenVars == <<balances, allowances, total_supply, event_logs, owner_, caller, issued,
               cleared, calls>>

Event(type, from, to, value) == [type |-> type, from |-> from, to |-> to, value |-> value]

(* The constructor: without an owner the supply belongs to nobody.         *)
TokenInit ==
  /\ owner_ \in Holders \cup {NoAddress}
  /\ total_supply = InitialSupply
  /\ balances = [a \in Holders |-> IF a = owner_ THEN InitialSupply ELSE 0]
  /\ allowances = [a \in Holders |-> [s \in Holders |-> 0]]
  /\ event_logs = IF InitialSupply > 0 /\ owner_ # NoAddress
                  THEN <<Event("Transfer", NoAddress, owner_, InitialSupply)>> ELSE <<>>
  /\ caller = owner_
  /\ issued = InitialSupply
  /\ cleared = [a \in Holders |-> 0]
  /\ calls = 0

-----------------------------------------------------------------------------
Log(by, event) ==
  /\ calls < MaxCalls
  /\ calls' = calls + 1
  /\ event_logs' = Append(event_logs, event)
  /\ caller' = by
  /\ UNCHANGED <<owner_, cleared>>

(* Faulty variant: both new balances are computed before either is stored. *)
MovedFromCopies(from, to, amount) ==
  [balances EXCEPT ![from] = @ - amount, ![to] = (balances[to] + amount) % TokenModulus]

(* The two assignments of a transfer, one after the other: sender and      *)
(* receiver may be the same.                                               *)
Moved(from, to, amount) ==
  [[balances EXCEPT ![from] = @ - amount] EXCEPT ![to] = (@ + amount) % TokenModulus]

Transfer(by, to, amount) ==
  /\ balances[by] >= amount
  /\ balances' = Moved(by, to, amount)
  /\ Log(by, Event("Transfer", by, to, amount))
  /\ UNCHANGED <<allowances, total_supply, issued>>

Approve(by, spender, amount) ==
  /\ allowances' = [allowances EXCEPT ![by][spender] = amount]
  /\ Log(by, Event("Approval", by, spender, amount))
  /\ UNCHANGED <<balances, total_supply, issued>>

(* Faulty variant: the allowance is compared and not used up.              *)
TransferFromKeepsAllowance(spender, from, to, amount) ==
  /\ balances[from] >= amount
  /\ allowances[from][spender] >= amount
  /\ balances' = Moved(from, to, amount)
  /\ Log(spender, Event("Transfer", from, to, amount))
  /\ UNCHANGED <<allowances, total_supply, issued>>

TransferFrom(spender, from, to, amount) ==
  /\ balances[from] >= amount
  /\ allowances[from][spender] >= amount
  /\ allowances' = [allowances EXCEPT ![from][spender] = @ - amount]
  /\ balances' = Moved(from, to, amount)
  /\ Log(spender, Event("Transfer", from, to, amount))
  /\ UNCHANGED <<total_supply, issued>>

(* Only the owner mints; a contract constructed without one lets a caller  *)
(* without an address mint.                                                *)
MintTokens(by, to, amount) ==
  /\ by = owner_
  /\ total_supply' = (total_supply + amount) % TokenModulus
  /\ balances' = [balances EXCEPT ![to] = (@ + amount) % TokenModulus]
  /\ issued' = issued + amount
  /\ Log(by, Event("Mint", NoAddress, to, amount))
  /\ UNCHANGED allowances

Burn(by, amount) ==
  /\ balances[by] >= amount
  /\ balances' = [balances EXCEPT ![by] = @ - amount]
  /\ total_supply' = (total_supply - amount) % TokenModulus
  /\ issued' = issued - amount
  /\ Log(by, Event("Burn", by, NoAddress, amount))
  /\ UNCHANGED allowances

(* burn takes a caller without an address too, who has nothing to burn.    *)
BurnNothing ==
  /\ Log(NoAddress, Event("Burn", NoAddress, NoAddress, 0))
  /\ UNCHANGED <<balances, allowances, total_supply, issued>>

ClearEvents ==
  /\ calls < MaxCalls
  /\ calls' = calls + 1
  /\ event_logs' = <<>>
  /\ cleared' = balances
  /\ UNCHANGED <<balances, allowances, total_supply, owner_, caller, issued>>

TokenNext ==
  \/ ClearEvents
  \/ BurnNothing
  \/ \E amount \in TokenAmounts :
    \/ \E by, to \in Holders : Transfer(by, to, amount)
    \/ \E by, spender \in Holders : Approve(by, spender, amount)
    \/ \E spender, from, to \in Holders : TransferFrom(spender, from, to, amount)
    \/ \E by \in Holders \cup {NoAddress}, to \in Holders : MintTokens(by, to, amount)
    \/ \E by \in Holders : Burn(by, amount)

TokenSpec == TokenInit /\ [][TokenNext]_tokenVars

-----------------------------------------------------------------------------
(* What a wallet that only reads the log makes of the balances.            *)
Gained(f, a, v) == IF a = NoAddress THEN f ELSE [f EXCEPT ![a] = (@ + v) % TokenModulus]

Told(f, e) ==
  IF e.type = "Approval" THEN f ELSE Gained(Gained(f, e.from, -e.value), e.to, e.value)

Replayed == FoldLeft(Told, cleared, event_logs)

(* The books agree after any sequence of calls, wrapped sums included: the *)
(* balances are what the log of events says has happened since it was last *)
(* cleared, and together they are the total supply, less what a contract   *)
(* without an owner began with.                                            *)
BooksAgree ==
  /\ balances = Replayed
  /\ total_supply = (SumFunction(balances)
                       + IF owner_ = NoAddress THEN InitialSupply ELSE 0) % TokenModulus

(* As long as minting has not exceeded the width of the counters, nobody   *)
(* loses tokens except in his own call, or in the call of a spender whose  *)
(* allowance shrinks by the same amount.                                   *)
OnlyWithConsent ==
  [][issued' < TokenModulus =>
      \A a \in Holders : balances'[a] < balances[a] =>
        \/ caller' = a
        \/ /\ caller' \in Holders
           /\ allowances[a][caller'] - allowances'[a][caller'] = balances[a] - balances'[a]]_tokenVars
=============================================================================
