----------------------------- MODULE Contracts ------------------------------
(***************************************************************************)
(* The contract methods of the RPC server (deploy_contract, call_contract, *)
(* estimate_gas in src/rpc/mermai_rpc.cpp) with the contracts table of the *)
(* database (src/db/mermai_db.cpp) and the interpreter.  Nothing writes    *)
(* the contract_storage table: what a contract stores ends with the call.  *)
(* An interpreter and its context belong to one request and share nothing  *)
(* with another one, so requests are served one at a time.                 *)
(*                                                                         *)
(* The address of a contract is a hash of its code: the code stands for    *)
(* its address.                                                            *)
(***************************************************************************)
EXTENDS Merlite

CONSTANTS Programs,    \* bytecode in a request
          Deployable,  \* bytecode that clients deploy
          Callers,     \* "from" in a request, as words
          Sources      \* Merlite sources whose code is among Programs

(* The allocator has room for a word per byte of compiled code.            *)
ASSUME ContractsConstants ==
  /\ Programs \subseteq Seq(Byte) /\ Deployable \subseteq Seq(Byte) /\ Callers \subseteq Word
  /\ \A s \in Sources : s \in Seq(Seq(Item)) /\ Len(Compile(s)) <= MaxStack

VARIABLE contracts  \* table contracts: the addresses, with their code

vars == <<vmVars, contracts>>

NoCode == <<>>

(* Assigns the interpreter's variables at once.                            *)
VMBecomes(s) ==
  /\ code' = s.code /\ caller' = s.caller /\ pc' = s.pc /\ stack' = s.stack
  /\ memory' = s.memory /\ storage' = s.storage /\ gas_used' = s.gas_used /\ status' = s.status

Idle == [Load(NoCode, Zero) EXCEPT !.status = "idle"]

Init ==
  /\ code = NoCode /\ caller = Zero /\ pc = 0 /\ stack = <<>> /\ memory = Idle.memory
  /\ storage = <<>> /\ gas_used = 0 /\ status = "idle"
  /\ contracts = {}

-----------------------------------------------------------------------------
(* Requests without code are answered with an error and change nothing.    *)
DeployContract(c) ==
  /\ status = "idle" /\ c # NoCode
  /\ contracts' = contracts \cup {c}
  /\ UNCHANGED vmVars

Start(c, from) ==
  /\ status = "idle" /\ c # NoCode
  /\ VMBecomes(Load(c, from))
  /\ UNCHANGED contracts

(* By address if there is code under it, else the code in the request.     *)
CallContract(address, inline, from) ==
  Start(IF address \in contracts THEN address ELSE inline, from)

EstimateGas(c) == Start(c, Zero)

Run == Execute /\ UNCHANGED contracts

(* execute has returned: the answer is the top of the stack, an error, or  *)
(* the gas used, and the context goes out of scope with the request.       *)
Respond ==
  /\ status \in {"ok", "failed"}
  /\ VMBecomes(Idle)
  /\ UNCHANGED contracts

Next ==
  \/ \E c \in Deployable : DeployContract(c)
  \/ \E a \in Deployable, from \in Callers : CallContract(a, NoCode, from)
  \/ \E c \in Programs, from \in Callers : CallContract(NoCode, c, from)
  \/ \E c \in Programs : EstimateGas(c)
  \/ Run
  \/ Respond

(* execute does not wait for anything, so a run goes on; requests come     *)
(* when they come.                                                         *)
Spec == Init /\ [][Next]_vars /\ WF_vars(Run)

-----------------------------------------------------------------------------
Compiled == [s \in Sources |-> Compile(s)]

HasRequire(s) ==
  \E n \in DOMAIN Tokenize(s) : Tokenize(s)[n].kind = "require"

(* Code that merlite_compiler::compile emits for assignments runs to its   *)
(* STOP: no jump leaves it, no operand is missing; only gas can end it.    *)
CompiledRuns ==
  \A s \in Sources :
     code = Compiled[s] /\ ~HasRequire(s) /\ status = "failed" => ~CheckGas

(* After a successful run of compiled code, the slot of each variable that *)
(* was assigned numbers holds one of them.                                 *)
AssignmentsStored ==
  \A s \in Sources : code = Compiled[s] /\ status = "ok" =>
    LET items == Tokenize(s)
        slots == Parsed(s).slots
        numeric == {n \in DOMAIN items : items[n].kind = "assign" /\ items[n].val = "number"}
    IN  \A n \in numeric : items[n].var \in DOMAIN slots =>
          \E m \in numeric :
             /\ items[m].var = items[n].var
             /\ WordOf(slots[items[n].var]) \in DOMAIN storage
             /\ storage[WordOf(slots[items[n].var])] = WordOf(items[m].num)
=============================================================================
