--------------------------------- MODULE VM ---------------------------------
(***************************************************************************)
(* One run of the contract interpreter, mermai_vm::execute                 *)
(* (src/vm/mermai_vm.cpp).  One action per group of opcodes that the       *)
(* switch treats alike; a step that would return false or throw is Abort.  *)
(*                                                                         *)
(* A byte is a number below ByteBase (256 in the code), a word a sequence  *)
(* of WordBytes bytes, most significant first (32), of which LowBytes fit  *)
(* into a uint64_t (8).  The header with the opcode numbers and the gas    *)
(* prices is not part of the repository: both are constants.               *)
(***************************************************************************)
EXTENDS Integers, Sequences

CONSTANTS ByteBase, WordBytes, LowBytes,
          OpcodeOf,      \* byte -> name of the opcode, or "unknown"
          GAS_PUSH, GAS_ADD, GAS_MUL, GAS_SLOAD, GAS_SSTORE,
          gas_limit,     \* context.gas_limit
          MemoryBytes,   \* size of context.memory, 65536
          MaxStack,      \* words the allocator has room for (bound)
          Clock          \* what std::time may answer

Byte == 0..(ByteBase - 1)
Word == [1..WordBytes -> Byte]

ASSUME VMConstants ==
  /\ ByteBase \in Nat \ {0, 1} /\ WordBytes \in Nat \ {0} /\ LowBytes \in 1..WordBytes
  /\ {GAS_PUSH, GAS_ADD, GAS_MUL, GAS_SLOAD, GAS_SSTORE} \subseteq Nat \ {0}
  /\ gas_limit \in Nat /\ MemoryBytes \in Nat /\ MaxStack \in Nat
  /\ Clock \subseteq Nat

VARIABLES code,      \* bytecode
          caller,    \* context.caller_address, as a word
          pc,        \* context.program_counter
          stack,     \* context.stack, the top last
          memory,    \* context.memory
          storage,   \* context.storage: word -> word, where written
          gas_used,  \* context.gas_used
          status     \* "running", and how the run ended: "ok" (execute is
                     \* true), "failed" (false), "trap" (the process died)

vmVars == <<code, caller, pc, stack, memory, storage, gas_used, status>>

Zero == [i \in 1..WordBytes |-> 0]

(* A new interpreter and context for code c on behalf of from.             *)
Load(c, from) ==
  [code |-> c, caller |-> from, pc |-> 0, stack |-> <<>>, memory |-> [i \in 0..(MemoryBytes - 1) |-> 0],
   storage |-> <<>>, gas_used |-> 0, status |-> "running"]

-----------------------------------------------------------------------------
(* Words and the numbers the interpreter computes with.                    *)
Lowest(w) == w[WordBytes]

(* The weight of a byte that many places above the lowest                  *)
Power[n \in Nat] == IF n = 0 THEN 1 ELSE ByteBase * Power[n - 1]

WordOf(n) ==
  [i \in 1..WordBytes |->
     IF i <= WordBytes - LowBytes THEN 0 ELSE (n \div Power[WordBytes - i]) % ByteBase]

Low(w) ==
  LET v[n \in 0..LowBytes] ==
        IF n = 0 THEN 0 ELSE v[n - 1] * ByteBase + w[WordBytes - LowBytes + n]
  IN  v[LowBytes]

Truth(b) == [Zero EXCEPT ![WordBytes] = IF b THEN 1 ELSE 0]

(* Faulty variant of Add: a carry reaches only the next byte.              *)
AddShortCarry(a, b) ==
  [i \in 1..WordBytes |->
     (a[i] + b[i] + (IF i < WordBytes THEN (a[i + 1] + b[i + 1]) \div ByteBase ELSE 0)) % ByteBase]

Add(a, b) ==
  LET carry[i \in 1..(WordBytes + 1)] ==    \* out of position i
        IF i > WordBytes THEN 0 ELSE (a[i] + b[i] + carry[i + 1]) \div ByteBase
  IN  [i \in 1..WordBytes |-> (a[i] + b[i] + carry[i + 1]) % ByteBase]

Sub(a, b) ==
  LET borrow[i \in 1..(WordBytes + 1)] ==
        IF i > WordBytes THEN 0 ELSE IF a[i] - b[i] - borrow[i + 1] < 0 THEN 1 ELSE 0
      diff(i) == a[i] - b[i] - borrow[i + 1]
  IN  [i \in 1..WordBytes |-> IF diff(i) < 0 THEN diff(i) + ByteBase ELSE diff(i)]

Mul(a, b) == WordOf((Low(a) * Low(b)) % Power[LowBytes])

(* std::lexicographical_compare                                            *)
Less(a, b) ==
  \E i \in 1..WordBytes : a[i] < b[i] /\ \A j \in 1..(i - 1) : a[j] = b[j]

-----------------------------------------------------------------------------
Opcode == OpcodeOf[code[pc + 1]]

Top == stack[Len(stack)]
Second == stack[Len(stack) - 1]
Below(n) == SubSeq(stack, 1, Len(stack) - n)

Pushing == {"PUSH0", "PUSH1", "PUSH32"}
Environment == {"CALLER", "CALLVALUE", "TIMESTAMP", "GASLIMIT"}
Binary == {"ADD", "MUL", "SUB", "LT", "GT", "EQ"}

Operands(op) ==
  CASE op \in {"POP", "DUP1", "MLOAD", "SLOAD", "JMP"} -> 1
    [] op \in Binary \cup {"DIV", "MOD", "SWAP1", "MSTORE", "SSTORE", "JMPI"} -> 2
    [] OTHER -> 0

Immediate(op) == CASE op = "PUSH1" -> 1 [] op = "PUSH32" -> WordBytes [] OTHER -> 0

Cost(op) ==
  CASE op \in Pushing -> GAS_PUSH
    [] op \in {"ADD", "SUB", "DIV", "MOD"} -> GAS_ADD
    [] op = "MUL" -> GAS_MUL
    [] op = "SLOAD" -> GAS_SLOAD
    [] op = "SSTORE" -> GAS_SSTORE
    [] OTHER -> 0

(* Faulty variant of CheckGas: the limit is compared once, with nothing    *)
(* spent.                                                                  *)
CheckGasAtStart == 1 <= gas_limit

(* The check asks for one unit, whatever the instruction will cost.        *)
CheckGas == gas_used + 1 <= gas_limit

(* Faulty variant of Charged: the counter wraps around at the limit.       *)
ChargedWrapped(op) == (gas_used + Cost(op)) % gas_limit

Charged(op) == gas_used + Cost(op)

(* The conditions under which the switch neither returns false nor throws. *)
Sound ==
  /\ Opcode \notin {"REVERT", "unknown"}
  /\ Len(stack) >= Operands(Opcode)
  /\ pc + Immediate(Opcode) < Len(code)
  /\ Opcode \in Pushing \cup Environment \cup {"DUP1"} => Len(stack) < MaxStack
  /\ Opcode = "JMP" => Lowest(Top) < Len(code)
  /\ Opcode = "JMPI" /\ Second # Zero => Lowest(Top) < Len(code)
  /\ Opcode \in {"MLOAD", "MSTORE"} => Lowest(Top) + WordBytes <= MemoryBytes

Fetched == status = "running" /\ pc < Len(code)

Fetch(ops) == Fetched /\ CheckGas /\ Opcode \in ops /\ Sound

(* The usual end of a case: the new stack, the price, the next opcode.     *)
Proceed(stk) ==
  /\ stack' = stk
  /\ gas_used' = Charged(Opcode)
  /\ pc' = pc + 1 + Immediate(Opcode)
  /\ UNCHANGED <<code, caller, status>>

-----------------------------------------------------------------------------
EndOfCode ==
  /\ status = "running" /\ pc >= Len(code)
  /\ status' = "ok"
  /\ UNCHANGED <<code, caller, pc, stack, memory, storage, gas_used>>

OutOfGas ==
  /\ Fetched /\ ~CheckGas
  /\ status' = "failed"
  /\ UNCHANGED <<code, caller, pc, stack, memory, storage, gas_used>>

Abort ==
  /\ Fetched /\ CheckGas /\ ~Sound
  /\ status' = "failed"
  /\ UNCHANGED <<code, caller, pc, stack, memory, storage, gas_used>>

Push ==
  /\ Fetch(Pushing)
  /\ Proceed(Append(stack, CASE Opcode = "PUSH0" -> Zero
                             [] Opcode = "PUSH1" -> [Zero EXCEPT ![WordBytes] = code[pc + 2]]
                             [] Opcode = "PUSH32" -> SubSeq(code, pc + 2, pc + 1 + WordBytes)))
  /\ UNCHANGED <<memory, storage>>

PushEnvironment ==
  /\ Fetch(Environment)
  /\ \E now \in Clock :
       Proceed(Append(stack,
         CASE Opcode = "CALLER" -> caller
           [] Opcode = "CALLVALUE" -> Zero
           [] Opcode = "TIMESTAMP" -> WordOf(now)
           [] Opcode = "GASLIMIT" -> WordOf(IF gas_limit > gas_used THEN gas_limit - gas_used ELSE 0)))
  /\ UNCHANGED <<memory, storage>>

Rearrange ==
  /\ Fetch({"POP", "DUP1", "SWAP1"})
  /\ Proceed(CASE Opcode = "POP" -> Below(1)
               [] Opcode = "DUP1" -> Append(stack, Top)
               [] Opcode = "SWAP1" -> Below(2) \o <<Top, Second>>)
  /\ UNCHANGED <<memory, storage>>

Compute ==
  /\ Fetch(Binary)
  /\ Proceed(Append(Below(2),
       CASE Opcode = "ADD" -> Add(Second, Top)
         [] Opcode = "SUB" -> Sub(Second, Top)
         [] Opcode = "MUL" -> Mul(Second, Top)
         [] Opcode = "LT" -> Truth(Less(Second, Top))
         [] Opcode = "GT" -> Truth(Second # Top /\ ~Less(Second, Top))
         [] Opcode = "EQ" -> Truth(Second = Top)))
  /\ UNCHANGED <<memory, storage>>

Quotient(left, right) == IF Opcode = "DIV" THEN left \div right ELSE left % right

(* The divisor is tested for zero as a word, and used as a uint64_t.       *)
Divide ==
  /\ Fetch({"DIV", "MOD"})
  /\ Top = Zero \/ Low(Top) # 0
  /\ Proceed(Append(Below(2),
       IF Top = Zero THEN Zero ELSE WordOf(Quotient(Low(Second), Low(Top)))))
  /\ UNCHANGED <<memory, storage>>

(* uint64_t division by zero is undefined: the processor raises an         *)
(* exception (x86), or answers zero and the dividend (ARM).                *)
DivideUndefined ==
  /\ Fetch({"DIV", "MOD"})
  /\ Top # Zero /\ Low(Top) = 0
  /\ \/ /\ status' = "trap"
        /\ UNCHANGED <<code, caller, pc, stack, gas_used>>
     \/ Proceed(Append(Below(2), WordOf(IF Opcode = "DIV" THEN 0 ELSE Low(Second))))
  /\ UNCHANGED <<memory, storage>>

MemoryLoad ==
  /\ Fetch({"MLOAD"})
  /\ Proceed(Append(Below(1), [i \in 1..WordBytes |-> memory[Lowest(Top) + i - 1]]))
  /\ UNCHANGED <<memory, storage>>

MemoryStore ==
  /\ Fetch({"MSTORE"})
  /\ memory' = [a \in DOMAIN memory |->
                  IF a \in Lowest(Top)..(Lowest(Top) + WordBytes - 1)
                  THEN Second[a - Lowest(Top) + 1] ELSE memory[a]]
  /\ Proceed(Below(2))
  /\ UNCHANGED storage

StorageLoad ==
  /\ Fetch({"SLOAD"})
  /\ Proceed(Append(Below(1), IF Top \in DOMAIN storage THEN storage[Top] ELSE Zero))
  /\ UNCHANGED <<memory, storage>>

(* The key is on top of the value.                                         *)
StorageStore ==
  /\ Fetch({"SSTORE"})
  /\ storage' = [k \in DOMAIN storage \cup {Top} |-> IF k = Top THEN Second ELSE storage[k]]
  /\ Proceed(Below(2))
  /\ UNCHANGED memory

(* JMP and a JMPI whose condition, below the target, is not zero.          *)
Jump ==
  /\ Fetch({"JMP", "JMPI"})
  /\ Opcode = "JMPI" => Second # Zero
  /\ pc' = Lowest(Top)
  /\ stack' = Below(Operands(Opcode))
  /\ UNCHANGED <<code, caller, memory, storage, gas_used, status>>

JumpNotTaken ==
  /\ Fetch({"JMPI"}) /\ Second = Zero
  /\ Proceed(Below(2))
  /\ UNCHANGED <<memory, storage>>

Halt ==
  /\ Fetch({"RETURN", "STOP"})
  /\ status' = "ok"
  /\ pc' = pc + 1
  /\ UNCHANGED <<code, caller, stack, memory, storage, gas_used>>

Execute ==
  \/ EndOfCode \/ OutOfGas \/ Abort
  \/ Push \/ PushEnvironment \/ Rearrange
  \/ Compute \/ Divide \/ DivideUndefined
  \/ MemoryLoad \/ MemoryStore \/ StorageLoad \/ StorageStore
  \/ Jump \/ JumpNotTaken \/ Halt

-----------------------------------------------------------------------------
(* check_gas(1) comes before an instruction and its price after it: a run  *)
(* spends at most the price of its last instruction, less one unit, beyond *)
(* its limit.                                                              *)
GasBounded ==
  \E price \in {GAS_PUSH, GAS_ADD, GAS_MUL, GAS_SLOAD, GAS_SSTORE} :
     gas_used < gas_limit + price

(* The number a word stands for.                                           *)
Value(w) ==
  LET v[n \in 0..WordBytes] == IF n = 0 THEN 0 ELSE v[n - 1] * ByteBase + w[n]
  IN  v[WordBytes]

(* What an arithmetic opcode must leave on the stack, as a number: the     *)
(* result modulo the width of a word for ADD and SUB, and for MUL, DIV and *)
(* MOD of numbers that fit into 64 bits modulo that width, with the        *)
(* quotient and remainder by zero defined as zero.                         *)
ExactResult ==
  LET a == Value(Second)
      b == Value(Top)
      r == Value(stack'[Len(stack')])
      small == Power[LowBytes]
  IN  /\ Opcode = "ADD" => r = (a + b) % Power[WordBytes]
      /\ Opcode = "SUB" => (r + b) % Power[WordBytes] = a
      /\ Opcode = "LT" => (r = 1) = (a < b)
      /\ Opcode = "GT" => (r = 1) = (a > b)
      /\ Opcode = "EQ" => (r = 1) = (a = b)
      /\ a < small /\ b < small =>
           /\ Opcode = "MUL" => r = (a * b) % small
           /\ Opcode = "DIV" => r = (IF b = 0 THEN 0 ELSE a \div b)
           /\ Opcode = "MOD" => r = (IF b = 0 THEN 0 ELSE a % b)

(* The byte loops of the arithmetic opcodes compute exactly that.          *)
ArithmeticExact ==
  [][Fetch(Binary \cup {"DIV", "MOD"}) /\ stack' # stack => ExactResult]_vmVars

(* A run that keeps being charged ends: gas bounds every loop that         *)
(* contains a priced instruction.  Jumps, duplicates and comparisons are   *)
(* free, so a loop of those alone is not bounded by gas.                   *)
ChargedRunsHalt ==
  []<><<gas_used' > gas_used>>_vmVars => []<>(status # "running")
=============================================================================
