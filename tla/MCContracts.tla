---------------------------- MODULE MCContracts -----------------------------
(* Bytes below 32 and words of three bytes, two of them in the range of a  *)
(* uint64_t.  Programs: every binary opcode on boundary words, every       *)
(* program of two bytes and a choice of longer ones with loops, and what   *)
(* the compilers make of a few sources.                                    *)
EXTENDS Contracts

Names ==
  <<"STOP", "PUSH0", "PUSH1", "PUSH32", "POP", "ADD", "MUL", "SUB", "DIV", "MOD", "DUP1", "SWAP1",
    "LT", "GT", "EQ", "MLOAD", "MSTORE", "SLOAD", "SSTORE", "JMP", "JMPI", "CALLER", "CALLVALUE",
    "TIMESTAMP", "GASLIMIT", "RETURN", "REVERT">>

MCOpcodeOf == [b \in 0..31 |-> IF b < Len(Names) THEN Names[b + 1] ELSE "unknown"]

MCCallers == {<<1, 0, 31>>}

B(op) == ByteOf(op)

Boundary ==
  {<<0, 0, 0>>, <<0, 0, 1>>, <<0, 0, 31>>, <<0, 1, 0>>, <<0, 31, 31>>, <<1, 0, 0>>, <<31, 31, 31>>}

Calculations ==
  {<<B("PUSH32")>> \o a \o <<B("PUSH32")>> \o b \o <<B(op)>> :
      a \in Boundary, b \in Boundary, op \in Binary \cup {"DIV", "MOD"}}

(* One byte of data, then any two opcodes.                                 *)
Short == {<<B("PUSH1"), n, x, y>> : n \in {0, 3}, x \in 0..31, y \in 0..31}

(* A priced loop, a free loop, a free loop that grows the stack, a loop    *)
(* that stores, a conditional jump taken and not taken, a jump out of the  *)
(* code, a jump into data, a word written to memory and read one byte off. *)
Longer ==
  {<<B("PUSH0"), B("JMP")>>,
   <<B("PUSH1"), 2, B("DUP1"), B("JMP")>>,
   <<B("PUSH1"), 2, B("DUP1"), B("DUP1"), B("JMP")>>,
   <<B("CALLER"), B("PUSH1"), 7, B("SSTORE"), B("PUSH0"), B("JMP")>>,
   <<B("PUSH1"), 1, B("PUSH1"), 6, B("JMPI"), B("REVERT"), B("STOP")>>,
   <<B("PUSH0"), B("PUSH1"), 9, B("JMPI"), B("RETURN")>>,
   <<B("PUSH1"), 9, B("JMP")>>,
   <<B("PUSH1"), 4, B("JMP"), B("PUSH1"), B("STOP")>>,
   <<B("CALLER"), B("PUSH1"), 31, B("MSTORE"), B("PUSH1"), 30, B("MLOAD"), B("PUSH1"), 5, B("SSTORE"),
     B("PUSH1"), 5, B("SLOAD")>>}

State(v) == [kind |-> "state", var |-> v]
Assign(v, n) == [kind |-> "assign", var |-> v, val |-> "number", num |-> n]
AssignOf(v, e) == [kind |-> "assign", var |-> v, val |-> e, num |-> 0]
Fn == [kind |-> "fn"]
Open == [kind |-> "open"]
Close == [kind |-> "close"]
Require == [kind |-> "require"]
Other == [kind |-> "other"]

(* The contract of tests/merlite_compiler_test.cpp, a nested block, two    *)
(* statements on a line, an undeclared variable, a require, and a number   *)
(* that does not compile.                                                  *)
MCSources ==
  {<<<<State("supply")>>, <<State("owner")>>, <<Fn>>, <<AssignOf("owner", "caller")>>,
     <<Assign("supply", 40)>>, <<Close>>, <<Fn>>, <<Require>>, <<Other>>, <<Close>>, <<Close>>>>,
   <<<<State("a")>>, <<State("b")>>, <<Fn>>, <<Open>>, <<Assign("a", 1)>>, <<Close>>, <<Assign("b", 2)>>,
     <<Close>>>>,
   <<<<State("a"), State("b")>>, <<Fn, Assign("a", 3), Assign("b", 4), Close>>, <<AssignOf("b", "expr")>>>>,
   <<<<State("a")>>, <<Fn>>, <<Require>>, <<Assign("a", 5)>>, <<Close>>>>,
   <<<<Fn>>, <<AssignOf("x", "caller")>>, <<Require>>>>,
   <<<<State("a")>>, <<Fn>>, <<Assign("a", 5)>>, <<AssignOf("a", "refused")>>, <<Close>>>>,
   <<>>}

Listing ==
  <<[op |-> "PUSH1", arg |-> 7], [op |-> "PUSH0"], [op |-> "SSTORE"], [op |-> "STOP"]>>

MCCompiled == {Compile(s) : s \in MCSources} \ {<<>>}
MCListed == {Assemble(Listing)}

MCPrograms == Calculations \cup Short \cup Longer \cup MCCompiled
                \cup {Assemble(Append(Listing, [op |-> "JMP"]))}
=============================================================================
