------------------------------ MODULE Merlite -------------------------------
(***************************************************************************)
(* The Merlite compiler (src/vm/merlite_compiler.cpp) and the assembler    *)
(* (mermai_contract_compiler in src/vm/mermai_vm.cpp), as functions from   *)
(* source text to bytecode.                                                *)
(*                                                                         *)
(* A source is a sequence of lines and a line a sequence of items, the     *)
(* groups of tokens that the parser's loop takes at once:                  *)
(*   state   state <type> var;            assign  var = expr;              *)
(*   fn      pub fn name(...) -> type {   require require(...);            *)
(*   open    a brace, opening             other   any other statement      *)
(*   close   a brace, closing                                              *)
(* The right side of an assignment is "number" (num), "refused", a number  *)
(* that std::stoull throws at, "caller" or "expr", any other expression.   *)
(***************************************************************************)
EXTENDS VM, SequencesExt

(* The byte of an opcode, and the cast of a number to a byte.              *)
ByteOf(op) == CHOOSE b \in Byte : OpcodeOf[b] = op
Cast(n) == n % ByteBase

Emitted == {"PUSH1", "CALLER", "SSTORE", "JMPI", "REVERT", "STOP"}

ASSUME MerliteConstants == \A op \in Emitted : \E b \in Byte : OpcodeOf[b] = op

Item ==
  [kind : {"state"}, var : STRING]
    \cup [kind : {"assign"}, var : STRING, val : {"number", "refused", "caller", "expr"}, num : Nat]
    \cup [kind : {"fn", "open", "close", "require", "other"}]

(* Items whose text ends with a semicolon.                                 *)
Terminated(item) == item.kind \in {"state", "assign", "require", "other"}

(* The tokenizer takes a semicolon for the start of a comment: the rest of *)
(* the line is gone.                                                       *)
Scanned(line) ==
  LET ends == {n \in DOMAIN line : Terminated(line[n])}
  IN  IF ends = {} THEN line
      ELSE SubSeq(line, 1, CHOOSE n \in ends : \A m \in ends : n <= m)

Tokenize(source) == FoldLeft(LAMBDA items, line : items \o Scanned(line), <<>>, source)

-----------------------------------------------------------------------------
(* The value of the literal, and the placeholders for the rest.            *)
Literal(item) ==
  CASE item.val = "number" -> item.num [] item.val = "caller" -> 1 [] item.val = "expr" -> 100

SlotOf(slots, var) == IF var \in DOMAIN slots THEN slots[var] ELSE 0

(* Faulty variant of EmitAssign: the store comes before its operands.      *)
EmitAssignEarly(slots, item) ==
  <<ByteOf("SSTORE"), ByteOf("PUSH1"), Cast(SlotOf(slots, item.var)), ByteOf("PUSH1"), Cast(Literal(item))>>

EmitAssign(slots, item) ==
  (IF item.val = "caller" THEN <<ByteOf("CALLER")>> ELSE <<>>)
  \o <<ByteOf("PUSH1"), Cast(SlotOf(slots, item.var)),
       ByteOf("PUSH1"), Cast(Literal(item)), ByteOf("SSTORE")>>

(* The condition is not compiled; size is that of the code before.         *)
EmitRequire(size) ==
  <<ByteOf("PUSH1"), 1, ByteOf("JMPI"), Cast(size + 5), ByteOf("REVERT")>>

Begin == [slots |-> <<>>, next |-> 0, bytes |-> <<>>, depth |-> 0, done |-> FALSE, error |-> FALSE]

(* One item.  depth counts the braces of a function body, 0 outside one;   *)
(* statements are compiled at depth 1 only.  A closing brace that ends a   *)
(* function body is not consumed and ends the whole compilation, and so    *)
(* does an exception.                                                      *)
Parse(c, item) ==
  IF c.done THEN c ELSE
  CASE item.kind = "close" ->
         IF c.depth > 1 THEN [c EXCEPT !.depth = @ - 1] ELSE [c EXCEPT !.done = TRUE]
    [] item.kind = "fn" -> [c EXCEPT !.depth = @ + 1]
    [] item.kind = "open" /\ c.depth > 0 -> [c EXCEPT !.depth = @ + 1]
    [] item.kind = "state" /\ c.depth = 0 ->
         [c EXCEPT !.slots = [v \in DOMAIN c.slots \cup {item.var} |->
                                IF v = item.var THEN c.next ELSE c.slots[v]],
                   !.next = @ + 1]
    [] item.kind = "assign" /\ c.depth = 1 /\ item.val = "refused" ->
         [c EXCEPT !.done = TRUE, !.error = TRUE]
    [] item.kind = "assign" /\ c.depth = 1 /\ item.val # "refused" ->
         [c EXCEPT !.bytes = @ \o EmitAssign(c.slots, item)]
    [] item.kind = "require" /\ c.depth = 1 ->
         [c EXCEPT !.bytes = @ \o EmitRequire(Len(@))]
    [] OTHER -> c

Parsed(source) == FoldLeft(Parse, Begin, Tokenize(source))

(* The bytecode; <<>> where the compiler reports an error.                 *)
Compile(source) ==
  IF Tokenize(source) = <<>> \/ Parsed(source).error THEN <<>>
  ELSE Append(Parsed(source).bytes, ByteOf("STOP"))

-----------------------------------------------------------------------------
(* The assembler: a word is the name of an opcode or the operand of        *)
(* PUSH1; an unknown word throws, which leaves no code.                    *)
AsmOpcodes ==
  {"PUSH0", "STOP", "POP", "ADD", "SUB", "MUL", "DIV", "MOD", "SLOAD", "SSTORE"}

AssembleWord(w) ==
  IF w.op = "PUSH1" THEN <<ByteOf("PUSH1"), Cast(w.arg)>> ELSE <<ByteOf(w.op)>>

Assemble(words) ==
  IF \E n \in DOMAIN words : words[n].op \notin AsmOpcodes \cup {"PUSH1"} THEN <<>>
  ELSE FoldLeft(LAMBDA bytes, w : bytes \o AssembleWord(w), <<>>, words)
=============================================================================
