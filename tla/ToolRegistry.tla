----------------------------- MODULE ToolRegistry -----------------------------
(***************************************************************************)
(* The agent's tools, src/src/agent/tools.rs: the table of registered      *)
(* tools, the key-value memory and the four built-in tools.                *)
(*                                                                         *)
(* A call of execute is one step: it takes &mut self and runs to its end.  *)
(* `reply` is its Result, or "panic" when the call does not return.        *)
(*                                                                         *)
(* Text is abstracted to what the tools tell apart.  A key is a word that  *)
(* may carry white space other than a blank around it (a tab: a blank ends *)
(* the key), which trim() removes.  A calculator operand is a number, of   *)
(* any size, or NotANumber.                                                *)
(***************************************************************************)
EXTENDS Integers, FiniteSets

CONSTANTS
    Words,            \* the words keys are made of
    Values,           \* values that can be stored
    Operands,         \* operands of the calculator: integers
    NotANumber,       \* an operand that str::parse rejects
    MinInt, MaxInt,   \* the range of i64
    Profiles          \* values of overflow-checks, TRUE in the dev profile

BuiltinTool == {"calc", "store", "recall", "echo"}

ASSUME RangeAssumption ==
    /\ MinInt \in Int /\ MaxInt \in Int
    /\ MinInt = -(MaxInt + 1) /\ MaxInt > 0
ASSUME ProfilesAssumption == Profiles \subseteq BOOLEAN
ASSUME OperandsAssumption == Operands \subseteq Int /\ NotANumber \notin Int

VARIABLES
    checks,   \* the profile the kernel was built with
    tools,    \* keys of the BTreeMap of registered tools
    memory,   \* BTreeMap<String, String>
    call,     \* history: the last call of execute
    reply,    \* its result
    told      \* history: the value last stored under a word, typed plainly

toolVars == <<checks, tools, memory, call, reply, told>>

Key == [word : Words, padded : BOOLEAN]
i64 == MinInt .. MaxInt
Operators == {"+", "-", "*", "/"}

NoCall == [tool |-> "none"]
NoReply == [status |-> "none"]
Ok(v) == [status |-> "ok", value |-> v]
Err == [status |-> "err"]
Panic == [status |-> "panic"]

(* str::trim on a key. *)
trim(key) == [key EXCEPT !.padded = FALSE]

(* str::parse::<i64> succeeds. *)
parses(x) == x # NotANumber /\ x \in i64

(* Two's complement wrap-around of a result that is not in range. *)
wrap(n) == ((n - MinInt) % (2 * (MaxInt + 1))) + MinInt

(* The checked +, - and * of i64. *)
arith(n) ==
    CASE n \in i64 -> Ok(n)
      [] n \notin i64 /\ checks -> Panic
      [] n \notin i64 /\ ~ checks -> Ok(wrap(n))

(* map, with value under key. *)
insert(map, key, value) ==
    [k \in DOMAIN map \cup {key} |-> IF k = key THEN value ELSE map[k]]

Abs(n) == IF n < 0 THEN -n ELSE n

(* Division of i64 rounds toward zero; MIN / -1 panics in every profile. *)
floor_div(a, b) == IF b < 0 THEN Ok((-a) \div (-b)) ELSE Ok(a \div b)
div(a, b) ==
    LET q == Abs(a) \div Abs(b)
        n == IF (a < 0) = (b < 0) THEN q ELSE -q
    IN  IF n \in i64 THEN Ok(n) ELSE Panic

(* exec_calculator on an expression of three words. *)
evaluate(a, op, b) ==
    IF ~ parses(a) \/ ~ parses(b) THEN Err
    ELSE CASE op = "+" -> arith(a + b)
           [] op = "-" -> arith(a - b)
           [] op = "*" -> arith(a * b)
           [] op = "/" -> IF b = 0 THEN Err ELSE div(a, b)
           [] OTHER -> Err

Init ==
    /\ checks \in Profiles
    /\ tools = {}
    /\ memory = <<>>
    /\ call = NoCall
    /\ reply = NoReply
    /\ told = <<>>

(* A panic halts the kernel: no call follows one that panicked. *)
Running == reply # Panic

register(tool) ==
    /\ Running
    /\ tools' = tools \cup {tool}
    /\ call' = NoCall
    /\ reply' = NoReply
    /\ UNCHANGED <<checks, memory, told>>

(* execute with a name that is not in the table. *)
execute_unknown_registers(name) ==
    /\ Running
    /\ name \notin tools
    /\ call' = [tool |-> "unknown"]
    /\ reply' = Err
    /\ tools' = tools \cup {name}
    /\ UNCHANGED <<checks, memory, told>>
execute_unknown(name) ==
    /\ Running
    /\ name \notin tools
    /\ call' = [tool |-> "unknown"]
    /\ reply' = Err
    /\ UNCHANGED <<checks, tools, memory, told>>

(* Not the three words exec_calculator splits its argument into, or not    *)
(* the two of exec_memory_store.                                           *)
usage_error(tool) ==
    /\ Running
    /\ tool \in tools
    /\ call' = [tool |-> "usage"]
    /\ reply' = Err
    /\ UNCHANGED <<checks, tools, memory, told>>

exec_calculator(a, op, b) ==
    /\ Running
    /\ "calc" \in tools
    /\ call' = [tool |-> "calc", a |-> a, op |-> op, b |-> b]
    /\ reply' = evaluate(a, op, b)
    /\ UNCHANGED <<checks, tools, memory, told>>

(* The key is stored as it was typed. *)
exec_memory_store_first(key, value) ==
    /\ Running
    /\ "store" \in tools
    /\ call' = [tool |-> "store", key |-> key, value |-> value]
    /\ reply' = Ok(value)
    /\ memory' = IF key \notin DOMAIN memory THEN insert(memory, key, value) ELSE memory
    /\ told' = IF key.padded THEN told ELSE insert(told, key.word, value)
    /\ UNCHANGED <<checks, tools>>
exec_memory_store(key, value) ==
    /\ Running
    /\ "store" \in tools
    /\ call' = [tool |-> "store", key |-> key, value |-> value]
    /\ reply' = Ok(value)
    /\ memory' = insert(memory, key, value)
    /\ told' = IF key.padded THEN told ELSE insert(told, key.word, value)
    /\ UNCHANGED <<checks, tools>>

(* The key is trimmed before it is looked up. *)
exec_memory_recall(key) ==
    /\ Running
    /\ "recall" \in tools
    /\ call' = [tool |-> "recall", key |-> key]
    /\ reply' = IF trim(key) \in DOMAIN memory THEN Ok(memory[trim(key)])
                ELSE Err
    /\ UNCHANGED <<checks, tools, memory, told>>

exec_echo(text) ==
    /\ Running
    /\ "echo" \in tools
    /\ call' = [tool |-> "echo"]
    /\ reply' = Ok(text)
    /\ UNCHANGED <<checks, tools, memory, told>>

Next ==
    \/ \E tool \in BuiltinTool : register(tool)
    \/ \E name \in BuiltinTool \cup {"other"} : execute_unknown(name)
    \/ \E tool \in {"calc", "store"} : usage_error(tool)
    \/ \E op \in Operators \cup {"%"}, a, b \in Operands \cup {NotANumber} :
          exec_calculator(a, op, b)
    \/ \E key \in Key, value \in Values : exec_memory_store(key, value)
    \/ \E key \in Key : exec_memory_recall(key)
    \/ \E text \in Values : exec_echo(text)

Spec == Init /\ [][Next]_toolVars

-----------------------------------------------------------------------------

(* n is a divided by b, rounded toward zero: the remainder is smaller than *)
(* b and has the sign of a.                                                *)
IsQuotient(n, a, b) ==
    LET r == a - n * b
    IN  Abs(r) < Abs(b) /\ (r = 0 \/ (r < 0) = (a < 0))

(* n is the mathematical result of the expression. *)
IsResult(n, a, op, b) ==
    \/ op = "+" /\ n = a + b
    \/ op = "-" /\ n = a - b
    \/ op = "*" /\ n = a * b
    \/ op = "/" /\ b # 0 /\ IsQuotient(n, a, b)

(* exec_calculator returns the mathematical result whenever that is an     *)
(* i64, whatever the operands; an error for what it cannot parse, for an   *)
(* unknown operator and for a division by zero; and it panics, or wraps in *)
(* the release profile, exactly when the result is not an i64.             *)
CalculatorResult ==
    call.tool = "calc" =>
        LET a == call.a
            b == call.b
            valid == /\ {a, b} \subseteq i64
                     /\ call.op \in Operators
                     /\ ~ (call.op = "/" /\ b = 0)
            representable == \E n \in i64 : IsResult(n, a, call.op, b)
        IN  /\ reply = Err <=> ~ valid
            /\ valid /\ representable =>
                  reply.status = "ok" /\ IsResult(reply.value, a, call.op, b)
            /\ valid /\ ~ representable =>
                  IF checks \/ call.op = "/" THEN reply = Panic
                  ELSE /\ reply.status = "ok"
                       /\ reply.value \in i64
                       /\ \E k \in -(MaxInt + 1) .. MaxInt + 1 :
                             IsResult(reply.value + k * 2 * (MaxInt + 1), a, call.op, b)

(* recall gives back the value that was last stored under the word, after  *)
(* any calls in between and with white space around the word or not; and   *)
(* an error if the word was never stored.                                  *)
RecallReturnsLastStored ==
    call.tool = "recall" =>
        IF call.key.word \in DOMAIN told
        THEN reply = Ok(told[call.key.word])
        ELSE reply = Err

(* A call of execute that fails leaves the memory and the table of tools   *)
(* as they were, and a call that succeeds changes at most the key it names.*)
FailedCallChangesNothing ==
    [][ /\ reply'.status \in {"err", "panic"} => UNCHANGED <<tools, memory>>
        /\ \A k \in DOMAIN memory :
              \/ k \in DOMAIN memory' /\ memory'[k] = memory[k]
              \/ call'.tool = "store" /\ call'.key = k
      ]_<<tools, memory, call, reply>>
=============================================================================
