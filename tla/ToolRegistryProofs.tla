------------------------- MODULE ToolRegistryProofs --------------------------
(***************************************************************************)
(* The tools of ToolRegistry, for any words, values and operands, and any  *)
(* range of integers.                                                      *)
(*                                                                         *)
(* What recall returns depends on every store since the kernel started:    *)
(* MemoryInv says that the memory and the history of plainly typed keys    *)
(* agree.  The calculator is arithmetic: wrapping gives the one integer of *)
(* the range that is congruent to the result (WrapIs), and the quotient    *)
(* that is rounded towards zero is the only one with a remainder of the    *)
(* dividend's sign (QuotientIs).                                           *)
(***************************************************************************)
EXTENDS ToolRegistry, TLAPS

(* The key of a word without white space around it. *)
Plain(w) == [word |-> w, padded |-> FALSE]

MemoryInv ==
    \A w \in Words :
        /\ w \in DOMAIN told <=> Plain(w) \in DOMAIN memory
        /\ w \in DOMAIN told => memory[Plain(w)] = told[w]

(* The last call of recall was answered from this memory: a later call     *)
(* replaces it in the history.                                             *)
RInv == MemoryInv /\ RecallReturnsLastStored

(* A trimmed key is the plain key of its word. *)
LEMMA TrimIs == ASSUME NEW key \in Key PROVE trim(key) = Plain(key.word)
<1> DEFINE t == trim(key)
<1>1. t \in Key /\ t.word = key.word /\ t.padded = FALSE
  BY DEF Key, trim
<1> HIDE DEF t
<1>2. t = [word |-> t.word, padded |-> t.padded]
  BY <1>1 DEF Key
<1> QED
  BY <1>1, <1>2 DEF t, Plain

(* A plain key is the plain key of its word, and of no other. *)
LEMMA PlainIs ==
    ASSUME NEW key \in Key, NEW w \in Words
    PROVE  Plain(w) = key <=> (key.word = w /\ key.padded = FALSE)
<1>1. key = [word |-> key.word, padded |-> key.padded]
  BY DEF Key
<1> QED
  BY <1>1 DEF Plain

(* Nothing is stored at the start. *)
LEMMA InitRInv == Init => RInv
<1> SUFFICES ASSUME Init PROVE RInv
  OBVIOUS
<1>1. memory = <<>> /\ told = <<>> /\ call.tool # "recall"
  BY DEF Init, NoCall
<1>2. DOMAIN memory = {} /\ DOMAIN told = {}
  BY <1>1
<1>3. MemoryInv
  BY <1>2 DEF MemoryInv
<1> QED
  BY <1>1, <1>3 DEF RInv, RecallReturnsLastStored

(* store keeps the memory and the history in step. *)
LEMMA StoreKept ==
    ASSUME MemoryInv, NEW key \in Key, NEW value, exec_memory_store(key, value)
    PROVE  MemoryInv'
<1> SUFFICES ASSUME NEW w \in Words
             PROVE  /\ w \in DOMAIN told' <=> Plain(w) \in DOMAIN memory'
                    /\ w \in DOMAIN told' => memory'[Plain(w)] = told'[w]
  BY DEF MemoryInv
<1>1. /\ w \in DOMAIN told <=> Plain(w) \in DOMAIN memory
      /\ w \in DOMAIN told => memory[Plain(w)] = told[w]
  BY DEF MemoryInv
<1>2. /\ DOMAIN memory' = DOMAIN memory \cup {key} /\ memory'[key] = value
      /\ \A k \in DOMAIN memory : k # key => memory'[k] = memory[k]
  <2>1. memory' = insert(memory, key, value)
    BY DEF exec_memory_store
  <2> QED
    BY <2>1, SMT DEF insert
<1>3. key.padded \in BOOLEAN /\ key.word \in Words
  BY DEF Key
<1>4. CASE key.padded = TRUE
  <2>1. told' = told
    BY <1>4 DEF exec_memory_store
  <2>2. Plain(w) # key
    BY <1>4, PlainIs
  <2> QED
    BY <1>1, <1>2, <2>1, <2>2
<1>5. CASE key.padded = FALSE
  <2>1. /\ DOMAIN told' = DOMAIN told \cup {key.word} /\ told'[key.word] = value
        /\ \A x \in DOMAIN told : x # key.word => told'[x] = told[x]
    <3>1. told' = insert(told, key.word, value)
      BY <1>5 DEF exec_memory_store
    <3> QED
      BY <3>1, SMT DEF insert
  <2>2. Plain(w) = key <=> key.word = w
    BY <1>5, PlainIs
  <2> QED
    BY <1>1, <1>2, <2>1, <2>2
<1> QED
  BY <1>3, <1>4, <1>5

(* recall, at the moment of the call, agrees with the history. *)
LEMMA RecallIs ==
    ASSUME MemoryInv, NEW key \in Key, exec_memory_recall(key)
    PROVE  RecallReturnsLastStored'
<1>1. call'.key = key /\ told' = told
  BY DEF exec_memory_recall
<1>2. trim(key) = Plain(key.word) /\ key.word \in Words
  BY TrimIs DEF Key
<1>3. reply' = IF key.word \in DOMAIN told THEN Ok(told[key.word]) ELSE Err
  BY <1>2 DEF exec_memory_recall, MemoryInv
<1> QED
  BY <1>1, <1>3 DEF RecallReturnsLastStored

(* Every call keeps the invariant. *)
LEMMA StepRInv == RInv /\ [Next]_toolVars => RInv'
<1> SUFFICES ASSUME RInv, [Next]_toolVars PROVE RInv'
  OBVIOUS
<1>1. CASE \E key \in Key, value \in Values : exec_memory_store(key, value)
  <2>1. PICK key \in Key, value \in Values : exec_memory_store(key, value)
    BY <1>1
  <2>2. call'.tool # "recall"
    BY <2>1 DEF exec_memory_store
  <2> QED
    BY <2>1, <2>2, StoreKept DEF RInv, RecallReturnsLastStored
<1>2. CASE \E key \in Key : exec_memory_recall(key)
  <2>1. PICK key \in Key : exec_memory_recall(key)
    BY <1>2
  <2>2. MemoryInv'
    BY <2>1 DEF RInv, MemoryInv, exec_memory_recall
  <2> QED
    BY <2>1, <2>2, RecallIs DEF RInv
<1>3. CASE UNCHANGED <<memory, told>> /\ call'.tool # "recall"
  BY <1>3 DEF RInv, MemoryInv, RecallReturnsLastStored
<1>4. CASE UNCHANGED toolVars
  BY <1>4 DEF RInv, MemoryInv, RecallReturnsLastStored, toolVars
<1> QED
  BY <1>1, <1>2, <1>3, <1>4
  DEF Next, register, execute_unknown, usage_error, exec_calculator, exec_echo, NoCall

(* recall returns the value last stored under the word, after any sequence *)
(* of calls in between, whether or not white space came with the word.     *)
THEOREM RecallReturnsLastStoredHolds == Spec => []RecallReturnsLastStored
<1>1. RInv => RecallReturnsLastStored
  BY DEF RInv
<1> QED
  BY <1>1, InitRInv, StepRInv, PTL DEF Spec

(* A call that fails leaves the memory and the table of tools as they      *)
(* were; one that succeeds changes at most the key it names.               *)
THEOREM FailedCallChangesNothingHolds == Spec => FailedCallChangesNothing
<1> DEFINE Kept == /\ reply'.status \in {"err", "panic"} => UNCHANGED <<tools, memory>>
                   /\ \A k \in DOMAIN memory :
                         \/ k \in DOMAIN memory' /\ memory'[k] = memory[k]
                         \/ call'.tool = "store" /\ call'.key = k
<1>1. [Next]_toolVars => [Kept]_<<tools, memory, call, reply>>
  <2> SUFFICES ASSUME [Next]_toolVars PROVE [Kept]_<<tools, memory, call, reply>>
    OBVIOUS
  <2>1. CASE \E key \in Key, value \in Values : exec_memory_store(key, value)
    <3>1. PICK key \in Key, value \in Values : exec_memory_store(key, value)
      BY <2>1
    <3>2. reply'.status = "ok" /\ call'.tool = "store" /\ call'.key = key
      BY <3>1 DEF exec_memory_store, Ok
    <3>3. /\ DOMAIN memory' = DOMAIN memory \cup {key}
          /\ \A k \in DOMAIN memory : k # key => memory'[k] = memory[k]
      <4>1. memory' = insert(memory, key, value)
        BY <3>1 DEF exec_memory_store
      <4> QED
        BY <4>1, SMT DEF insert
    <3> QED
      BY <3>2, <3>3
  <2>2. CASE \E tool \in BuiltinTool : register(tool)
    BY <2>2 DEF register, NoReply
  <2>3. CASE UNCHANGED <<tools, memory>>
    BY <2>3
  <2> QED
    BY <2>1, <2>2, <2>3
    DEF Next, execute_unknown, usage_error, exec_calculator, exec_memory_recall,
        exec_echo, toolVars
<1> QED
  BY <1>1, PTL DEF Spec, FailedCallChangesNothing

-----------------------------------------------------------------------------
(* The calculator. *)

(* What exec_calculator may be called with. *)
Operand == Int \cup {NotANumber}

(* The arithmetic result of the three operators that may overflow. *)
Exact(a, op, b) == IF op = "+" THEN a + b ELSE IF op = "-" THEN a - b ELSE a * b

(* A product of two integers of the type is at most the square of its      *)
(* least one.                                                              *)
LEMMA ProductBound ==
    ASSUME NEW a \in i64, NEW b \in i64
    PROVE  /\ a * b \in Int
           /\ a * b <= (MaxInt + 1) * (MaxInt + 1)
           /\ a * b >= -((MaxInt + 1) * (MaxInt + 1))
<1> DEFINE m == MaxInt + 1
<1>1. a \in Int /\ b \in Int /\ m \in Int /\ -m <= a /\ a <= m /\ -m <= b /\ b <= m
  BY RangeAssumption DEF i64
<1> HIDE DEF m
<1>2. \A x, y \in Nat : x <= m /\ y <= m => x * y \in Nat /\ x * y <= m * m
  <2> SUFFICES ASSUME NEW x \in Nat, NEW y \in Nat, x <= m, y <= m
               PROVE  x * y \in Nat /\ x * y <= m * m
    OBVIOUS
  <2>1. m * m - x * y = (m - x) * m + x * (m - y)
    BY <1>1
  <2>2. (m - x) * m >= 0 /\ x * (m - y) >= 0 /\ x * y >= 0
    BY <1>1
  <2> QED
    BY <1>1, <2>1, <2>2
<1> DEFINE Bounded == a * b \in Int /\ a * b <= m * m /\ a * b >= -(m * m)
<1>3. ASSUME a >= 0, b >= 0 PROVE Bounded
  <2>1. a * b \in Nat /\ a * b <= m * m
    BY <1>1, <1>2, <1>3
  <2> QED
    BY <1>1, <2>1
<1>4. ASSUME a >= 0, b < 0 PROVE Bounded
  <2>1. a * b = -(a * (-b))
    BY <1>1
  <2>2. a * (-b) \in Nat /\ a * (-b) <= m * m
    BY <1>1, <1>2, <1>4
  <2> QED
    BY <1>1, <2>1, <2>2
<1>5. ASSUME a < 0, b >= 0 PROVE Bounded
  <2>1. a * b = -((-a) * b)
    BY <1>1
  <2>2. (-a) * b \in Nat /\ (-a) * b <= m * m
    BY <1>1, <1>2, <1>5
  <2> QED
    BY <1>1, <2>1, <2>2
<1>6. ASSUME a < 0, b < 0 PROVE Bounded
  <2>1. a * b = (-a) * (-b)
    BY <1>1
  <2>2. (-a) * (-b) \in Nat /\ (-a) * (-b) <= m * m
    BY <1>1, <1>2, <1>6
  <2> QED
    BY <1>1, <2>1, <2>2
<1>7. Bounded
  BY <1>1, <1>3, <1>4, <1>5, <1>6
<1> QED
  BY <1>7 DEF m

(* The wrapped result is in the type and differs from the exact one by     *)
(* a multiple of the span, a small one if the exact result is a product,   *)
(* a sum or a difference.                                                  *)
LEMMA WrapIs ==
    ASSUME NEW n \in Int,
           n <= (MaxInt + 1) * (MaxInt + 1), n >= -((MaxInt + 1) * (MaxInt + 1))
    PROVE  /\ wrap(n) \in i64
           /\ \E k \in -(MaxInt + 1) .. MaxInt + 1 :
                 wrap(n) + k * 2 * (MaxInt + 1) = n
<1> DEFINE m == MaxInt + 1
           s == 2 * m
           k == (n + m) \div s
           r == (n + m) % s
<1>1. m \in Nat /\ m >= 2 /\ MinInt = -m /\ s \in Nat /\ s > 0
  BY RangeAssumption
<1> HIDE DEF m
<1>2. k \in Int /\ r \in 0 .. s - 1 /\ n + m = s * k + r
  BY <1>1
<1>3. wrap(n) = r - m
  <2>1. wrap(n) = ((n - MinInt) % s) + MinInt
    BY DEF wrap, m
  <2>2. n - MinInt = n + m
    BY <1>1
  <2> QED
    BY <1>1, <1>2, <2>1, <2>2
<1> HIDE DEF k, r, s
<1>4. k <= m
  <2> SUFFICES ASSUME k >= m + 1 PROVE FALSE
    BY <1>1, <1>2
  <2>1. s * k >= s * (m + 1)
    <3>1. s * k - s * (m + 1) = s * (k - (m + 1))
      BY <1>1, <1>2
    <3>2. s * (k - (m + 1)) >= 0
      BY <1>1, <1>2
    <3> QED
      BY <1>1, <1>2, <3>1, <3>2
  <2>2. s * (m + 1) = 2 * (m * m) + 2 * m
    BY <1>1 DEF s
  <2>3. n <= m * m /\ m * m >= 0 /\ m * m \in Int
    BY <1>1 DEF m
  <2> QED
    BY <1>1, <1>2, <2>1, <2>2, <2>3
<1>5. k >= -m
  <2> SUFFICES ASSUME k <= -m - 1 PROVE FALSE
    BY <1>1, <1>2
  <2>1. s * k <= s * (-m - 1)
    <3>1. s * (-m - 1) - s * k = s * (-m - 1 - k)
      BY <1>1, <1>2
    <3>2. s * (-m - 1 - k) >= 0
      BY <1>1, <1>2
    <3> QED
      BY <1>1, <1>2, <3>1, <3>2
  <2>2. s * (-m - 1) = -(2 * (m * m)) - 2 * m
    BY <1>1 DEF s
  <2>3. n >= -(m * m) /\ m * m >= 0 /\ m * m \in Int
    BY <1>1 DEF m
  <2> QED
    BY <1>1, <1>2, <2>1, <2>2, <2>3 DEF s
<1>6. k \in -m .. m
  BY <1>1, <1>2, <1>4, <1>5
<1>7. wrap(n) + k * 2 * m = n
  <2>1. k * 2 * m = s * k
    BY <1>1, <1>2 DEF s
  <2> QED
    BY <1>1, <1>2, <1>3, <2>1
<1>8. wrap(n) \in i64
  <2>1. MaxInt = m - 1
    BY RangeAssumption DEF m
  <2> QED
    BY <1>1, <1>2, <1>3, <2>1 DEF i64, s
<1> QED
  BY <1>6, <1>7, <1>8 DEF m

(* Before the test of its range, div's result. *)
Quotient(a, b) ==
    IF (a < 0) = (b < 0) THEN Abs(a) \div Abs(b) ELSE -(Abs(a) \div Abs(b))

(* A multiple of b that is not zero is not smaller than b. *)
LEMMA MultipleBound ==
    ASSUME NEW d \in Int, NEW b \in Int, b # 0, d # 0
    PROVE  d * b \in Int /\ (d * b >= Abs(b) \/ d * b <= -Abs(b))
<1>1. CASE d >= 1 /\ b > 0
  <2>1. d * b - b = (d - 1) * b /\ (d - 1) * b >= 0
    BY <1>1
  <2> QED
    BY <1>1, <2>1 DEF Abs
<1>2. CASE d >= 1 /\ b < 0
  <2>1. d * b - b = -((d - 1) * (-b)) /\ (d - 1) * (-b) >= 0
    BY <1>2
  <2> QED
    BY <1>2, <2>1 DEF Abs
<1>3. CASE d <= -1 /\ b > 0
  <2>1. d * b + b = -((-d - 1) * b) /\ (-d - 1) * b >= 0
    BY <1>3
  <2> QED
    BY <1>3, <2>1 DEF Abs
<1>4. CASE d <= -1 /\ b < 0
  <2>1. d * b + b = (-d - 1) * (-b) /\ (-d - 1) * (-b) >= 0
    BY <1>4
  <2> QED
    BY <1>4, <2>1 DEF Abs
<1> QED
  BY <1>1, <1>2, <1>3, <1>4

(* The quotient of the absolute values, with the sign of the fraction, is  *)
(* the fraction rounded toward zero, and no other number is.               *)
LEMMA QuotientIs ==
    ASSUME NEW a \in Int, NEW b \in Int, b # 0
    PROVE  /\ Quotient(a, b) \in Int
           /\ IsQuotient(Quotient(a, b), a, b)
           /\ \A x \in Int : IsQuotient(x, a, b) => x = Quotient(a, b)
<1> DEFINE q == Abs(a) \div Abs(b)
           r == Abs(a) % Abs(b)
           n == Quotient(a, b)
<1>1. Abs(a) \in Nat /\ Abs(b) \in Nat /\ Abs(b) > 0
  BY DEF Abs
<1>2. q \in Nat /\ r \in Nat /\ r < Abs(b) /\ Abs(a) = Abs(b) * q + r
  BY <1>1
<1>3. n = IF (a < 0) = (b < 0) THEN q ELSE -q
  BY DEF Quotient
<1> HIDE DEF q, r, n
<1>4. n \in Int /\ n * b \in Int
  BY <1>2, <1>3
<1>5. a - n * b = IF a < 0 THEN -r ELSE r
  <2>1. CASE a >= 0 /\ b > 0
    BY <1>2, <1>3, <2>1 DEF Abs
  <2>2. CASE a >= 0 /\ b < 0
    <3>1. n * b = q * (-b)
      BY <1>2, <1>3, <2>2
    <3> QED
      BY <1>2, <2>2, <3>1 DEF Abs
  <2>3. CASE a < 0 /\ b > 0
    <3>1. n * b = -(b * q)
      BY <1>2, <1>3, <2>3
    <3> QED
      BY <1>2, <2>3, <3>1 DEF Abs
  <2>4. CASE a < 0 /\ b < 0
    <3>1. n * b = -((-b) * q)
      BY <1>2, <1>3, <2>4
    <3> QED
      BY <1>2, <2>4, <3>1 DEF Abs
  <2> QED
    BY <2>1, <2>2, <2>3, <2>4
<1>6. IsQuotient(n, a, b)
  BY <1>1, <1>2, <1>4, <1>5 DEF IsQuotient, Abs
<1>7. ASSUME NEW x \in Int, IsQuotient(x, a, b) PROVE x = n
  <2> SUFFICES ASSUME x # n PROVE FALSE
    OBVIOUS
  <2> DEFINE rx == a - x * b
             rn == a - n * b
             d == n - x
  <2>1. rx \in Int /\ rn \in Int /\ d \in Int /\ d # 0
    BY <1>4
  <2>2. rx - rn = d * b
    BY <1>4
  <2>3. /\ Abs(rx) < Abs(b) /\ (rx = 0 \/ (rx < 0) = (a < 0))
        /\ Abs(rn) < Abs(b) /\ (rn = 0 \/ (rn < 0) = (a < 0))
    BY <1>6, <1>7 DEF IsQuotient
  <2> HIDE DEF rx, rn, d
  <2>4. d * b \in Int /\ (d * b >= Abs(b) \/ d * b <= -Abs(b))
    BY <2>1, MultipleBound
  <2> QED
    BY <1>1, <2>1, <2>2, <2>3, <2>4 DEF Abs
<1> QED
  BY <1>4, <1>6, <1>7 DEF n

(* The expression is one exec_calculator accepts. *)
Valid(a, op, b) ==
    /\ a \in i64 /\ b \in i64
    /\ op \in Operators
    /\ ~ (op = "/" /\ b = 0)

Representable(a, op, b) == \E n \in i64 : IsResult(n, a, op, b)

(* r is what CalculatorResult asks of the reply. *)
Answers(r, a, op, b) ==
    /\ r = Err <=> ~ Valid(a, op, b)
    /\ Valid(a, op, b) /\ Representable(a, op, b) =>
          r.status = "ok" /\ IsResult(r.value, a, op, b)
    /\ Valid(a, op, b) /\ ~ Representable(a, op, b) =>
          IF checks \/ op = "/" THEN r = Panic
          ELSE /\ r.status = "ok"
               /\ r.value \in i64
               /\ \E k \in -(MaxInt + 1) .. MaxInt + 1 :
                     IsResult(r.value + k * 2 * (MaxInt + 1), a, op, b)

(* The three outcomes differ. *)
LEMMA OutcomesDiffer ==
    ASSUME NEW v
    PROVE  /\ Ok(v) # Err /\ Panic # Err
           /\ Ok(v).status = "ok" /\ Ok(v).value = v
<1>1. Ok(v).status = "ok" /\ Ok(v).value = v /\ Err.status = "err" /\ Panic.status = "panic"
  BY DEF Ok, Err, Panic
<1> QED
  BY <1>1

(* +, - and *: the exact result if it is in range, otherwise a panic or    *)
(* the wrapped result.                                                     *)
LEMMA ArithAnswers ==
    ASSUME checks \in BOOLEAN, NEW a \in i64, NEW b \in i64,
           NEW op \in {"+", "-", "*"}
    PROVE  Answers(arith(Exact(a, op, b)), a, op, b)
<1> DEFINE n == Exact(a, op, b)
<1>1. a \in Int /\ b \in Int /\ MaxInt \in Int /\ MinInt \in Int
  BY RangeAssumption DEF i64
<1>2. /\ n \in Int
      /\ n <= (MaxInt + 1) * (MaxInt + 1) /\ n >= -((MaxInt + 1) * (MaxInt + 1))
  <2>1. CASE op = "*"
    BY <2>1, ProductBound DEF Exact
  <2>2. CASE op # "*"
    <3>1. n \in Int /\ n <= 2 * (MaxInt + 1) /\ n >= -(2 * (MaxInt + 1))
      BY <1>1, <2>2, RangeAssumption DEF Exact, i64
    <3> DEFINE m == MaxInt + 1
    <3>2. m \in Int /\ m >= 2
      BY RangeAssumption
    <3>3. m * m >= 2 * m
      <4>1. m * m - 2 * m = (m - 2) * m /\ (m - 2) * m >= 0
        BY <3>2
      <4> QED
        BY <3>2, <4>1
    <3>4. n <= 2 * m /\ n >= -(2 * m)
      BY <3>1
    <3> HIDE DEF m, n
    <3>5. n \in Int /\ n <= m * m /\ n >= -(m * m)
      BY <3>1, <3>2, <3>3, <3>4
    <3> QED
      BY <3>5 DEF m
  <2> QED
    BY <2>1, <2>2
<1>3. \A x : IsResult(x, a, op, b) <=> x = n
  BY DEF IsResult, Exact
<1>4. Valid(a, op, b)
  BY DEF Valid, Operators
<1>5. Representable(a, op, b) <=> n \in i64
  BY <1>3 DEF Representable
<1>6. op # "/"
  OBVIOUS
<1> HIDE DEF n
<1>7. CASE n \in i64
  <2>1. arith(n) = Ok(n)
    BY <1>7 DEF arith
  <2> QED
    BY <1>3, <1>4, <1>5, <1>7, <2>1, OutcomesDiffer DEF Answers, n
<1>8. CASE n \notin i64 /\ checks
  <2>1. arith(n) = Panic
    BY <1>8 DEF arith
  <2> QED
    BY <1>4, <1>5, <1>8, <2>1, OutcomesDiffer DEF Answers, n
<1>9. CASE n \notin i64 /\ ~ checks
  <2>1. arith(n) = Ok(wrap(n))
    BY <1>9 DEF arith
  <2>2. wrap(n) \in i64
    BY <1>2, WrapIs
  <2>3. PICK k \in -(MaxInt + 1) .. MaxInt + 1 : wrap(n) + k * 2 * (MaxInt + 1) = n
    BY <1>2, WrapIs
  <2>4. \E k_1 \in -(MaxInt + 1) .. MaxInt + 1 :
           IsResult(wrap(n) + k_1 * 2 * (MaxInt + 1), a, op, b)
    BY <1>3, <2>3
  <2>5. /\ arith(n).status = "ok" /\ arith(n).value = wrap(n)
        /\ arith(n) # Err
    BY <2>1, OutcomesDiffer
  <2> QED
    BY <1>4, <1>5, <1>6, <1>9, <2>2, <2>4, <2>5 DEF Answers, n
<1> QED
  BY <1>7, <1>8, <1>9 DEF n

(* /: the quotient if it is in range, otherwise a panic in every profile.  *)
LEMMA DivAnswers ==
    ASSUME NEW a \in i64, NEW b \in i64, b # 0
    PROVE  Answers(div(a, b), a, "/", b)
<1> DEFINE n == Quotient(a, b)
<1>1. a \in Int /\ b \in Int
  BY RangeAssumption DEF i64
<1>2. div(a, b) = IF n \in i64 THEN Ok(n) ELSE Panic
  BY DEF div, Quotient
<1>3. \A x \in Int : IsResult(x, a, "/", b) <=> x = n
  BY <1>1, QuotientIs DEF IsResult
<1>4. n \in Int /\ i64 \subseteq Int
  BY <1>1, QuotientIs, RangeAssumption DEF i64
<1>5. Valid(a, "/", b)
  BY DEF Valid, Operators
<1>6. Representable(a, "/", b) <=> n \in i64
  BY <1>3, <1>4 DEF Representable
<1> HIDE DEF n
<1>7. CASE n \in i64
  BY <1>2, <1>3, <1>4, <1>5, <1>6, <1>7, OutcomesDiffer DEF Answers
<1>8. CASE n \notin i64
  BY <1>2, <1>5, <1>6, <1>8, OutcomesDiffer DEF Answers
<1> QED
  BY <1>7, <1>8

(* Every expression of three words is answered as CalculatorResult asks.   *)
LEMMA EvaluateAnswers ==
    ASSUME checks \in BOOLEAN, NEW a \in Operand, NEW b \in Operand,
           NEW op \in Operators \cup {"%"}
    PROVE  Answers(evaluate(a, op, b), a, op, b)
<1>1. \A x \in Operand : parses(x) <=> x \in i64
  BY OperandsAssumption, RangeAssumption DEF parses, Operand, i64
<1>2. CASE a \notin i64 \/ b \notin i64
  <2>1. evaluate(a, op, b) = Err
    BY <1>1, <1>2 DEF evaluate
  <2> QED
    BY <1>2, <2>1 DEF Answers, Valid
<1>3. CASE a \in i64 /\ b \in i64 /\ op \in {"+", "-", "*"}
  <2>1. evaluate(a, op, b) = arith(Exact(a, op, b))
    BY <1>1, <1>3 DEF evaluate, Exact
  <2> QED
    BY <1>3, <2>1, ArithAnswers
<1>4. CASE a \in i64 /\ b \in i64 /\ op = "/" /\ b # 0
  <2>1. evaluate(a, op, b) = div(a, b)
    BY <1>1, <1>4 DEF evaluate
  <2> QED
    BY <1>4, <2>1, DivAnswers
<1>5. CASE a \in i64 /\ b \in i64 /\ ((op = "/" /\ b = 0) \/ op = "%")
  <2>1. evaluate(a, op, b) = Err
    BY <1>1, <1>5 DEF evaluate
  <2> QED
    BY <1>5, <2>1 DEF Answers, Valid, Operators
<1> QED
  BY <1>2, <1>3, <1>4, <1>5 DEF Operators

(* The profile is the one the kernel was built with, and the last call of  *)
(* the calculator was answered in it.                                      *)
CInv == checks \in BOOLEAN /\ CalculatorResult

(* CalculatorResult says that the reply answers the call. *)
LEMMA ResultIsAnswer ==
    CalculatorResult <=> (call.tool = "calc" => Answers(reply, call.a, call.op, call.b))
BY DEF CalculatorResult, Answers, Valid, Representable

(* The calculator returns the mathematical result of every expression      *)
(* whose result is an i64, of any width of the type and for any operands,  *)
(* and never a wrong one: it reports an error, panics or, in the release   *)
(* profile, wraps exactly in the cases named.                              *)
THEOREM CalculatorResultHolds == Spec => []CalculatorResult
<1>1. Init => CInv
  BY ProfilesAssumption DEF Init, CInv, CalculatorResult, NoCall
<1>2. CInv /\ [Next]_toolVars => CInv'
  <2> SUFFICES ASSUME CInv, [Next]_toolVars PROVE CInv'
    OBVIOUS
  <2>1. CASE \E op \in Operators \cup {"%"}, a, b \in Operands \cup {NotANumber} :
                exec_calculator(a, op, b)
    <3>1. PICK op \in Operators \cup {"%"}, a \in Operands \cup {NotANumber},
               b \in Operands \cup {NotANumber} : exec_calculator(a, op, b)
      BY <2>1
    <3>2. /\ call'.a = a /\ call'.op = op /\ call'.b = b
          /\ reply' = evaluate(a, op, b) /\ checks' = checks
      BY <3>1 DEF exec_calculator
    <3>3. a \in Operand /\ b \in Operand
      BY OperandsAssumption DEF Operand
    <3>4. Answers(evaluate(a, op, b), a, op, b)
      BY <3>3, EvaluateAnswers DEF CInv
    <3>5. Answers(reply, call.a, call.op, call.b)'
      BY <3>2, <3>4 DEF Answers
    <3>6. CalculatorResult'
      BY <3>5 DEF CalculatorResult, Answers, Valid, Representable
    <3> QED
      BY <3>2, <3>6 DEF CInv
  <2>2. CASE UNCHANGED checks /\ call'.tool # "calc"
    BY <2>2 DEF CInv, CalculatorResult
  <2>3. CASE UNCHANGED toolVars
    BY <2>3 DEF CInv, CalculatorResult, toolVars
  <2> QED
    BY <2>1, <2>2, <2>3
    DEF Next, register, execute_unknown, usage_error, exec_memory_store,
        exec_memory_recall, exec_echo, NoCall
<1>3. CInv => CalculatorResult
  BY DEF CInv
<1> QED
  BY <1>1, <1>2, <1>3, PTL DEF Spec
=============================================================================
