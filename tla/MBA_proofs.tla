------------------------------ MODULE MBA_proofs ------------------------------
(***************************************************************************)
(* The instructions that replace an addition or a subtraction compute what *)
(* it computed, for every operand: TLC runs them for a few.                *)
(***************************************************************************)
EXTENDS MBA, TLAPS

(* The effect of an instruction without control flow on the values. *)
Do(j, env) ==
    Bind(env, j.def, Eval(j.op, j.ty, [k \in DOMAIN j.args |-> Val(env, j.args[k])]))

---------------------------------------------------------------------------
(* Arithmetic *)

Digits == [1 .. 8 -> Nat]

LEMMA DigitsAreNat ==
  ASSUME NEW x \in Digits
  PROVE  /\ x[1] \in Nat /\ x[2] \in Nat /\ x[3] \in Nat /\ x[4] \in Nat
         /\ x[5] \in Nat /\ x[6] \in Nat /\ x[7] \in Nat /\ x[8] \in Nat
         /\ FromBits(x) \in Nat
<1>1. /\ x[1] \in Nat /\ x[2] \in Nat /\ x[3] \in Nat /\ x[4] \in Nat
      /\ x[5] \in Nat /\ x[6] \in Nat /\ x[7] \in Nat /\ x[8] \in Nat
  BY DEF Digits
<1> QED
  BY <1>1 DEF FromBits

LEMMA FromBitsOfSum ==
  ASSUME NEW x \in Digits, NEW y \in Digits
  PROVE  FromBits([i \in 1 .. 8 |-> x[i] + y[i]]) = FromBits(x) + FromBits(y)
BY DigitsAreNat, SMTT(30) DEF FromBits

LEMMA FromBitsOfDouble ==
  ASSUME NEW x \in Digits
  PROVE  /\ [i \in 1 .. 8 |-> 2 * x[i]] \in Digits
         /\ FromBits([i \in 1 .. 8 |-> 2 * x[i]]) = 2 * FromBits(x)
<1>1. [i \in 1 .. 8 |-> 2 * x[i]] \in Digits
  BY DEF Digits
<1>2. FromBits([i \in 1 .. 8 |-> 2 * x[i]]) = 2 * FromBits(x)
  BY DigitsAreNat, SMTT(30) DEF FromBits
<1> QED
  BY <1>1, <1>2

LEMMA BitsAreBits ==
  ASSUME NEW a \in 0 .. 255, NEW i \in 1 .. 8
  PROVE  Bit(a, i) \in {0, 1}
<1>1. Weight[i] \in Nat \ {0}
  BY DEF Weight
<1>2. \A w \in Nat \ {0} : (a \div w) % 2 \in {0, 1}
  OBVIOUS
<1> QED
  BY <1>1, <1>2 DEF Bit

LEMMA BitsOfByte ==
  ASSUME NEW a \in 0 .. 255
  PROVE  FromBits([i \in 1 .. 8 |-> Bit(a, i)]) = a
<1>1. a = (a % 2) + 2 * ((a \div 2) % 2) + 4 * ((a \div 4) % 2) + 8 * ((a \div 8) % 2)
            + 16 * ((a \div 16) % 2) + 32 * ((a \div 32) % 2)
            + 64 * ((a \div 64) % 2) + 128 * ((a \div 128) % 2)
  OBVIOUS
<1>2. a \div 1 = a
  OBVIOUS
<1>3. /\ Bit(a, 1) = a % 2 /\ Bit(a, 2) = (a \div 2) % 2
      /\ Bit(a, 3) = (a \div 4) % 2 /\ Bit(a, 4) = (a \div 8) % 2
      /\ Bit(a, 5) = (a \div 16) % 2 /\ Bit(a, 6) = (a \div 32) % 2
      /\ Bit(a, 7) = (a \div 64) % 2 /\ Bit(a, 8) = (a \div 128) % 2
  BY <1>2 DEF Bit, Weight
<1> DEFINE p == [i \in 1 .. 8 |-> Bit(a, i)]
<1>4. FromBits(p) = p[1] + 2 * p[2] + 4 * p[3] + 8 * p[4]
                      + 16 * p[5] + 32 * p[6] + 64 * p[7] + 128 * p[8]
  BY DEF FromBits
<1>5. FromBits(p) = Bit(a, 1) + 2 * Bit(a, 2) + 4 * Bit(a, 3) + 8 * Bit(a, 4)
                      + 16 * Bit(a, 5) + 32 * Bit(a, 6) + 64 * Bit(a, 7) + 128 * Bit(a, 8)
  BY <1>4
<1> QED
  BY <1>1, <1>3, <1>5

(* Addition is exclusive or, and twice the carries. *)
LEMMA CarriesAndSum ==
  ASSUME NEW a \in 0 .. 255, NEW b \in 0 .. 255
  PROVE  Xor8(a, b) \in Nat /\ And8(a, b) \in Nat /\ Xor8(a, b) + 2 * And8(a, b) = a + b
<1> DEFINE x == [i \in 1 .. 8 |-> IF Bit(a, i) = Bit(b, i) THEN 0 ELSE 1]
           c == [i \in 1 .. 8 |-> IF Bit(a, i) = 1 /\ Bit(b, i) = 1 THEN 1 ELSE 0]
           p == [i \in 1 .. 8 |-> Bit(a, i)]
           q == [i \in 1 .. 8 |-> Bit(b, i)]
<1>1. p \in Digits /\ q \in Digits /\ x \in Digits /\ c \in Digits
  <2>1. \A i \in 1 .. 8 : Bit(a, i) \in Nat /\ Bit(b, i) \in Nat
    BY BitsAreBits, SMTT(30)
  <2> QED
    BY <2>1 DEF Digits
<1>2. FromBits(p) = a /\ FromBits(q) = b
  BY BitsOfByte
<1>3. \A i \in 1 .. 8 : p[i] + q[i] = x[i] + 2 * c[i]
  <2> SUFFICES ASSUME NEW i \in 1 .. 8
               PROVE  p[i] + q[i] = x[i] + 2 * c[i]
    OBVIOUS
  <2>1. Bit(a, i) \in {0, 1} /\ Bit(b, i) \in {0, 1}
    BY BitsAreBits
  <2> QED
    BY <2>1
<1> DEFINE d == [i \in 1 .. 8 |-> 2 * c[i]]
<1>4. [i \in 1 .. 8 |-> p[i] + q[i]] = [i \in 1 .. 8 |-> x[i] + d[i]]
  BY <1>3
<1> HIDE DEF x, c, p, q, d
<1>5. FromBits([i \in 1 .. 8 |-> p[i] + q[i]]) = a + b
  BY <1>1, <1>2, FromBitsOfSum
<1>6. d \in Digits /\ FromBits(d) = 2 * FromBits(c)
  BY <1>1, FromBitsOfDouble DEF d
<1>7. FromBits([i \in 1 .. 8 |-> x[i] + d[i]]) = FromBits(x) + 2 * FromBits(c)
  BY <1>1, <1>6, FromBitsOfSum
<1> QED
  BY <1>1, <1>4, <1>5, <1>7, DigitsAreNat DEF x, c, Xor8, And8

LEMMA Remainders ==
  ASSUME NEW n \in Int
  PROVE  /\ \E k \in Int : (39 * n) % 256 = 39 * n - 256 * k
         /\ \E k \in Int : (23 + n) % 256 = 23 + n - 256 * k
         /\ \E k \in Int : (151 * n) % 256 = 151 * n - 256 * k
<1>1. ASSUME NEW m \in Int
      PROVE  \E k \in Int : m % 256 = m - 256 * k
  <2>1. m \div 256 \in Int /\ m % 256 = m - 256 * (m \div 256)
    OBVIOUS
  <2> QED
    BY <2>1
<1>2. 39 * n \in Int /\ 23 + n \in Int /\ 151 * n \in Int
  OBVIOUS
<1> QED
  BY <1>1, <1>2

(* 39 * 151 = 1 and 151 * 23 + 111 = 0, modulo 256. *)
LEMMA AffineIdentity ==
  ASSUME NEW s \in Nat
  PROVE  LET t == (39 * (s % 256)) % 256
             u == (23 + t) % 256
             v == (151 * u) % 256
         IN  (111 + v) % 256 = s % 256
<1> DEFINE r == s % 256
           t == (39 * r) % 256
           u == (23 + t) % 256
           v == (151 * u) % 256
<1>1. r \in 0 .. 255
  OBVIOUS
<1> HIDE DEF r
<1>2. PICK k \in Int : t = 39 * r - 256 * k
  BY <1>1, Remainders
<1>3. t \in Int
  BY <1>1, <1>2
<1> HIDE DEF t
<1>4. PICK l \in Int : u = 23 + t - 256 * l
  BY <1>3, Remainders
<1>5. u \in Int
  BY <1>3, <1>4
<1> HIDE DEF u
<1>6. PICK m \in Int : v = 151 * u - 256 * m
  BY <1>5, Remainders
<1> HIDE DEF v
<1>7. 111 + v = r + 256 * (14 + 23 * r - 151 * k - 151 * l - m)
  BY <1>1, <1>2, <1>4, <1>6
<1>8. (111 + v) % 256 = r
  BY <1>1, <1>7
<1> QED
  BY <1>8 DEF r, t, u, v

LEMMA NegationIdentity ==
  ASSUME NEW M \in Nat \ {0}, NEW a \in 0 .. M - 1, NEW b \in 0 .. M - 1
  PROVE  (((a + (M - 1 - b)) % M) + 1) % M = (a - b) % M
<1>1. CASE a >= b + 1
  <2>1. (a + (M - 1 - b)) % M = a - b - 1
    BY <1>1
  <2> QED
    BY <1>1, <2>1
<1>2. CASE a = b
  BY <1>2
<1>3. CASE a < b
  <2>1. (a + (M - 1 - b)) % M = M - 1 + a - b
    BY <1>3
  <2>2. (a - b) % M = M + a - b
    BY <1>3
  <2> QED
    BY <1>3, <2>1, <2>2
<1> QED
  BY <1>1, <1>2, <1>3

---------------------------------------------------------------------------
(* Names and values *)

(* The words that MBASub and MBAAdd append to a name. *)
Words == {"not", "sum", "new", "e0", "and", "e1", "e2", "e3", "e4", "e5"}

(* An instruction whose clones' names are new. *)
NewNames(i) ==
    /\ i.def \in Seq(STRING) /\ i.def # None /\ ~IsConst(i.def)
    /\ \A k \in DOMAIN i.args, w \in Words : i.args[k] # Append(i.def, w)

LEMMA NamesApart ==
  ASSUME NEW i, NewNames(i), NEW w \in Words
  PROVE  /\ Append(i.def, w) # None /\ ~IsConst(Append(i.def, w))
         /\ \A v \in Words : Append(i.def, w) = Append(i.def, v) => w = v
BY DEF NewNames, None, IsConst, Words

LEMMA BoundValue ==
  ASSUME NEW env, NEW x, NEW v, x # None, ~IsConst(x)
  PROVE  /\ Val(Bind(env, x, v), x) = v
         /\ \A y : y # x => Val(Bind(env, x, v), y) = Val(env, y)
BY DEF Val, Bind

LEMMA ConstValue ==
  ASSUME NEW env, NEW n \in Int
  PROVE  Val(env, Const(n)) = n /\ \A i, w : NewNames(i) /\ w \in Words => Const(n) # Append(i.def, w)
<1>1. IsConst(Const(n))
  BY DEF IsConst, Const, None
<1> QED
  BY <1>1, NamesApart DEF Val, Const

(* An instruction sets its own value and no other. *)
LEMMA DoUnary ==
  ASSUME NEW op, NEW d, NEW ty, NEW p, NEW env, d # None, ~IsConst(d)
  PROVE  /\ Val(Do(Instr(op, d, ty, <<p>>), env), d) = Eval(op, ty, <<Val(env, p)>>)
         /\ \A z : z # d => Val(Do(Instr(op, d, ty, <<p>>), env), z) = Val(env, z)
<1>1. Do(Instr(op, d, ty, <<p>>), env) = Bind(env, d, Eval(op, ty, <<Val(env, p)>>))
  BY DEF Do, Instr
<1> QED
  BY <1>1, BoundValue

LEMMA DoBinary ==
  ASSUME NEW op, NEW d, NEW ty, NEW p, NEW q, NEW env, d # None, ~IsConst(d)
  PROVE  /\ Val(Do(Instr(op, d, ty, <<p, q>>), env), d)
               = Eval(op, ty, <<Val(env, p), Val(env, q)>>)
         /\ \A z : z # d => Val(Do(Instr(op, d, ty, <<p, q>>), env), z) = Val(env, z)
<1>1. Do(Instr(op, d, ty, <<p, q>>), env)
        = Bind(env, d, Eval(op, ty, <<Val(env, p), Val(env, q)>>))
  BY DEF Do, Instr
<1> QED
  BY <1>1, BoundValue

(* The operands of i are none of the new names. *)
LEMMA OperandsApart ==
  ASSUME NEW i, NewNames(i), NEW x, NEW y, i.args = <<x, y>>, NEW w \in Words
  PROVE  x # Append(i.def, w) /\ y # Append(i.def, w)
<1>1. 1 \in DOMAIN i.args /\ 2 \in DOMAIN i.args /\ i.args[1] = x /\ i.args[2] = y
  OBVIOUS
<1> QED
  BY <1>1 DEF NewNames

---------------------------------------------------------------------------
(* e[k] has the values after the first k instructions of s. *)
Runs(s, e) == \A k \in DOMAIN s : e[k] = Do(s[k], e[k - 1])

(* The instructions MBASub puts in the place of a - b leave, in the value  *)
(* that takes over its uses, what a - b was, at every width and for every  *)
(* a and b.                                                                *)
THEOREM MixedSubIsSub ==
  ASSUME NEW i, NEW x, NEW y, NewNames(i), i.args = <<x, y>>, IsIntegerTy(i.ty),
         NEW e, Runs(MixedSub(i), e),
         Val(e[0], x) \in 0 .. Modulus(i.ty) - 1, Val(e[0], y) \in 0 .. Modulus(i.ty) - 1
  PROVE  Val(e[3], Append(i.def, "new")) = Eval("sub", i.ty, <<Val(e[0], x), Val(e[0], y)>>)
<1> DEFINE V(w) == Append(i.def, w)
           M == Modulus(i.ty)
           a == Val(e[0], x)
           b == Val(e[0], y)
           c == (a + (M - 1 - b)) % M
<1>1. M \in Nat \ {0} /\ a \in 0 .. M - 1 /\ b \in 0 .. M - 1
  BY DEF IsIntegerTy, Modulus
<1>2. /\ e[1] = Do(Instr("not", V("not"), i.ty, <<y>>), e[0])
      /\ e[2] = Do(Instr("add", V("sum"), i.ty, <<x, V("not")>>), e[1])
      /\ e[3] = Do(Instr("add", V("new"), i.ty, <<V("sum"), Const(1)>>), e[2])
  <2>1. 1 \in DOMAIN MixedSub(i) /\ 2 \in DOMAIN MixedSub(i) /\ 3 \in DOMAIN MixedSub(i)
    BY DEF MixedSub
  <2>2. /\ e[1] = Do(MixedSub(i)[1], e[0]) /\ e[2] = Do(MixedSub(i)[2], e[1])
        /\ e[3] = Do(MixedSub(i)[3], e[2])
    BY <2>1 DEF Runs
  <2> QED
    BY <2>2 DEF MixedSub
<1>3. /\ V("not") # None /\ ~IsConst(V("not")) /\ x # V("not")
      /\ V("sum") # None /\ ~IsConst(V("sum"))
      /\ V("new") # None /\ ~IsConst(V("new"))
  BY NamesApart, OperandsApart DEF Words
<1> HIDE DEF V
<1>4. Val(e[1], V("not")) = M - 1 - b /\ Val(e[1], x) = a
  <2>1. Val(e[1], V("not")) = Eval("not", i.ty, <<b>>) /\ Val(e[1], x) = a
    BY <1>2, <1>3, DoUnary
  <2> QED
    BY <2>1 DEF Eval
<1>5. Val(e[2], V("sum")) = c
  <2>1. Val(e[2], V("sum")) = Eval("add", i.ty, <<Val(e[1], x), Val(e[1], V("not"))>>)
    BY <1>2, <1>3, DoBinary
  <2> QED
    BY <1>4, <2>1 DEF Eval
<1>6. Val(e[3], V("new")) = (c + 1) % M
  <2>1. Val(e[3], V("new")) = Eval("add", i.ty, <<Val(e[2], V("sum")), Val(e[2], Const(1))>>)
    BY <1>2, <1>3, DoBinary
  <2>2. Val(e[2], Const(1)) = 1
    BY ConstValue
  <2> QED
    BY <1>5, <2>1, <2>2 DEF Eval
<1>7. Eval("sub", i.ty, <<a, b>>) = (a - b) % M
  BY DEF Eval
<1>8. (c + 1) % M = (a - b) % M
  <2> HIDE DEF M, a, b
  <2> QED
    BY <1>1, NegationIdentity
<1> QED
  BY <1>6, <1>7, <1>8 DEF V

(* The instructions MBAAdd puts in the place of an i8 a + b leave, in the  *)
(* value that takes over its uses, what a + b was, for every a and b.      *)
THEOREM MixedAddIsAdd ==
  ASSUME NEW i, NEW x, NEW y, NewNames(i), i.args = <<x, y>>,
         NEW e, Runs(MixedAdd(i), e), Val(e[0], x) \in 0 .. 255, Val(e[0], y) \in 0 .. 255
  PROVE  Val(e[8], Append(i.def, "new")) = Eval("add", "i8", <<Val(e[0], x), Val(e[0], y)>>)
<1> DEFINE V(w) == Append(i.def, w)
           a == Val(e[0], x)
           b == Val(e[0], y)
           o == Xor8(a, b)
           n == And8(a, b)
<1>1. /\ e[1] = Do(Instr("xor", V("e0"), "i8", <<x, y>>), e[0])
      /\ e[2] = Do(Instr("and", V("and"), "i8", <<x, y>>), e[1])
      /\ e[3] = Do(Instr("mul", V("e1"), "i8", <<Const(2), V("and")>>), e[2])
      /\ e[4] = Do(Instr("add", V("e2"), "i8", <<V("e0"), V("e1")>>), e[3])
      /\ e[5] = Do(Instr("mul", V("e3"), "i8", <<Const(39), V("e2")>>), e[4])
      /\ e[6] = Do(Instr("add", V("e4"), "i8", <<Const(23), V("e3")>>), e[5])
      /\ e[7] = Do(Instr("mul", V("e5"), "i8", <<Const(151), V("e4")>>), e[6])
      /\ e[8] = Do(Instr("add", V("new"), "i8", <<Const(111), V("e5")>>), e[7])
  <2>1. \A k \in 1 .. 8 : k \in DOMAIN MixedAdd(i)
    BY DEF MixedAdd
  <2>2. \A k \in 1 .. 8 : e[k] = Do(MixedAdd(i)[k], e[k - 1])
    BY <2>1 DEF Runs
  <2>3. /\ e[1] = Do(MixedAdd(i)[1], e[0]) /\ e[2] = Do(MixedAdd(i)[2], e[1])
        /\ e[3] = Do(MixedAdd(i)[3], e[2]) /\ e[4] = Do(MixedAdd(i)[4], e[3])
        /\ e[5] = Do(MixedAdd(i)[5], e[4]) /\ e[6] = Do(MixedAdd(i)[6], e[5])
        /\ e[7] = Do(MixedAdd(i)[7], e[6]) /\ e[8] = Do(MixedAdd(i)[8], e[7])
    <3> HIDE DEF V
    <3> QED
      BY <2>2
  <2>4. /\ MixedAdd(i)[1] = Instr("xor", V("e0"), "i8", <<x, y>>)
        /\ MixedAdd(i)[2] = Instr("and", V("and"), "i8", <<x, y>>)
        /\ MixedAdd(i)[3] = Instr("mul", V("e1"), "i8", <<Const(2), V("and")>>)
        /\ MixedAdd(i)[4] = Instr("add", V("e2"), "i8", <<V("e0"), V("e1")>>)
        /\ MixedAdd(i)[5] = Instr("mul", V("e3"), "i8", <<Const(39), V("e2")>>)
        /\ MixedAdd(i)[6] = Instr("add", V("e4"), "i8", <<Const(23), V("e3")>>)
        /\ MixedAdd(i)[7] = Instr("mul", V("e5"), "i8", <<Const(151), V("e4")>>)
        /\ MixedAdd(i)[8] = Instr("add", V("new"), "i8", <<Const(111), V("e5")>>)
    BY DEF MixedAdd
  <2> HIDE DEF V
  <2> QED
    BY ONLY <2>3, <2>4
<1>2. \A w \in Words : V(w) # None /\ ~IsConst(V(w)) /\ x # V(w) /\ y # V(w)
  BY NamesApart, OperandsApart
<1>3. V("e0") # V("and") /\ V("e0") # V("e1")
  BY NamesApart DEF Words
<1> HIDE DEF V
<1>4. Val(e[1], V("e0")) = o /\ Val(e[1], x) = a /\ Val(e[1], y) = b
  <2>1. /\ Val(e[1], V("e0")) = Eval("xor", "i8", <<a, b>>)
        /\ Val(e[1], x) = a /\ Val(e[1], y) = b
    BY <1>1, <1>2, DoBinary DEF Words
  <2> QED
    BY <2>1 DEF Eval
<1>5. Val(e[2], V("and")) = n /\ Val(e[2], V("e0")) = o
  <2>1. /\ Val(e[2], V("and")) = Eval("and", "i8", <<Val(e[1], x), Val(e[1], y)>>)
        /\ Val(e[2], V("e0")) = Val(e[1], V("e0"))
    BY <1>1, <1>2, <1>3, DoBinary DEF Words
  <2> QED
    BY <1>4, <2>1 DEF Eval
<1>6. Val(e[3], V("e1")) = (2 * n) % 256 /\ Val(e[3], V("e0")) = o
  <2>1. /\ Val(e[3], V("e1")) = Eval("mul", "i8", <<Val(e[2], Const(2)), Val(e[2], V("and"))>>)
        /\ Val(e[3], V("e0")) = Val(e[2], V("e0"))
    BY <1>1, <1>2, <1>3, DoBinary DEF Words
  <2> QED
    BY <1>5, <2>1, ConstValue DEF Eval, Modulus
<1>7. Val(e[4], V("e2")) = (o + ((2 * n) % 256)) % 256
  <2>1. Val(e[4], V("e2")) = Eval("add", "i8", <<Val(e[3], V("e0")), Val(e[3], V("e1"))>>)
    BY <1>1, <1>2, DoBinary DEF Words
  <2> DEFINE m == (2 * n) % 256
  <2>2. Val(e[3], V("e1")) = m /\ Val(e[3], V("e0")) = o
    BY <1>6
  <2> HIDE DEF o, n, m
  <2>3. Val(e[4], V("e2")) = (o + m) % 256
    BY <2>1, <2>2 DEF Eval, Modulus
  <2> QED
    BY <2>3 DEF m
<1> DEFINE r == (o + ((2 * n) % 256)) % 256
           t == (39 * r) % 256
           u == (23 + t) % 256
           v == (151 * u) % 256
<1>8. Val(e[5], V("e3")) = t
  <2>1. Val(e[5], V("e3")) = Eval("mul", "i8", <<Val(e[4], Const(39)), Val(e[4], V("e2"))>>)
    BY <1>1, <1>2, DoBinary DEF Words
  <2> QED
    BY <1>7, <2>1, ConstValue DEF Eval, Modulus
<1>9. Val(e[6], V("e4")) = u
  <2>1. Val(e[6], V("e4")) = Eval("add", "i8", <<Val(e[5], Const(23)), Val(e[5], V("e3"))>>)
    BY <1>1, <1>2, DoBinary DEF Words
  <2> QED
    BY <1>8, <2>1, ConstValue DEF Eval, Modulus
<1>10. Val(e[7], V("e5")) = v
  <2>1. Val(e[7], V("e5")) = Eval("mul", "i8", <<Val(e[6], Const(151)), Val(e[6], V("e4"))>>)
    BY <1>1, <1>2, DoBinary DEF Words
  <2> QED
    BY <1>9, <2>1, ConstValue DEF Eval, Modulus
<1>11. Val(e[8], V("new")) = (111 + v) % 256
  <2>1. Val(e[8], V("new")) = Eval("add", "i8", <<Val(e[7], Const(111)), Val(e[7], V("e5"))>>)
    BY <1>1, <1>2, DoBinary DEF Words
  <2> QED
    BY <1>10, <2>1, ConstValue DEF Eval, Modulus
<1>12. o \in Nat /\ n \in Nat /\ o + 2 * n = a + b
  BY CarriesAndSum
<1>13. r = (a + b) % 256 /\ a + b \in Nat
  <2> HIDE DEF o, n, a, b
  <2> QED
    BY <1>12
<1>14. (111 + v) % 256 = (a + b) % 256
  <2> HIDE DEF r, a, b
  <2> QED
    BY <1>13, AffineIdentity DEF v, u, t
<1>15. Eval("add", "i8", <<a, b>>) = (a + b) % 256
  BY DEF Eval, Modulus
<1> QED
  BY <1>11, <1>14, <1>15 DEF V
===============================================================================
