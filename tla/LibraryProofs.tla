---------------------------- MODULE LibraryProofs ----------------------------
(***************************************************************************)
(* Theorems about what the libraries keep from one call to the next: the AES   *)
(* register (AesChain), for messages of any length in calls of any sizes; the   *)
(* blocks that LZ4's two sessions collect in their buffers (Lz4RoundTrip), for   *)
(* files of any length in buffers of any size; and the workshops and streams of  *)
(* a codec's sessions (CodecSessions), for every sequence of sessions, every    *)
(* number of chunks and every stream capacity.                                 *)
(*                                                                          *)
(* What a kernel makes of a sequence of blocks, and the content of a file, is a *)
(* recursion over a sequence.  That such a function exists, and that two of     *)
(* them agree, is proved by induction on the natural numbers; the induction     *)
(* principle follows from the order on them being well founded.                *)
(***************************************************************************)
EXTENDS CodecSessions, AesChain, Lz4RoundTrip, FiniteSetTheorems, SequenceTheorems,
        WellFoundedInduction, TLAPS

(* A set of natural numbers has a least element. *)
LEMMA Least ==
  ASSUME NEW T, T \subseteq Nat, T # {}
  PROVE  \E m \in T : \A k \in T : m <= k
<1>1. PICK m \in T : \A k \in T : ~(<<k, m>> \in OpToRel(<, Nat))
  BY WFMin, NatLessThanWellFounded, Zenon
<1>2. \A k \in T : ~(k < m)
  BY <1>1 DEF OpToRel
<1> QED
  BY <1>2

(* Induction on the natural numbers, for a set in place of a predicate. *)
LEMMA Induction ==
  ASSUME NEW S, S \subseteq Nat, 0 \in S, \A n \in S : n + 1 \in S
  PROVE  S = Nat
<1> SUFFICES ASSUME S # Nat PROVE FALSE
  OBVIOUS
<1>1. PICK m \in Nat \ S : \A k \in Nat \ S : m <= k
  BY Least
<1>2. m # 0 /\ m - 1 \in Nat
  BY <1>1
<1>3. m - 1 \in S
  BY <1>1, <1>2
<1> QED
  BY <1>1, <1>2, <1>3

(* A sequence of anything. *)
IsSequence(q) == Len(q) \in Nat /\ q = [i \in 1..Len(q) |-> q[i]]

LEMMA InSeq ==
  ASSUME NEW q, IsSequence(q), NEW S, \A i \in 1..Len(q) : q[i] \in S
  PROVE  q \in Seq(S)
BY DEF IsSequence

LEMMA SeqIsSequence ==
  ASSUME NEW S, NEW q \in Seq(S)
  PROVE  IsSequence(q)
<1>1. Len(q) \in Nat /\ q = [i \in 1..Len(q) |-> q[i]]
  OBVIOUS
<1> QED
  BY <1>1 DEF IsSequence

(* What the concatenation of two sequences of anything is. *)
LEMMA Joined ==
  ASSUME NEW a, NEW b, IsSequence(a), IsSequence(b)
  PROVE  /\ IsSequence(a \o b)
         /\ Len(a \o b) = Len(a) + Len(b)
         /\ \A i \in 1..Len(a) : (a \o b)[i] = a[i]
         /\ \A i \in 1..Len(b) : (a \o b)[Len(a) + i] = b[i]
<1> DEFINE S == {a[i] : i \in 1..Len(a)} \cup {b[i] : i \in 1..Len(b)}
<1>1. a \in Seq(S) /\ b \in Seq(S)
  BY InSeq DEF IsSequence
<1> HIDE DEF S
<1>2. /\ a \o b \in Seq(S)
      /\ Len(a \o b) = Len(a) + Len(b)
      /\ \A i \in 1..Len(a) + Len(b) :
           (a \o b)[i] = IF i <= Len(a) THEN a[i] ELSE b[i - Len(a)]
  BY <1>1, ConcatProperties
<1>3. Len(a) \in Nat /\ Len(b) \in Nat
  BY DEF IsSequence
<1>4. ASSUME NEW i \in 1..Len(b) PROVE (a \o b)[Len(a) + i] = b[i]
  <2>1. Len(a) + i \in 1..Len(a) + Len(b) /\ ~(Len(a) + i <= Len(a)) /\ Len(a) + i - Len(a) = i
    BY <1>3
  <2> QED
    BY <2>1, <1>2
<1>5. IsSequence(a \o b)
  BY <1>2, SeqIsSequence
<1>6. \A i \in 1..Len(a) : (a \o b)[i] = a[i]
  BY <1>2, <1>3
<1> QED
  BY <1>2, <1>4, <1>5, <1>6

(* What a part of a sequence of anything is. *)
LEMMA Part ==
  ASSUME NEW q, IsSequence(q), NEW n \in Nat, NEW k \in Nat, n + k <= Len(q)
  PROVE  /\ IsSequence(SubSeq(q, n + 1, n + k))
         /\ Len(SubSeq(q, n + 1, n + k)) = k
         /\ \A i \in 1..k : SubSeq(q, n + 1, n + k)[i] = q[n + i]
<1> DEFINE S == {q[i] : i \in 1..Len(q)}
<1>1. Len(q) \in Nat
  BY DEF IsSequence
<1>2. \A i \in (n + 1)..(n + k) : q[i] \in S
  BY <1>1
<1> HIDE DEF S
<1>3. /\ SubSeq(q, n + 1, n + k) \in Seq(S)
      /\ Len(SubSeq(q, n + 1, n + k)) = IF n + 1 <= n + k THEN n + k - (n + 1) + 1 ELSE 0
      /\ \A i \in 1..(n + k - (n + 1) + 1) : SubSeq(q, n + 1, n + k)[i] = q[(n + 1) + i - 1]
  BY <1>2, n + 1 \in Int, n + k \in Int, SubSeqProperties
<1>4. Len(SubSeq(q, n + 1, n + k)) = k
  BY <1>3
<1>5. \A i \in 1..k : SubSeq(q, n + 1, n + k)[i] = q[n + i]
  <2>1. n + k - (n + 1) + 1 = k /\ \A i \in 1..k : (n + 1) + i - 1 = n + i
    OBVIOUS
  <2> QED
    BY <2>1, <1>3
<1>6. IsSequence(SubSeq(q, n + 1, n + k))
  BY <1>3, SeqIsSequence
<1> QED
  BY <1>4, <1>5, <1>6

(***************************************************************************)
(* What the kernels do                                                       *)
(***************************************************************************)
Registers(m, type, r, b) ==
  LET reg[i \in 0..Len(b)] ==
        IF i = 0 THEN r ELSE NextRegister(m, type, reg[i - 1], b[i])
  IN reg

(* The registers that a kernel goes through are a function of that definition, *)
(* whatever the blocks are: the one for k blocks is continued to k + 1.        *)
LEMMA RegistersExist ==
  ASSUME NEW m, NEW type, NEW r, NEW b, Len(b) \in Nat
  PROVE  Registers(m, type, r, b) =
           [i \in 0..Len(b) |-> IF i = 0 THEN r
                                ELSE NextRegister(m, type, Registers(m, type, r, b)[i - 1], b[i])]
<1> DEFINE upto(f, k) ==
             f = [i \in 0..k |-> IF i = 0 THEN r ELSE NextRegister(m, type, f[i - 1], b[i])]
           S == {k \in Nat : \E f : upto(f, k)}
<1>1. 0 \in S
  <2>1. upto([i \in 0..0 |-> r], 0)
    OBVIOUS
  <2> QED BY <2>1
<1>2. ASSUME NEW k \in S PROVE k + 1 \in S
  <2>1. PICK f : upto(f, k)
    OBVIOUS
  <2> DEFINE g == [i \in 0..(k + 1) |-> IF i = k + 1 THEN NextRegister(m, type, f[k], b[k + 1])
                                        ELSE f[i]]
  <2>2. upto(g, k + 1)
    BY <2>1
  <2>3. \E h : upto(h, k + 1)
    <3> HIDE DEF g, upto
    <3> QED BY <2>2
  <2>4. k + 1 \in Nat
    OBVIOUS
  <2> HIDE DEF upto
  <2> QED BY <2>3, <2>4
<1>3. S = Nat
  <2> HIDE DEF S
  <2> QED BY <1>1, <1>2, Induction DEF S
<1>4. \E f : upto(f, Len(b))
  BY <1>3
<1> QED
  BY <1>4 DEF Registers

LEMMA RegisterAt ==
  ASSUME NEW m, NEW type, NEW r, NEW b, Len(b) \in Nat
  PROVE  /\ Registers(m, type, r, b)[0] = r
         /\ \A i \in 1..Len(b) :
              Registers(m, type, r, b)[i] =
                NextRegister(m, type, Registers(m, type, r, b)[i - 1], b[i])
<1> DEFINE R == Registers(m, type, r, b)
<1>1. R = [i \in 0..Len(b) |-> IF i = 0 THEN r ELSE NextRegister(m, type, R[i - 1], b[i])]
  BY RegistersExist
<1> HIDE DEF R
<1>2. R[0] = r /\ \A i \in 1..Len(b) : R[i] = NextRegister(m, type, R[i - 1], b[i])
  BY <1>1
<1> QED
  BY <1>2 DEF R

(* The kernel's output, block by block *)
LEMMA KernelAt ==
  ASSUME NEW m, NEW type, NEW r, NEW b, Len(b) \in Nat
  PROVE  /\ IsSequence(Kernel(m, type, r, b))
         /\ Len(Kernel(m, type, r, b)) = Len(b)
         /\ \A i \in 1..Len(b) :
              Kernel(m, type, r, b)[i] = Cipher(m, type, Registers(m, type, r, b)[i - 1], b[i])
<1>1. Kernel(m, type, r, b) =
        [i \in 1..Len(b) |-> Cipher(m, type, Registers(m, type, r, b)[i - 1], b[i])]
  BY DEF Kernel, Registers
<1> QED
  BY <1>1 DEF IsSequence

(* The blocks b are those of a after the first n. *)
Within(b, a, n) == \A i \in 1..Len(b) : b[i] = a[n + i]

(* The blocks of d are what becomes of those of a, with the registers R. *)
AsOne(d, m, type, R, a) == \A i \in 1..Len(d) : d[i] = Cipher(m, type, R[i - 1], a[i])

(* Two works whose blocks and registers agree go through the same registers. *)
LEMMA SameRegisters ==
  ASSUME NEW m, NEW type, NEW a, NEW b, IsSequence(a), Len(b) \in Nat, NEW r,
         NEW n \in Nat, n + Len(b) <= Len(a), Within(b, a, n)
  PROVE  \A j \in 0..Len(b) :
           Registers(m, type, Registers(m, type, r, a)[n], b)[j] = Registers(m, type, r, a)[n + j]
<1> DEFINE A == Registers(m, type, r, a)
           B == Registers(m, type, A[n], b)
           S == {j \in Nat : j <= Len(b) => B[j] = A[n + j]}
<1>1. /\ Len(a) \in Nat
      /\ B[0] = A[n]
      /\ \A i \in 1..Len(b) : B[i] = NextRegister(m, type, B[i - 1], b[i])
      /\ \A i \in 1..Len(a) : A[i] = NextRegister(m, type, A[i - 1], a[i])
  <2>1. Len(a) \in Nat
    BY DEF IsSequence
  <2>2. B[0] = A[n] /\ \A i \in 1..Len(b) : B[i] = NextRegister(m, type, B[i - 1], b[i])
    <3> HIDE DEF A
    <3> QED BY RegisterAt DEF B
  <2>3. \A i \in 1..Len(a) : A[i] = NextRegister(m, type, A[i - 1], a[i])
    BY <2>1, RegisterAt
  <2> HIDE DEF A, B
  <2> QED BY <2>1, <2>2, <2>3
<1> HIDE DEF A, B
<1>2. 0 \in S
  BY <1>1
<1>3. ASSUME NEW j \in S PROVE j + 1 \in S
  <2> SUFFICES ASSUME j + 1 <= Len(b) PROVE B[j + 1] = A[n + j + 1]
    OBVIOUS
  <2>1. /\ j + 1 \in 1..Len(b) /\ (j + 1) - 1 = j /\ j <= Len(b)
        /\ n + j + 1 \in 1..Len(a) /\ (n + j + 1) - 1 = n + j /\ n + (j + 1) = n + j + 1
    BY <1>1
  <2>2. B[j + 1] = NextRegister(m, type, B[j], b[j + 1]) /\ b[j + 1] = a[n + j + 1]
    BY <1>1, <2>1 DEF Within
  <2>3. A[n + j + 1] = NextRegister(m, type, A[n + j], a[n + j + 1])
    BY <1>1, <2>1
  <2> QED
    BY <2>1, <2>2, <2>3
<1>4. S = Nat
  <2> HIDE DEF S
  <2> QED BY <1>2, <1>3, Induction DEF S
<1>5. \A j \in 0..Len(b) : B[j] = A[n + j]
  BY <1>4
<1> QED
  BY <1>5 DEF A, B

(* Deciphering what was enciphered goes through the same registers. *)
LEMMA XorTwice ==
  ASSUME NEW x, NEW y
  PROVE  Xor(Xor(x, y), y) = x /\ Xor(Xor(x, y), x) = y
BY DEF Xor

LEMMA DE ==
  ASSUME NEW x
  PROVE  Dec(Enc(x)) = x
<1> DEFINE y == Enc(x)
<1>1. <<"E", x>> \in y /\ \A t \in y : t = <<"E", x>>
  BY DEF Enc
<1>2. \E z \in {term[2] : term \in {t \in y : t[1] = "E"}} : y = Enc(z)
  <2>1. <<"E", x>>[2] = x /\ <<"E", x>>[1] = "E"
    OBVIOUS
  <2>2. x \in {term[2] : term \in {t \in y : t[1] = "E"}}
    BY <1>1, <2>1
  <2> QED BY <2>2
<1>3. (CHOOSE term \in y : TRUE) = <<"E", x>>
  <2> HIDE DEF y
  <2> QED BY <1>1
<1>4. Dec(y) = (CHOOSE term \in y : TRUE)[2]
  BY <1>2, Zenon DEF Dec
<1>5. <<"E", x>>[2] = x
  OBVIOUS
<1>6. Dec(y) = <<"E", x>>[2]
  BY <1>3, <1>4, Zenon
<1> QED
  BY <1>5, <1>6

LEMMA DE8 ==
  ASSUME NEW x, NEW r
  PROVE  D8(E8(x, r), r) = x
<1> DEFINE y == E8(x, r)
           t == <<"E8", <<x, r>>>>
<1>1. y = {t}
  BY DEF E8
<1>2. Cardinality(y) = 1
  BY <1>1, FS_Singleton, Zenon
<1>3. t[1] = "E8" /\ t[2][2] = r /\ t[2][1] = x
  OBVIOUS
<1> HIDE DEF t
<1>4. \A term \in y : term[1] = "E8" /\ term[2][2] = r
  BY <1>1, <1>3
<1>5. (CHOOSE term \in y : TRUE) = t
  BY <1>1
<1> HIDE DEF y
<1>6. D8(y, r) = (CHOOSE term \in y : TRUE)[2][1]
  BY <1>2, <1>4, Zenon DEF D8
<1> QED
  BY <1>3, <1>5, <1>6 DEF y

LEMMA Deciphered ==
  ASSUME NEW m \in Modes, NEW r, NEW x
  PROVE  /\ Cipher(m, "DEC", r, Cipher(m, "ENC", r, x)) = x
         /\ NextRegister(m, "DEC", r, Cipher(m, "ENC", r, x)) = NextRegister(m, "ENC", r, x)
<1>1. CASE m = "Cbc"
  <2>1. Cipher(m, "ENC", r, x) = Enc(Xor(x, r.bits))
    BY <1>1 DEF Cipher
  <2>2. \A y : Cipher(m, "DEC", r, y) = Xor(Dec(y), r.bits)
    BY <1>1 DEF Cipher
  <2>3. Cipher(m, "DEC", r, Cipher(m, "ENC", r, x)) = Xor(Dec(Enc(Xor(x, r.bits))), r.bits)
    BY <2>1, <2>2
  <2>4. Dec(Enc(Xor(x, r.bits))) = Xor(x, r.bits)
    BY DE
  <2>5. Xor(Xor(x, r.bits), r.bits) = x
    BY XorTwice
  <2>6. NextRegister(m, "DEC", r, Cipher(m, "ENC", r, x)) = NextRegister(m, "ENC", r, x)
    BY <1>1 DEF NextRegister
  <2> QED
    BY <2>3, <2>4, <2>5, <2>6
<1>2. CASE m = "Cfb8"
  <2>1. Cipher(m, "ENC", r, x) = E8(x, r.bits)
    BY <1>2 DEF Cipher
  <2>2. \A y : Cipher(m, "DEC", r, y) = D8(y, r.bits)
    BY <1>2 DEF Cipher
  <2>3. NextRegister(m, "DEC", r, Cipher(m, "ENC", r, x)) = NextRegister(m, "ENC", r, x)
    BY <1>2 DEF NextRegister
  <2> QED
    BY <2>1, <2>2, <2>3, DE8
<1>3. CASE m = "Ecb"
  <2>1. Cipher(m, "ENC", r, x) = Enc(x)
    BY <1>3 DEF Cipher
  <2>2. \A y : Cipher(m, "DEC", r, y) = Dec(y)
    BY <1>3 DEF Cipher
  <2>3. NextRegister(m, "DEC", r, Cipher(m, "ENC", r, x)) = NextRegister(m, "ENC", r, x)
    BY <1>3 DEF NextRegister
  <2> QED
    BY <2>1, <2>2, <2>3, DE
<1>4. CASE m \in {"Cfb128", "Ofb", "Ctr"}
  <2>1. \A t : \A y : Cipher(m, t, r, y) =
           Xor(y, IF m = "Ctr" THEN Enc({<<"counter", r.count>>} \cup r.bits) ELSE Enc(r.bits))
    BY <1>4 DEF Cipher
  <2>2. Cipher(m, "DEC", r, Cipher(m, "ENC", r, x)) = x
    BY <2>1, XorTwice
  <2>3. NextRegister(m, "DEC", r, Cipher(m, "ENC", r, x)) = NextRegister(m, "ENC", r, x)
    BY <1>4 DEF NextRegister
  <2> QED
    BY <2>2, <2>3
<1> QED
  BY <1>1, <1>2, <1>3, <1>4 DEF Modes

LEMMA ComesBack ==
  ASSUME NEW m \in Modes, NEW r, NEW b, Len(b) \in Nat
  PROVE  \A i \in 1..Len(b) :
           Cipher(m, "DEC", Registers(m, "DEC", r, Kernel(m, "ENC", r, b))[i - 1],
                  Kernel(m, "ENC", r, b)[i]) = b[i]
<1> DEFINE M == Kernel(m, "ENC", r, b)
           A == Registers(m, "ENC", r, b)
           B == Registers(m, "DEC", r, M)
           S == {j \in Nat : j <= Len(b) => B[j] = A[j]}
<1>1. Len(M) = Len(b) /\ \A i \in 1..Len(b) : M[i] = Cipher(m, "ENC", A[i - 1], b[i])
  BY KernelAt
<1>2. A[0] = r /\ \A i \in 1..Len(b) : A[i] = NextRegister(m, "ENC", A[i - 1], b[i])
  BY RegisterAt
<1>3. B[0] = r /\ \A i \in 1..Len(b) : B[i] = NextRegister(m, "DEC", B[i - 1], M[i])
  <2> HIDE DEF M
  <2> QED BY <1>1, RegisterAt
<1> HIDE DEF A, B, M
<1>4. 0 \in S
  BY <1>2, <1>3
<1>5. ASSUME NEW j \in S PROVE j + 1 \in S
  <2> SUFFICES ASSUME j + 1 <= Len(b) PROVE B[j + 1] = A[j + 1]
    OBVIOUS
  <2>1. j + 1 \in 1..Len(b) /\ (j + 1) - 1 = j /\ j <= Len(b)
    OBVIOUS
  <2>2. B[j + 1] = NextRegister(m, "DEC", A[j], Cipher(m, "ENC", A[j], b[j + 1]))
    BY <1>1, <1>3, <2>1
  <2>3. A[j + 1] = NextRegister(m, "ENC", A[j], b[j + 1])
    BY <1>2, <2>1
  <2> QED
    BY <2>2, <2>3, Deciphered
<1>6. S = Nat
  <2> HIDE DEF S
  <2> QED BY <1>4, <1>5, Induction DEF S
<1>7. \A j \in 0..Len(b) : B[j] = A[j]
  BY <1>6
<1>8. ASSUME NEW i \in 1..Len(b) PROVE Cipher(m, "DEC", B[i - 1], M[i]) = b[i]
  <2>1. B[i - 1] = A[i - 1]
    BY <1>7
  <2> QED
    BY <1>1, <2>1, Deciphered
<1> QED
  BY <1>8 DEF A, B, M

(* In CTR the registers depend on the first one alone. *)
LEMMA SameStream ==
  ASSUME NEW t, NEW u, NEW a, NEW b, Len(a) \in Nat, Len(b) \in Nat, NEW r
  PROVE  \A j \in Nat : j <= Len(a) /\ j <= Len(b) =>
           Registers("Ctr", t, r, a)[j] = Registers("Ctr", u, r, b)[j]
<1> DEFINE A == Registers("Ctr", t, r, a)
           B == Registers("Ctr", u, r, b)
           S == {j \in Nat : j <= Len(a) /\ j <= Len(b) => A[j] = B[j]}
<1>1. /\ A[0] = r /\ \A i \in 1..Len(a) : A[i] = NextRegister("Ctr", t, A[i - 1], a[i])
      /\ B[0] = r /\ \A i \in 1..Len(b) : B[i] = NextRegister("Ctr", u, B[i - 1], b[i])
  BY RegisterAt
<1>2. \A x, y, z : NextRegister("Ctr", t, x, y) = NextRegister("Ctr", u, x, z)
  BY DEF NextRegister
<1> HIDE DEF A, B
<1>3. 0 \in S
  BY <1>1
<1>4. ASSUME NEW j \in S PROVE j + 1 \in S
  <2> SUFFICES ASSUME j + 1 <= Len(a), j + 1 <= Len(b) PROVE A[j + 1] = B[j + 1]
    OBVIOUS
  <2>1. j + 1 \in 1..Len(a) /\ j + 1 \in 1..Len(b) /\ (j + 1) - 1 = j /\ A[j] = B[j]
    OBVIOUS
  <2>2. A[j + 1] = NextRegister("Ctr", t, A[j], a[j + 1])
    BY <1>1, <2>1
  <2>3. B[j + 1] = NextRegister("Ctr", u, A[j], b[j + 1])
    BY <1>1, <2>1
  <2> QED
    BY <2>2, <2>3, <1>2
<1>5. S = Nat
  <2> HIDE DEF S
  <2> QED BY <1>3, <1>4, Induction DEF S
<1>6. \A j \in Nat : j <= Len(a) /\ j <= Len(b) => A[j] = B[j]
  BY <1>5
<1> QED
  BY <1>6 DEF A, B

(***************************************************************************)
(* Types, and how far a client is                                            *)
(***************************************************************************)
AesTypeOK ==
  /\ mode \in [Clients -> Modes] /\ inPlace \in BOOLEAN
  /\ m_lib \in Modes \cup {"EMPTY"} /\ mtx \in Clients \cup {NoOne}
  /\ program \in [Clients -> {"none", "live", "dangling"}]
  /\ stage \in [Clients -> {"idle", "program", "load", "kernel", "run", "iv", "xor", "lost"}]
  /\ calls \in [Clients -> Seq(Nat \ {0})]
  /\ DOMAIN dest = Clients /\ dest = [s \in Clients |-> dest[s]]
  /\ disturbed \subseteq Clients

Before(s) == stage[s] \in {"program", "load", "kernel", "run", "lost"}

InBounds(s) ==
  /\ IsSequence(dest[s]) /\ Len(dest[s]) <= Total(s)
  /\ calls[s] = <<>> => stage[s] = "idle" /\ Len(dest[s]) = 0
  /\ Before(s) => Len(dest[s]) + size(s) <= Total(s)
  /\ Before(s) /\ Len(calls[s]) = 1 => Len(dest[s]) = 0
  /\ stage[s] \in {"iv", "xor"} => size(s) <= Len(dest[s])
  /\ stage[s] = "xor" => mode[s] = "Ofb"
  /\ stage[s] = "iv" => mode[s] # "Ecb"
Progress ==
  /\ mode["enc"] = mode["dec"]
  /\ calls["dec"] # <<>> => Ended("enc")
  /\ \A s \in Clients : InBounds(s)

Shape == AesTypeOK /\ Progress

LEMMA MoreThanOne ==
  \A c \in Nat \ {0} : c # 1 => c > 1 /\ c - 1 > 0
OBVIOUS

LEMMA Totals ==
  \A s : Total(s) \in Nat \ {0}
BY AesAssumption DEF Total

LEMMA ShapeInit ==
  AesInit => Shape
<1> SUFFICES ASSUME AesInit PROVE Shape
  OBVIOUS
<1> USE DEF AesInit
<1>1. mode \in [Clients -> Modes] /\ mode["enc"] = mode["dec"]
  BY DEF Modes, Clients
<1>2. AesTypeOK
  BY <1>1 DEF AesTypeOK, Modes
<1>3. ASSUME NEW s \in Clients PROVE InBounds(s)
  <2>1. dest[s] = <<>> /\ calls[s] = <<>> /\ stage[s] = "idle"
    OBVIOUS
  <2>2. IsSequence(<<>>) /\ Len(<<>>) = 0
    BY DEF IsSequence
  <2> QED
    BY <2>1, <2>2, Totals DEF InBounds, Before
<1>4. calls["dec"] = <<>>
  BY DEF Clients
<1> QED
  BY <1>1, <1>2, <1>3, <1>4 DEF Shape, Progress

(* What a call's kernel is given and gives. *)
LEMMA Input ==
  ASSUME Shape, NEW s \in Clients, Before(s)
  PROVE  /\ size(s) \in Nat \ {0} /\ calls[s] # <<>> /\ Len(calls[s]) \in Nat \ {0}
         /\ Len(dest[s]) \in Nat
         /\ IsSequence(src(s)) /\ Len(src(s)) = Total(s)
         /\ IsSequence(in(s)) /\ Len(in(s)) = size(s)
         /\ \A i \in 1..size(s) : in(s)[i] = src(s)[Len(dest[s]) + i]
<1>1. InBounds(s) /\ calls[s] \in Seq(Nat \ {0})
  BY DEF Shape, Progress, AesTypeOK
<1>2. calls[s] # <<>>
  BY <1>1 DEF InBounds, Before
<1>3. Len(calls[s]) \in Nat \ {0} /\ size(s) \in Nat \ {0}
  BY <1>1, <1>2 DEF size
<1>4. IsSequence(src(s)) /\ Len(src(s)) = Total(s)
  <2>1. CASE s = "dec"
    <3>1. Ended("enc") /\ InBounds("enc")
      BY <2>1, <1>2 DEF Shape, Progress, Clients
    <3> QED
      BY <3>1, <2>1 DEF Ended, InBounds, src, Total
  <2>2. CASE s # "dec"
    <3>1. src(s) = Plain(s)
      BY <2>2 DEF src
    <3> QED
      BY <3>1, Totals DEF Plain, IsSequence
  <2> QED BY <2>1, <2>2
<1>5. Len(dest[s]) \in Nat /\ Len(dest[s]) + size(s) <= Total(s)
  BY <1>1 DEF InBounds, IsSequence
<1>6. /\ IsSequence(in(s)) /\ Len(in(s)) = size(s)
      /\ \A i \in 1..size(s) : in(s)[i] = src(s)[Len(dest[s]) + i]
  <2>1. in(s) = SubSeq(src(s), Len(dest[s]) + 1, Len(dest[s]) + size(s))
    BY DEF in
  <2> DEFINE q == src(s)
             n == Len(dest[s])
             k == size(s)
  <2>2. IsSequence(q) /\ n \in Nat /\ k \in Nat /\ n + k <= Len(q)
    BY <1>3, <1>4, <1>5
  <2>3. in(s) = SubSeq(q, n + 1, n + k)
    BY <2>1
  <2> HIDE DEF q, n, k
  <2>4. /\ IsSequence(SubSeq(q, n + 1, n + k))
        /\ Len(SubSeq(q, n + 1, n + k)) = k
        /\ \A i \in 1..k : SubSeq(q, n + 1, n + k)[i] = q[n + i]
    BY <2>2, Part
  <2>5. /\ IsSequence(in(s)) /\ Len(in(s)) = k
        /\ \A i \in 1..k : in(s)[i] = q[n + i]
    BY <2>3, <2>4, Zenon
  <2> QED BY <2>5 DEF q, n, k
<1> QED
  BY <1>2, <1>3, <1>4, <1>5, <1>6

(* A step of a client leaves the others where they are, and is not of a client *)
(* that has ended.                                                           *)
LEMMA Apart ==
  ASSUME Shape, NEW s \in Clients, Client(s)
  PROVE  /\ ~Ended(s) /\ mode' = mode /\ inPlace' = inPlace
         /\ stage' = [stage EXCEPT ![s] = stage'[s]]
         /\ calls' = [calls EXCEPT ![s] = calls'[s]]
         /\ dest' = [dest EXCEPT ![s] = dest'[s]]
         /\ \A t \in Clients \ {s} : stage'[t] = stage[t] /\ calls'[t] = calls[t] /\ dest'[t] = dest[t]
<1>1. /\ stage = [t \in Clients |-> stage[t]] /\ calls = [t \in Clients |-> calls[t]]
      /\ dest = [t \in Clients |-> dest[t]]
  BY DEF Shape, AesTypeOK
<1> DEFINE Goal == /\ ~Ended(s) /\ mode' = mode /\ inPlace' = inPlace
                   /\ stage' = [stage EXCEPT ![s] = stage'[s]]
                   /\ calls' = [calls EXCEPT ![s] = calls'[s]]
                   /\ dest' = [dest EXCEPT ![s] = dest'[s]]
<1>2. CASE Call(s)
  <2>1. PICK n : calls' = [calls EXCEPT ![s] = Append(@, n)]
    BY <1>2 DEF Call
  <2> QED BY <1>1, <1>2, <2>1 DEF Call, config, message
<1>3. CASE GetLoaded(s) \/ Reset(s) \/ Load(s) \/ CreateKernel(s)
  BY <1>1, <1>3 DEF GetLoaded, Reset, Load, CreateKernel, config, message, Ended
<1>4. CASE Run(s)
  <2>1. Goal
    BY <1>1, <1>4 DEF Run, config, device, Ended
  <2> QED BY <1>1, <2>1
<1>5. CASE KeepBlock(s) \/ KeepDest(s) \/ XorSrc(s) \/ KeepCounter(s)
  BY <1>1, <1>5 DEF KeepBlock, KeepDest, XorSrc, KeepCounter, config, device, Ended
<1> QED
  BY <1>2, <1>3, <1>4, <1>5 DEF Client

LEMMA TypesNext ==
  ASSUME Shape, NEW s \in Clients, Client(s)
  PROVE  AesTypeOK'
<1>1. AesTypeOK
  BY DEF Shape
<1>2. DOMAIN dest' = Clients /\ dest' = [t \in Clients |-> dest'[t]]
  BY Apart, <1>1 DEF AesTypeOK
<1>3. CASE Call(s)
  <2>1. PICK n \in 1..(Total(s) - Len(dest[s])) : calls' = [calls EXCEPT ![s] = Append(@, n)]
    BY <1>3 DEF Call
  <2>2. n \in Nat \ {0}
    BY <2>1, Totals DEF Shape, Progress, InBounds, IsSequence
  <2>3. calls' \in [Clients -> Seq(Nat \ {0})]
    BY <1>1, <2>1, <2>2 DEF AesTypeOK
  <2>4. stage' = [stage EXCEPT ![s] = "program"]
    BY <1>3 DEF Call
  <2>5. UNCHANGED <<mode, inPlace, m_lib, mtx, program, disturbed>>
    BY <1>3 DEF Call, config, device, message
  <2> QED
    BY <1>1, <1>2, <2>3, <2>4, <2>5 DEF AesTypeOK
<1>4. CASE GetLoaded(s) \/ Reset(s) \/ Load(s) \/ CreateKernel(s)
  <2>1. UNCHANGED <<mode, inPlace, disturbed, calls>>
    BY <1>4 DEF GetLoaded, Reset, Load, CreateKernel, config, message
  <2>2. stage' \in [Clients -> {"idle", "program", "load", "kernel", "run", "iv", "xor", "lost"}]
    BY <1>1, <1>4 DEF GetLoaded, Reset, Load, CreateKernel, AesTypeOK
  <2>3. program' \in [Clients -> {"none", "live", "dangling"}]
    <3>1. Destroyed \in [Clients -> {"none", "live", "dangling"}]
      BY <1>1 DEF Destroyed, AesTypeOK
    <3> QED BY <1>1, <1>4, <3>1 DEF GetLoaded, Reset, Load, CreateKernel, AesTypeOK
  <2>4. m_lib' \in Modes \cup {"EMPTY"} /\ mtx' \in Clients \cup {NoOne}
    BY <1>1, <1>4 DEF GetLoaded, Reset, Load, CreateKernel, AesTypeOK, Lib
  <2> QED
    BY <1>1, <1>2, <2>1, <2>2, <2>3, <2>4 DEF AesTypeOK
<1>5. CASE Run(s)
  BY <1>1, <1>2, <1>5 DEF Run, config, device, AesTypeOK
<1>6. CASE KeepBlock(s) \/ KeepDest(s) \/ XorSrc(s) \/ KeepCounter(s)
  BY <1>1, <1>2, <1>6
     DEF KeepBlock, KeepDest, XorSrc, KeepCounter, config, device, AesTypeOK, Disturb
<1> QED
  BY <1>3, <1>4, <1>5, <1>6 DEF Client

LEMMA BoundsNext ==
  ASSUME Shape, NEW s \in Clients, Client(s)
  PROVE  InBounds(s)'
<1>1. /\ InBounds(s) /\ calls[s] \in Seq(Nat \ {0}) /\ Total(s) \in Nat /\ Len(dest[s]) \in Nat
      /\ stage = [t \in Clients |-> stage[t]] /\ calls = [t \in Clients |-> calls[t]]
      /\ dest = [t \in Clients |-> dest[t]] /\ mode[s] \in Modes
  BY Totals DEF Shape, Progress, AesTypeOK, InBounds, IsSequence
<1>2. CASE Call(s)
  <2>1. PICK n \in 1..(Total(s) - Len(dest[s])) : calls' = [calls EXCEPT ![s] = Append(@, n)]
    BY <1>2 DEF Call
  <2>2. calls'[s] = Append(calls[s], n) /\ stage'[s] = "program" /\ dest'[s] = dest[s]
    BY <1>1, <1>2, <2>1 DEF Call, message
  <2>3. /\ calls'[s] # <<>> /\ Len(calls'[s]) = Len(calls[s]) + 1
        /\ calls'[s][Len(calls'[s])] = n
    <3> DEFINE q == calls[s]
    <3>1. q \in Seq(Nat \ {0}) /\ n \in Nat \ {0} /\ calls'[s] = Append(q, n)
      BY <1>1, <2>1, <2>2
    <3> HIDE DEF q
    <3>2. calls'[s] # <<>> /\ Len(calls'[s]) = Len(q) + 1 /\ calls'[s][Len(calls'[s])] = n
      BY <3>1
    <3> QED BY <3>2 DEF q
  <2>4. Len(calls'[s]) = 1 => Len(dest[s]) = 0
    BY <1>1, <2>3 DEF InBounds
  <2> QED
    BY <1>1, <2>1, <2>2, <2>3, <2>4 DEF InBounds, Before, size, Total
<1>3. CASE GetLoaded(s) \/ Reset(s) \/ Load(s) \/ CreateKernel(s)
  <2>1. /\ Before(s) /\ stage'[s] \in {"program", "load", "kernel", "run", "lost"}
        /\ calls' = calls /\ dest' = dest /\ mode' = mode
    BY <1>1, <1>3 DEF GetLoaded, Reset, Load, CreateKernel, config, message, Before
  <2> QED
    BY <1>1, <2>1 DEF InBounds, Before, size, Total
<1>4. CASE Run(s)
  <2>1. Before(s)
    BY <1>4 DEF Run, Before
  <2> DEFINE K == Kernel(mode[s], Type(s), given(s), in(s))
  <2>2. IsSequence(K) /\ Len(K) = size(s) /\ size(s) \in Nat
    BY <2>1, Input, KernelAt
  <2>3. dest'[s] = dest[s] \o K /\ stage'[s] \in {"idle", "iv"} /\ calls' = calls /\ mode' = mode
        /\ (stage'[s] = "iv" => mode[s] # "Ecb")
    BY <1>1, <1>4 DEF Run, config
  <2> HIDE DEF K
  <2>4. IsSequence(dest'[s]) /\ Len(dest'[s]) = Len(dest[s]) + size(s)
    <3>1. IsSequence(dest[s])
      BY <1>1 DEF InBounds
    <3>2. IsSequence(dest[s] \o K) /\ Len(dest[s] \o K) = Len(dest[s]) + Len(K)
      BY <2>2, <3>1, Joined
    <3> QED BY <2>2, <2>3, <3>2
  <2>5. calls[s] # <<>>
    BY <2>1, Input
  <2>6. size(s)' = size(s) /\ Total(s)' = Total(s) /\ ~Before(s)'
    BY <2>3 DEF size, Total, Before
  <2>7. Len(dest[s]) + size(s) <= Total(s)
    BY <1>1, <2>1 DEF InBounds
  <2> HIDE DEF size, Total
  <2> QED
    BY <1>1, <2>2, <2>3, <2>4, <2>5, <2>6, <2>7 DEF InBounds
<1>5. CASE KeepBlock(s) \/ KeepDest(s) \/ XorSrc(s) \/ KeepCounter(s)
  <2>1. /\ calls' = calls /\ dest' = dest /\ mode' = mode /\ stage[s] \in {"iv", "xor"}
        /\ stage'[s] \in {"idle", "xor"} /\ (stage'[s] = "xor" => mode[s] = "Ofb")
    BY <1>1, <1>5 DEF KeepBlock, KeepDest, XorSrc, KeepCounter, config
  <2> QED
    BY <1>1, <2>1 DEF InBounds, Before, size, Total
<1> QED
  BY <1>2, <1>3, <1>4, <1>5 DEF Client

LEMMA ShapeNext ==
  ASSUME Shape, [AesNext]_aesVars
  PROVE  Shape'
<1>1. CASE UNCHANGED aesVars
  BY <1>1 DEF Shape, AesTypeOK, Progress, InBounds, Before, Ended, size, Total,
     aesVars, config, device, message
<1>2. CASE AesFinished
  BY <1>1, <1>2 DEF AesFinished
<1>3. ASSUME NEW s \in Clients, Client(s) PROVE Shape'
  <2>1. \A t \in Clients \ {s} : InBounds(t)'
    BY <1>3, Apart DEF Shape, Progress, InBounds, Before, size, Total
  <2>2. mode'["enc"] = mode'["dec"]
    BY <1>3, Apart DEF Shape, Progress
  <2>3. calls'["dec"] # <<>> => Ended("enc")'
    <3>1. CASE Ended("enc")
      <4>1. s # "enc"
        BY <1>3, <3>1, Apart
      <4> QED BY <1>3, <3>1, <4>1, Apart DEF Ended, Total, Clients
    <3>2. CASE ~Ended("enc")
      <4>1. calls["dec"] = <<>>
        BY <3>2 DEF Shape, Progress
      <4>2. stage["dec"] = "idle" /\ Len(dest["dec"]) = 0
        BY <4>1 DEF Shape, Progress, InBounds, Clients
      <4>3. s # "dec"
        BY <1>3, <3>2, <4>2 DEF Client, Call, GetLoaded, Reset, Load, CreateKernel, Run, KeepBlock,
           KeepDest, XorSrc, KeepCounter
      <4> QED BY <1>3, <4>1, <4>3, Apart DEF Clients
    <3> QED BY <3>1, <3>2
  <2>4. AesTypeOK' /\ InBounds(s)'
    BY <1>3, TypesNext, BoundsNext
  <2> QED
    BY <2>1, <2>2, <2>3, <2>4 DEF Shape, Progress
<1> QED
  BY <1>1, <1>2, <1>3 DEF AesNext

(* The variables have their types, and each client is where its calls say: it has *)
(* got the blocks of the calls that are over (LibAes.cpp, every function), the     *)
(* decryption begins behind the encryption, and both use one mode.                 *)
THEOREM AesTypes == AesSpec => []Shape
<1>1. AesInit => Shape
  BY ShapeInit
<1>2. Shape /\ [AesNext]_aesVars => Shape'
  BY ShapeNext
<1> QED
  BY <1>1, <1>2, PTL DEF AesSpec

(***************************************************************************)
(* Programs                                                                  *)
(***************************************************************************)
LEMMA OneMode ==
  ASSUME mode \in [Clients -> Modes], OneLibrary, NEW s \in Clients, NEW t \in Clients
  PROVE  mode[s] = mode[t]
<1> DEFINE S == Range(mode)
<1>1. mode[s] \in S /\ mode[t] \in S
  BY DEF Range
<1>2. IsFiniteSet(S)
  <2>1. S = {mode["enc"], mode["dec"], mode["other"]}
    BY DEF Range, Clients
  <2>2. /\ IsFiniteSet({mode["enc"]}) /\ IsFiniteSet({mode["dec"]}) /\ IsFiniteSet({mode["other"]})
    BY FS_Singleton
  <2>3. S = ({mode["enc"]} \cup {mode["dec"]}) \cup {mode["other"]}
    BY <2>1
  <2> HIDE DEF S
  <2> QED
    BY <2>2, <2>3, FS_Union
<1>3. Cardinality(S) = 1
  BY DEF OneLibrary
<1> HIDE DEF S
<1>4. PICK x : S = {x}
  BY <1>2, <1>3, FS_Singleton
<1> QED
  BY <1>1, <1>4

(* With one library nobody resets the program once it is loaded, and nobody   *)
(* has a reference before: the one who loads it has the mutex.                *)
AllTheSame == \A s, t \in Clients : mode[s] = mode[t]
Alive ==
  AllTheSame =>
    /\ \A s \in Clients :
         /\ program[s] # "dangling" /\ stage[s] # "lost"
         /\ stage[s] = "kernel" => program[s] = "live"
         /\ stage[s] = "load" => mtx = s /\ m_lib = "EMPTY"
         /\ m_lib = "EMPTY" => program[s] = "none"
         /\ m_lib # "EMPTY" => m_lib = mode[s]

LEMMA AliveInit ==
  AesInit => Alive
BY DEF AesInit, Alive

LEMMA AliveNext ==
  ASSUME Shape, Alive, [AesNext]_aesVars
  PROVE  Alive'
<1>1. /\ stage = [t \in Clients |-> stage[t]] /\ program = [t \in Clients |-> program[t]]
      /\ "EMPTY" \notin Modes /\ mode \in [Clients -> Modes]
  BY DEF Shape, AesTypeOK, Modes
<1> SUFFICES ASSUME AllTheSame PROVE Alive'
  <2>1. mode' = mode
    <3>1. ASSUME NEW s \in Clients, Client(s) PROVE mode' = mode
      BY <3>1, Apart
    <3> QED BY <3>1 DEF AesNext, AesFinished, aesVars, config
  <2> QED BY <2>1 DEF Alive, AllTheSame
<1>2. CASE UNCHANGED aesVars \/ AesFinished
  BY <1>2 DEF Alive, AllTheSame, AesFinished, aesVars, config, device
<1>3. ASSUME NEW s \in Clients, Client(s) PROVE Alive'
  <2>1. mode' = mode
    BY <1>3, Apart
  <2>2. CASE Call(s)
    BY <1>1, <2>1, <2>2 DEF Call, device, Alive, AllTheSame
  <2>3. CASE GetLoaded(s)
    BY <1>1, <2>1, <2>3 DEF GetLoaded, Alive, AllTheSame, Lib
  <2>4. CASE Reset(s)
    <3>1. m_lib = "EMPTY"
      BY <2>4 DEF Reset, Alive, Lib
    <3>2. Destroyed = program
      BY <1>1, <3>1 DEF Destroyed, Alive
    <3> QED BY <1>1, <2>1, <2>4, <3>1, <3>2 DEF Reset, Alive, AllTheSame, MayLock, NoOne, Clients
  <2>5. CASE Load(s)
    <3>1. m_lib = "EMPTY"
      BY <2>5 DEF Load, Alive
    <3>2. Destroyed = program
      BY <1>1, <3>1 DEF Destroyed, Alive
    <3>3. \A t \in Clients : stage[t] = "load" => t = s
      BY <2>5 DEF Load, Alive
    <3> QED BY <1>1, <2>1, <2>5, <3>1, <3>2, <3>3 DEF Load, Alive, AllTheSame, Lib
  <2>6. CASE CreateKernel(s)
    BY <1>1, <2>1, <2>6 DEF CreateKernel, Alive, AllTheSame
  <2>7. CASE Run(s)
    BY <1>1, <2>1, <2>7 DEF Run, device, Alive, AllTheSame
  <2>8. CASE KeepBlock(s) \/ KeepDest(s) \/ XorSrc(s) \/ KeepCounter(s)
    BY <1>1, <2>1, <2>8 DEF KeepBlock, KeepDest, XorSrc, KeepCounter, device, Alive, AllTheSame
  <2> QED
    BY <1>3, <2>2, <2>3, <2>4, <2>5, <2>6, <2>7, <2>8 DEF Client
<1> QED
  BY <1>2, <1>3 DEF AesNext

(* ProgramLives: with one library no reference that getProgram has returned        *)
(* (Application.hpp:125-139) dangles when a kernel is made of it (Aes.hpp:36), for   *)
(* messages of any length and in any order of the clients.                         *)
THEOREM AesProgramLives == AesSpec => []ProgramLives
<1>1. AesInit => Shape /\ Alive
  BY ShapeInit, AliveInit
<1>2. Shape /\ Alive /\ [AesNext]_aesVars => (Shape /\ Alive)'
  BY ShapeNext, AliveNext
<1>3. Shape /\ Alive => ProgramLives
  BY OneMode DEF ProgramLives, Alive, AllTheSame, Shape, AesTypeOK
<1> QED
  BY <1>1, <1>2, <1>3, PTL DEF AesSpec

(***************************************************************************)
(* Chains: what the calls give that nobody disturbs                           *)
(***************************************************************************)
Regs(s) == Registers(mode[s], Type(s), iv(s), src(s))

(* The calls of all modes but CTR go on with the register that one call would *)
(* have after the blocks done so far.                                        *)
Followed(s) ==
  /\ s \notin disturbed /\ mode[s] # "Ctr" /\ calls[s] # <<>>
  /\ inPlace => mode[s] # "Ofb" /\ (s = "dec" => mode[s] = "Ecb")
Later(s) == Before(s) /\ Len(calls[s]) > 1
Linked(s) ==
  Followed(s) =>
    /\ AsOne(dest[s], mode[s], Type(s), Regs(s), src(s))
    /\ mode[s] # "Ecb" =>
         /\ Later(s) \/ (stage[s] = "idle" /\ ~Ended(s)) => IV = Regs(s)[Len(dest[s])]
         /\ stage[s] = "xor" => IV = Register(LastDest(s))

(* In CTR a call goes on where the calls before it have left the counter: at   *)
(* and register after the first c calls of sizes q.                           *)
Marks(q, r) ==
  LET g[c \in 0..Len(q)] ==
        IF c = 0 THEN [at |-> 0, reg |-> r]
        ELSE [at |-> g[c - 1].at + q[c],
              reg |-> [bits |-> g[c - 1].reg.bits,
                       count |-> Advanced(g[c - 1].reg.count, 16 * q[c])]]
  IN g
Mark(s) == Marks(calls[s], [bits |-> {}, count |-> FirstCount])
Pad(r, j) == Registers("Ctr", "ENC", r, [i \in 1..j |-> {}])[j]
Done(s) == IF Before(s) THEN Len(calls[s]) - 1 ELSE Len(calls[s])
Left(s) == IF Before(s) \/ stage[s] = "iv" THEN Len(calls[s]) - 1 ELSE Len(calls[s])
(* The blocks d are those of the first w calls. *)
OfCalls(d, q, g, w, a) ==
  /\ g[w].at = Len(d)
  /\ \A c \in 1..w : \A j \in 1..q[c] :
       /\ g[c - 1].at + j \in 1..Len(d)
       /\ d[g[c - 1].at + j] = Cipher("Ctr", "ENC", Pad(g[c - 1].reg, j - 1), a[g[c - 1].at + j])
  /\ \A k \in 1..Len(d) : \E c \in 1..w : \E j \in 1..q[c] : k = g[c - 1].at + j
Counted(s) ==
  mode[s] = "Ctr" /\ s \notin disturbed =>
    /\ OfCalls(dest[s], calls[s], Mark(s), Done(s), src(s))
    /\ Left(s) > 0 /\ ~Ended(s) => IV = Mark(s)[Left(s)].reg

LEMMA Sources ==
  ASSUME Shape, NEW s \in Clients, Client(s), NEW t \in Clients, t = s \/ calls[t] # <<>>
  PROVE  src(t)' = src(t) /\ Regs(t)' = Regs(t) /\ iv(t)' = iv(t)
<1>1. src(t)' = src(t)
  <2>1. CASE t # "dec"
    BY <2>1 DEF src, Plain, Total
  <2>2. CASE t = "dec"
    <3>1. s # "enc"
      <4>1. CASE t = s
        BY <4>1, <2>2
      <4>2. CASE t # s
        <5>1. Ended("enc")
          BY <4>2, <2>2 DEF Shape, Progress
        <5> QED BY <5>1, Apart
      <4> QED BY <4>1, <4>2
    <3>2. dest'["enc"] = dest["enc"]
      BY <3>1, Apart DEF Clients
    <3> QED BY <3>2, <2>2 DEF src
  <2> QED BY <2>1, <2>2
<1>2. mode' = mode
  BY Apart
<1>3. iv(t)' = iv(t)
  BY <1>2 DEF iv
<1> QED
  BY <1>1, <1>2, <1>3 DEF Regs

(* Whoever changes IV disturbs all other clients that are not done. *)
LEMMA Disturbs ==
  ASSUME Shape, NEW s \in Clients, Client(s)
  PROVE  /\ disturbed \subseteq disturbed'
         /\ s \in disturbed' => s \in disturbed
         /\ IV' = IV \/ \A t \in Clients \ {s} : Active(t) => t \in disturbed'
BY DEF Client, Call, GetLoaded, Reset, Load, CreateKernel, Run, KeepBlock, KeepDest, XorSrc,
   KeepCounter, Disturb, message

LEMMA LinkedOther ==
  ASSUME Shape, NEW s \in Clients, Client(s), NEW t \in Clients, t # s, Linked(t)
  PROVE  Linked(t)'
<1> SUFFICES ASSUME Followed(t)' PROVE Linked(t)'
  BY DEF Linked
<1>1. /\ stage'[t] = stage[t] /\ calls'[t] = calls[t] /\ dest'[t] = dest[t]
      /\ mode' = mode /\ inPlace' = inPlace
  BY Apart
<1>2. Followed(t) /\ calls[t] # <<>>
  BY <1>1, Disturbs DEF Followed
<1>3. src(t)' = src(t) /\ Regs(t)' = Regs(t)
  BY <1>2, Sources
<1>4. ~Ended(t) => IV' = IV
  BY <1>2, Disturbs DEF Active, Followed
<1>5. Ended(t)' = Ended(t) /\ Later(t)' = Later(t) /\ LastDest(t)' = LastDest(t)
  BY <1>1 DEF Ended, Later, Before, LastDest, Total
<1>6. Later(t) \/ stage[t] = "xor" => ~Ended(t)
  BY DEF Later, Before, Ended
<1> QED
  BY <1>1, <1>2, <1>3, <1>4, <1>5, <1>6 DEF Linked

LEMMA LinkedCall ==
  ASSUME Shape, NEW s \in Clients, Call(s), Linked(s)
  PROVE  Linked(s)'
<1>0. Client(s)
  BY DEF Client
<1> SUFFICES ASSUME Followed(s)' PROVE Linked(s)'
  BY DEF Linked
<1>1. /\ stage'[s] = "program" /\ dest' = dest /\ mode' = mode /\ inPlace' = inPlace /\ IV' = IV
      /\ disturbed' = disturbed /\ stage[s] = "idle" /\ ~Ended(s)
  BY DEF Call, config, message, Shape, AesTypeOK
<1>2. src(s)' = src(s) /\ Regs(s)' = Regs(s)
  BY <1>0, Sources
<1>3. CASE calls[s] = <<>>
  <2>1. Len(dest[s]) = 0
    BY <1>3 DEF Shape, Progress, InBounds
  <2>2. Len(calls'[s]) = 1
    <3>1. PICK n \in 1..(Total(s) - Len(dest[s])) : calls' = [calls EXCEPT ![s] = Append(@, n)]
      BY DEF Call
    <3>2. calls'[s] = Append(<<>>, n)
      BY <1>3, <3>1 DEF Shape, AesTypeOK
    <3> QED BY <3>2
  <2> QED BY <1>1, <2>1, <2>2 DEF Linked, Later, AsOne
<1>4. CASE calls[s] # <<>>
  <2>1. Followed(s)
    BY <1>1, <1>4 DEF Followed
  <2> QED BY <1>1, <1>2, <2>1 DEF Linked
<1> QED
  BY <1>3, <1>4

LEMMA LinkedProgram ==
  ASSUME Shape, NEW s \in Clients, GetLoaded(s) \/ Reset(s) \/ Load(s) \/ CreateKernel(s), Linked(s)
  PROVE  Linked(s)'
<1>0. Client(s)
  BY DEF Client
<1>1. /\ Before(s) /\ Before(s)' /\ calls' = calls /\ dest' = dest /\ mode' = mode
      /\ inPlace' = inPlace /\ IV' = IV /\ disturbed' = disturbed
  BY DEF GetLoaded, Reset, Load, CreateKernel, config, message, Before, Shape, AesTypeOK
<1>2. src(s)' = src(s) /\ Regs(s)' = Regs(s)
  BY <1>0, Sources
<1>3. Followed(s)' = Followed(s) /\ Later(s)' = Later(s) /\ stage'[s] # "xor" /\ stage'[s] # "idle"
  BY <1>1 DEF Followed, Later, Before
<1> QED
  BY <1>1, <1>2, <1>3 DEF Linked

(* A call that begins with the register that one call would have by then, or   *)
(* needs none, gives what one call would.                                     *)
LEMMA GoesOn ==
  ASSUME NEW m, NEW type, NEW r, NEW a, NEW b, NEW g, NEW old,
         IsSequence(a), IsSequence(b), IsSequence(old), Len(old) + Len(b) <= Len(a),
         Within(b, a, Len(old)),
         m # "Ecb" => g = Registers(m, type, r, a)[Len(old)],
         AsOne(old, m, type, Registers(m, type, r, a), a)
  PROVE  AsOne(old \o Kernel(m, type, g, b), m, type, Registers(m, type, r, a), a)
<1> DEFINE K == Kernel(m, type, g, b)
           G == Registers(m, type, g, b)
           R == Registers(m, type, r, a)
           n == Len(old)
<1>1. n \in Nat /\ Len(b) \in Nat /\ Len(a) \in Nat
  BY DEF IsSequence
<1>2. /\ IsSequence(K) /\ Len(K) = Len(b)
      /\ \A i \in 1..Len(b) : K[i] = Cipher(m, type, G[i - 1], b[i])
  BY <1>1, KernelAt
<1>3. m # "Ecb" => \A j \in 0..Len(b) : G[j] = R[n + j]
  <2> SUFFICES ASSUME m # "Ecb" PROVE \A j \in 0..Len(b) : G[j] = R[n + j]
    OBVIOUS
  <2>1. g = R[n]
    OBVIOUS
  <2>2. \A j \in 0..Len(b) :
          Registers(m, type, Registers(m, type, r, a)[n], b)[j] = Registers(m, type, r, a)[n + j]
    <3>1. IsSequence(a) /\ Len(b) \in Nat /\ n \in Nat /\ n + Len(b) <= Len(a) /\ Within(b, a, n)
      BY <1>1
    <3> HIDE DEF n, R, G, K
    <3> QED BY <3>1, SameRegisters
  <2> QED BY <2>1, <2>2
<1>0. Within(b, a, n) /\ AsOne(old, m, type, R, a)
  OBVIOUS
<1> HIDE DEF K, G, R, n
<1>4. ASSUME NEW i \in 1..Len(b)
      PROVE  K[i] = Cipher(m, type, R[n + i - 1], a[n + i])
  <2>1. i - 1 \in 0..Len(b) /\ n + (i - 1) = n + i - 1
    BY <1>1
  <2>2. CASE m = "Ecb"
    <3>1. \A x, y, z : Cipher(m, type, x, z) = Cipher(m, type, y, z)
      BY <2>2 DEF Cipher
    <3>2. K[i] = Cipher(m, type, G[i - 1], b[i]) /\ b[i] = a[n + i]
      BY <1>0, <1>2 DEF Within
    <3> QED BY <3>1, <3>2
  <2>3. CASE m # "Ecb"
    <3>1. G[i - 1] = R[n + i - 1]
      BY <1>3, <2>1, <2>3
    <3>2. K[i] = Cipher(m, type, G[i - 1], b[i]) /\ b[i] = a[n + i]
      BY <1>0, <1>2 DEF Within
    <3> QED BY <3>1, <3>2, Zenon
  <2> QED BY <2>2, <2>3
<1>5. /\ Len(old \o K) = n + Len(b)
      /\ \A i \in 1..n : (old \o K)[i] = old[i]
      /\ \A i \in 1..Len(b) : (old \o K)[n + i] = K[i]
  <2>1. /\ Len(old \o K) = Len(old) + Len(K)
        /\ \A i \in 1..Len(old) : (old \o K)[i] = old[i]
        /\ \A i \in 1..Len(K) : (old \o K)[Len(old) + i] = K[i]
    BY <1>2, Joined
  <2> QED BY <1>2, <2>1 DEF n
<1>6. ASSUME NEW i \in 1..(n + Len(b))
      PROVE  (old \o K)[i] = Cipher(m, type, R[i - 1], a[i])
  <2>1. CASE i <= n
    <3>1. i \in 1..n
      BY <1>1, <2>1
    <3> QED BY <1>0, <1>1, <1>5, <3>1 DEF AsOne, n
  <2>2. CASE i > n
    <3> DEFINE j == i - n
    <3>1. j \in 1..Len(b) /\ n + j = i /\ n + j - 1 = i - 1
      BY <1>1, <2>2
    <3> HIDE DEF j
    <3>2. (old \o K)[n + j] = K[j] /\ K[j] = Cipher(m, type, R[n + j - 1], a[n + j])
      BY <1>4, <1>5, <3>1
    <3> QED BY <3>1, <3>2, Zenon
  <2>3. i <= n \/ i > n
    BY <1>1
  <2> QED BY <2>1, <2>2, <2>3, Zenon
<1>7. \A i \in 1..Len(old \o K) : (old \o K)[i] = Cipher(m, type, R[i - 1], a[i])
  BY <1>5, <1>6
<1> QED
  BY <1>7 DEF K, R, AsOne

LEMMA LinkedRun ==
  ASSUME Shape, NEW s \in Clients, Run(s), Linked(s)
  PROVE  Linked(s)'
<1>0. Client(s) /\ Before(s)
  BY DEF Client, Run, Before
<1> SUFFICES ASSUME Followed(s)' PROVE Linked(s)'
  BY DEF Linked
<1>1. /\ calls' = calls /\ mode' = mode /\ inPlace' = inPlace /\ disturbed' = disturbed
      /\ dest'[s] = dest[s] \o Kernel(mode[s], Type(s), given(s), in(s))
      /\ stage'[s] = IF mode[s] = "Ecb" THEN "idle" ELSE "iv"
  BY DEF Run, config, device, Shape, AesTypeOK
<1>2. Followed(s) /\ Linked(s)
  BY <1>1 DEF Followed
<1>3. src(s)' = src(s) /\ Regs(s)' = Regs(s)
  BY <1>0, Sources
<1>4. InBounds(s)
  BY DEF Shape, Progress
<1>5. Len(dest[s]) + Len(in(s)) <= Len(src(s))
  BY <1>0, <1>4, Input DEF InBounds
<1>6. mode[s] # "Ecb" => given(s) = Regs(s)[Len(dest[s])]
  <2>1. CASE Len(calls[s]) = 1
    <3>1. Len(dest[s]) = 0 /\ given(s) = iv(s)
      BY <1>0, <1>4, <2>1 DEF InBounds, given
    <3>2. Regs(s)[0] = iv(s)
      BY <1>0, Input, RegisterAt DEF Regs, IsSequence
    <3> QED BY <3>1, <3>2
  <2>2. CASE Len(calls[s]) # 1
    <3>1. Len(calls[s]) \in Nat \ {0}
      BY <1>0, Input
    <3>2. Len(calls[s]) > 1
      BY <2>2, <3>1, MoreThanOne, Zenon
    <3> QED BY <1>0, <1>2, <2>2, <3>2 DEF Linked, Later, given
  <2> QED BY <2>1, <2>2
<1>7. /\ IsSequence(src(s)) /\ IsSequence(in(s)) /\ IsSequence(dest[s])
      /\ Within(in(s), src(s), Len(dest[s]))
  BY <1>0, <1>4, Input DEF InBounds, Within
<1>8. AsOne(dest[s], mode[s], Type(s), Regs(s), src(s))
  BY <1>2 DEF Linked
<1>9. AsOne(dest'[s], mode[s], Type(s), Regs(s), src(s))
  <2> DEFINE m == mode[s]
             t == Type(s)
             r == iv(s)
             a == src(s)
             b == in(s)
             g == given(s)
             old == dest[s]
  <2>1. /\ IsSequence(a) /\ IsSequence(b) /\ IsSequence(old)
        /\ Len(old) + Len(b) <= Len(a) /\ Within(b, a, Len(old))
        /\ (m # "Ecb" => g = Registers(m, t, r, a)[Len(old)])
        /\ AsOne(old, m, t, Registers(m, t, r, a), a)
        /\ dest'[s] = old \o Kernel(m, t, g, b)
    BY <1>1, <1>5, <1>6, <1>7, <1>8 DEF Regs
  <2> HIDE DEF m, t, r, a, b, g, old
  <2>2. AsOne(old \o Kernel(m, t, g, b), m, t, Registers(m, t, r, a), a)
    BY <2>1, GoesOn, Zenon
  <2>3. AsOne(dest'[s], m, t, Registers(m, t, r, a), a)
    BY <2>1, <2>2
  <2> QED BY <2>3 DEF m, t, r, a, Regs
<1>10. mode[s] # "Ecb" => ~Later(s)' /\ stage'[s] = "iv"
  BY <1>1 DEF Later, Before
<1>11. mode[s] = "Ecb" => mode'[s] = "Ecb"
  BY <1>1
<1> QED
  BY <1>1, <1>2, <1>3, <1>9, <1>10, <1>11 DEF Linked

LEMMA LinkedKeep ==
  ASSUME Shape, NEW s \in Clients, Linked(s),
         KeepBlock(s) \/ KeepDest(s) \/ XorSrc(s) \/ KeepCounter(s)
  PROVE  Linked(s)'
<1>0. Client(s)
  BY DEF Client
<1> SUFFICES ASSUME Followed(s)' PROVE Linked(s)'
  BY DEF Linked
<1> DEFINE L == Len(dest[s])
           m == mode[s]
           R == Regs(s)
           a == src(s)
<1>1. /\ calls' = calls /\ mode' = mode /\ inPlace' = inPlace /\ dest' = dest
      /\ stage[s] \in {"iv", "xor"}
      /\ stage'[s] = "idle" \/ stage'[s] = "xor"
  BY DEF KeepBlock, KeepDest, XorSrc, KeepCounter, config, Shape, AesTypeOK
<1>2. Followed(s) /\ m \in Modes \ {"Ctr"}
  BY <1>0, <1>1, Disturbs DEF Followed, Shape, AesTypeOK
<1>3. a' = a /\ R' = R
  BY <1>0, Sources
<1>4. calls[s] # <<>> /\ L \in Nat \ {0} /\ Len(a) \in Nat /\ L <= Len(a)
  <2>1. InBounds(s) /\ calls[s] \in Seq(Nat \ {0})
    BY DEF Shape, Progress, AesTypeOK
  <2>2. calls[s] # <<>> /\ size(s) \in Nat \ {0} /\ size(s) <= L
    BY <1>1, <2>1 DEF InBounds, size
  <2>3. L \in Nat /\ L <= Total(s)
    BY <2>1 DEF InBounds, IsSequence
  <2>4. Len(a) = Total(s)
    <3>1. CASE s = "dec"
      <4>1. Ended("enc")
        BY <2>2, <3>1 DEF Shape, Progress
      <4> QED BY <3>1, <4>1 DEF Ended, src, Total
    <3>2. CASE s # "dec"
      BY <3>2, Totals DEF src, Plain
    <3> QED BY <3>1, <3>2
  <2> QED BY <2>2, <2>3, <2>4, Totals
<1>5. /\ dest[s][L] = Cipher(m, Type(s), R[L - 1], a[L])
      /\ R[L] = NextRegister(m, Type(s), R[L - 1], a[L])
      /\ LastDest(s) = dest[s][L]
      /\ ~inPlace => LastSrc(s) = a[L]
  <2>1. L \in 1..L /\ L \in 1..Len(a)
    BY <1>4
  <2>2. dest[s][L] = Cipher(m, Type(s), R[L - 1], a[L])
    BY <1>2, <2>1 DEF Linked, AsOne
  <2>3. R[L] = NextRegister(m, Type(s), R[L - 1], a[L])
    BY <1>4, <2>1, RegisterAt DEF Regs
  <2> QED BY <2>2, <2>3 DEF LastDest, LastSrc
<1>6. CASE KeepBlock(s)
  <2>1. IV' = Register(ChainBlock(s)) /\ stage'[s] = "idle" /\ m \in {"Cbc", "Cfb8", "Cfb128"}
    BY <1>6 DEF KeepBlock, Shape, AesTypeOK
  <2>2. IV' = R[L]
    <3>1. CASE Type(s) = "ENC"
      <4>1. ChainBlock(s) = Cipher(m, "ENC", R[L - 1], a[L])
        BY <1>5, <3>1 DEF ChainBlock
      <4>2. R[L] = Register(Cipher(m, "ENC", R[L - 1], a[L]))
        <5> HIDE DEF R, L, a, m
        <5> QED BY <1>5, <2>1, <3>1 DEF NextRegister
      <4> QED BY <2>1, <4>1, <4>2
    <3>2. CASE Type(s) # "ENC"
      <4>1. s = "dec" /\ Type(s) = "DEC"
        BY <3>2 DEF Type
      <4>2. ~inPlace
        BY <1>2, <2>1, <4>1 DEF Followed, Shape, AesTypeOK
      <4>3. ChainBlock(s) = a[L]
        BY <1>5, <3>2, <4>2 DEF ChainBlock
      <4>4. R[L] = Register(a[L])
        <5> HIDE DEF R, L, a, m
        <5> QED BY <1>5, <2>1, <4>1 DEF NextRegister
      <4> QED BY <2>1, <4>3, <4>4
    <3> QED BY <3>1, <3>2
  <2> HIDE DEF m, R, a
  <2> QED BY <1>1, <1>2, <1>3, <2>1, <2>2 DEF Linked, m, R, a
<1>7. CASE KeepDest(s)
  <2>1. IV' = Register(LastDest(s)) /\ stage'[s] = "xor"
    BY <1>7 DEF KeepDest, Shape, AesTypeOK
  <2>2. LastDest(s)' = LastDest(s) /\ ~Later(s)'
    BY <1>1, <2>1 DEF LastDest, Later, Before
  <2> HIDE DEF m, R, a
  <2> QED BY <1>1, <1>2, <1>3, <2>1, <2>2 DEF Linked, m, R, a
<1>8. CASE XorSrc(s)
  <2>1. IV' = [IV EXCEPT !.bits = Xor(@, LastSrc(s))] /\ stage'[s] = "idle" /\ m = "Ofb"
    BY <1>8 DEF XorSrc, Shape, AesTypeOK, Progress, InBounds
  <2>2. ~inPlace
    BY <1>2, <2>1 DEF Followed, Shape, AesTypeOK
  <2>3. IV = Register(LastDest(s))
    BY <1>2, <1>8, <2>1 DEF Linked, XorSrc
  <2>4. IV' = Register(Xor(LastDest(s), LastSrc(s)))
    BY <2>1, <2>3 DEF Register
  <2>5. LastDest(s) = Xor(a[L], Enc(R[L - 1].bits)) /\ LastSrc(s) = a[L]
    <3> HIDE DEF R, L, a, m
    <3> QED BY <1>5, <2>1, <2>2 DEF Cipher
  <2>6. Xor(LastDest(s), LastSrc(s)) = Enc(R[L - 1].bits)
    BY <2>5, XorTwice
  <2>7. R[L] = Register(Enc(R[L - 1].bits))
    <3> HIDE DEF R, L, a, m
    <3> QED BY <1>5, <2>1 DEF NextRegister
  <2>8. IV' = R[L]
    BY <2>4, <2>6, <2>7
  <2> HIDE DEF m, R, a
  <2> QED BY <1>1, <1>2, <1>3, <2>1, <2>8 DEF Linked, m, R, a
<1>9. CASE KeepCounter(s)
  BY <1>2, <1>9 DEF KeepCounter
<1> QED
  BY <1>6, <1>7, <1>8, <1>9

(***************************************************************************)
(* CTR                                                                       *)
(***************************************************************************)
LEMMA MarksExist ==
  ASSUME NEW q, NEW r, Len(q) \in Nat
  PROVE  Marks(q, r) =
           [c \in 0..Len(q) |->
              IF c = 0 THEN [at |-> 0, reg |-> r]
              ELSE [at |-> Marks(q, r)[c - 1].at + q[c],
                    reg |-> [bits |-> Marks(q, r)[c - 1].reg.bits,
                             count |-> Advanced(Marks(q, r)[c - 1].reg.count, 16 * q[c])]]]
<1> DEFINE next(x, c) == [at |-> x.at + q[c],
                          reg |-> [bits |-> x.reg.bits, count |-> Advanced(x.reg.count, 16 * q[c])]]
           first == [at |-> 0, reg |-> r]
           upto(f, k) == f = [c \in 0..k |-> IF c = 0 THEN first ELSE next(f[c - 1], c)]
           S == {k \in Nat : \E f : upto(f, k)}
<1>1. 0 \in S
  <2>1. upto([c \in 0..0 |-> first], 0)
    <3> HIDE DEF first, next
    <3> QED OBVIOUS
  <2> HIDE DEF upto, first
  <2> QED BY <2>1
<1>2. ASSUME NEW k \in S PROVE k + 1 \in S
  <2>1. PICK f : upto(f, k)
    OBVIOUS
  <2> DEFINE h == [c \in 0..(k + 1) |-> IF c = k + 1 THEN next(f[k], k + 1) ELSE f[c]]
  <2>2. upto(h, k + 1)
    <3> HIDE DEF first, next
    <3> QED BY <2>1
  <2>3. \E e : upto(e, k + 1)
    <3> HIDE DEF h, upto
    <3> QED BY <2>2
  <2>4. k + 1 \in Nat
    OBVIOUS
  <2> HIDE DEF upto
  <2> QED BY <2>3, <2>4
<1>3. S = Nat
  <2> HIDE DEF S
  <2> QED BY <1>1, <1>2, Induction DEF S
<1>4. \E f : upto(f, Len(q))
  <2> HIDE DEF upto
  <2> QED BY <1>3
<1> QED
  BY <1>4 DEF Marks

(* One mark follows from another and the size of the call between them. *)
Follow(M, q) ==
  \A c \in 1..Len(q) :
    /\ M[c].at = M[c - 1].at + q[c]
    /\ M[c].reg = [bits |-> M[c - 1].reg.bits,
                   count |-> Advanced(M[c - 1].reg.count, 16 * q[c])]
    /\ M[c] = [at |-> M[c].at, reg |-> M[c].reg]

LEMMA MarkAt ==
  ASSUME NEW q, NEW r, Len(q) \in Nat
  PROVE  Marks(q, r)[0] = [at |-> 0, reg |-> r] /\ Follow(Marks(q, r), q)
<1> DEFINE M == Marks(q, r)
<1>1. M = [c \in 0..Len(q) |->
             IF c = 0 THEN [at |-> 0, reg |-> r]
             ELSE [at |-> M[c - 1].at + q[c],
                   reg |-> [bits |-> M[c - 1].reg.bits,
                            count |-> Advanced(M[c - 1].reg.count, 16 * q[c])]]]
  BY MarksExist
<1> HIDE DEF M
<1>2. M[0] = [at |-> 0, reg |-> r]
  BY <1>1
<1>3. ASSUME NEW c \in 1..Len(q)
      PROVE  /\ M[c].at = M[c - 1].at + q[c]
             /\ M[c].reg = [bits |-> M[c - 1].reg.bits,
                            count |-> Advanced(M[c - 1].reg.count, 16 * q[c])]
             /\ M[c] = [at |-> M[c].at, reg |-> M[c].reg]
  <2>1. M[c] = [at |-> M[c - 1].at + q[c],
                reg |-> [bits |-> M[c - 1].reg.bits,
                         count |-> Advanced(M[c - 1].reg.count, 16 * q[c])]]
    <3>1. c \in 0..Len(q) /\ c # 0
      OBVIOUS
    <3> QED BY <1>1, <3>1
  <2> QED BY <2>1
<1> QED
  BY <1>2, <1>3 DEF M, Follow

Agree(p, q) == \A i \in 1..Len(p) : p[i] = q[i]

LEMMA SameMarks ==
  ASSUME NEW p, NEW q, NEW r, Len(p) \in Nat, Len(q) \in Nat, Len(p) <= Len(q), Agree(p, q)
  PROVE  \A c \in 0..Len(p) : Marks(p, r)[c] = Marks(q, r)[c]
<1> DEFINE P == Marks(p, r)
           Q == Marks(q, r)
           S == {c \in Nat : c <= Len(p) => P[c] = Q[c]}
<1>1. P[0] = Q[0]
  <2>1. P[0] = [at |-> 0, reg |-> r]
    BY MarkAt, Zenon
  <2>2. Q[0] = [at |-> 0, reg |-> r]
    BY MarkAt, Zenon
  <2> QED BY <2>1, <2>2, Zenon
<1>2. Follow(P, p) /\ Follow(Q, q)
  BY MarkAt
<1> HIDE DEF P, Q
<1>3. 0 \in S
  BY <1>1
<1>4. ASSUME NEW c \in S PROVE c + 1 \in S
  <2> SUFFICES ASSUME c + 1 <= Len(p) PROVE P[c + 1] = Q[c + 1]
    OBVIOUS
  <2> DEFINE d == c + 1
  <2>1. d \in 1..Len(p) /\ d \in 1..Len(q) /\ d - 1 = c /\ P[c] = Q[c]
    OBVIOUS
  <2>2. p[d] = q[d]
    BY <2>1 DEF Agree
  <2> HIDE DEF d
  <2>3. P[d].at = Q[d].at
    BY <1>2, <2>1, <2>2 DEF Follow
  <2>4. P[d].reg = Q[d].reg
    BY <1>2, <2>1, <2>2 DEF Follow
  <2>5. P[d] = Q[d]
    BY <1>2, <2>1, <2>3, <2>4 DEF Follow
  <2> QED BY <2>5 DEF d
<1>5. S = Nat
  <2> HIDE DEF S
  <2> QED BY <1>3, <1>4, Induction DEF S
<1>6. \A c \in 0..Len(p) : P[c] = Q[c]
  BY <1>5
<1> QED
  BY <1>6 DEF P, Q

LEMMA PadOf ==
  ASSUME NEW t, NEW r, NEW b, Len(b) \in Nat
  PROVE  \A j \in 0..Len(b) : Registers("Ctr", t, r, b)[j] = Pad(r, j)
<1> TAKE j \in 0..Len(b)
<1> DEFINE e == [i \in 1..j |-> {}]
<1>1. Len(e) = j /\ Len(e) \in Nat /\ j \in Nat /\ j <= Len(e) /\ j <= Len(b)
  OBVIOUS
<1> HIDE DEF e
<1>2. Registers("Ctr", t, r, b)[j] = Registers("Ctr", "ENC", r, e)[j]
  <2>1. \A i \in Nat : i <= Len(b) /\ i <= Len(e) =>
          Registers("Ctr", t, r, b)[i] = Registers("Ctr", "ENC", r, e)[i]
    <3>1. Len(b) \in Nat /\ Len(e) \in Nat
      BY <1>1
    <3> QED BY <3>1, SameStream
  <2> QED BY <1>1, <2>1
<1> QED
  BY <1>2 DEF Pad, e

LEMMA OfCallsKept ==
  ASSUME NEW d, NEW q, NEW p, NEW g, NEW h, NEW w \in Nat, NEW a,
         OfCalls(d, q, g, w, a), \A c \in 0..w : h[c] = g[c], \A c \in 1..w : p[c] = q[c]
  PROVE  OfCalls(d, p, h, w, a)
<1>1. h[w] = g[w]
  OBVIOUS
<1>2. ASSUME NEW c \in 1..w PROVE h[c - 1] = g[c - 1] /\ p[c] = q[c]
  <2>1. c - 1 \in 0..w
    OBVIOUS
  <2> QED BY <2>1
<1>3. h[w].at = Len(d)
  BY <1>1 DEF OfCalls
<1>4. ASSUME NEW c \in 1..w, NEW j \in 1..p[c]
      PROVE  /\ h[c - 1].at + j \in 1..Len(d)
             /\ d[h[c - 1].at + j] =
                  Cipher("Ctr", "ENC", Pad(h[c - 1].reg, j - 1), a[h[c - 1].at + j])
  <2>1. j \in 1..q[c] /\ h[c - 1] = g[c - 1]
    BY <1>2
  <2>2. /\ g[c - 1].at + j \in 1..Len(d)
        /\ d[g[c - 1].at + j] =
             Cipher("Ctr", "ENC", Pad(g[c - 1].reg, j - 1), a[g[c - 1].at + j])
    BY <2>1 DEF OfCalls
  <2> QED BY <2>1, <2>2
<1>5. ASSUME NEW k \in 1..Len(d)
      PROVE  \E c \in 1..w : \E j \in 1..p[c] : k = h[c - 1].at + j
  <2>1. PICK c \in 1..w : \E j \in 1..q[c] : k = g[c - 1].at + j
    BY DEF OfCalls
  <2>2. PICK j \in 1..q[c] : k = g[c - 1].at + j
    BY <2>1
  <2>3. j \in 1..p[c] /\ k = h[c - 1].at + j
    BY <1>2, <2>2
  <2> QED BY <2>3
<1> QED
  BY <1>3, <1>4, <1>5 DEF OfCalls

(* One more call. *)
LEMMA OneMore ==
  ASSUME NEW d, NEW q, NEW g, NEW w \in Nat, NEW a, NEW b, NEW t,
         OfCalls(d, q, g, w, a), IsSequence(d), IsSequence(b), Len(b) = q[w + 1],
         Within(b, a, Len(d)), g[w + 1].at = g[w].at + q[w + 1]
  PROVE  OfCalls(d \o Kernel("Ctr", t, g[w].reg, b), q, g, w + 1, a)
<1> DEFINE K == Kernel("Ctr", t, g[w].reg, b)
           r == g[w].reg
           L == Len(d)
<1>1. L \in Nat /\ Len(b) \in Nat
  BY DEF IsSequence
<1>2. /\ IsSequence(K) /\ Len(K) = Len(b)
      /\ \A i \in 1..Len(b) : K[i] = Cipher("Ctr", t, Registers("Ctr", t, r, b)[i - 1], b[i])
  BY <1>1, KernelAt
<1>3. \A i \in 1..Len(b) : Registers("Ctr", t, r, b)[i - 1] = Pad(r, i - 1)
  <2>1. \A j \in 0..Len(b) : Registers("Ctr", t, r, b)[j] = Pad(r, j)
    BY <1>1, PadOf
  <2>2. \A i \in 1..Len(b) : i - 1 \in 0..Len(b)
    BY <1>1
  <2> HIDE DEF r
  <2> QED BY <2>1, <2>2
<1> HIDE DEF K, r
<1>4. ASSUME NEW i \in 1..Len(b) PROVE K[i] = Cipher("Ctr", "ENC", Pad(r, i - 1), a[L + i])
  <2>1. \A x, y : Cipher("Ctr", t, x, y) = Cipher("Ctr", "ENC", x, y)
    BY DEF Cipher
  <2>2. b[i] = a[L + i]
    BY DEF Within
  <2> QED BY <1>2, <1>3, <2>1, <2>2
<1>5. /\ Len(d \o K) = L + Len(b)
      /\ \A i \in 1..L : (d \o K)[i] = d[i]
      /\ \A i \in 1..Len(b) : (d \o K)[L + i] = K[i]
  <2>0. IsSequence(d) /\ IsSequence(K)
    BY <1>2
  <2>1. /\ Len(d \o K) = Len(d) + Len(K)
        /\ \A i \in 1..Len(d) : (d \o K)[i] = d[i]
        /\ \A i \in 1..Len(K) : (d \o K)[Len(d) + i] = K[i]
    <3> HIDE DEF L
    <3> QED BY <2>0, Joined
  <2> QED BY <1>2, <2>1
<1>6. g[w].at = L /\ g[w + 1].at = L + Len(b) /\ (w + 1) - 1 = w
  BY DEF OfCalls
<1> DEFINE e == d \o K
<1>7. ASSUME NEW c \in 1..(w + 1), NEW j \in 1..q[c]
      PROVE  /\ g[c - 1].at + j \in 1..Len(e)
             /\ e[g[c - 1].at + j] =
                  Cipher("Ctr", "ENC", Pad(g[c - 1].reg, j - 1), a[g[c - 1].at + j])
  <2>1. CASE c \in 1..w
    <3> DEFINE k == g[c - 1].at + j
    <3>1. k \in 1..L /\ d[k] = Cipher("Ctr", "ENC", Pad(g[c - 1].reg, j - 1), a[k])
      BY <2>1 DEF OfCalls
    <3> HIDE DEF k
    <3>2. k \in 1..(L + Len(b)) /\ e[k] = d[k]
      BY <1>1, <1>5, <3>1
    <3>3. k \in 1..Len(e)
      BY <1>5, <3>2
    <3>4. e[k] = Cipher("Ctr", "ENC", Pad(g[c - 1].reg, j - 1), a[k])
      BY <3>1, <3>2
    <3> QED BY <3>3, <3>4 DEF k
  <2>2. CASE c \notin 1..w
    <3>1. c = w + 1 /\ c - 1 = w
      BY <2>2
    <3>2. j \in 1..Len(b) /\ g[c - 1].at = L /\ g[c - 1].reg = r
      BY <1>6, <3>1 DEF r
    <3>3. L + j \in 1..(L + Len(b))
      BY <1>1, <3>2
    <3>4. e[L + j] = Cipher("Ctr", "ENC", Pad(r, j - 1), a[L + j])
      BY <1>4, <1>5, <3>2
    <3> HIDE DEF L, e
    <3> QED BY <1>5, <3>2, <3>3, <3>4 DEF e
  <2> QED BY <2>1, <2>2
<1>8. ASSUME NEW k \in 1..Len(e)
      PROVE  \E c \in 1..(w + 1) : \E j \in 1..q[c] : k = g[c - 1].at + j
  <2>1. CASE k <= L
    <3>1. PICK c \in 1..w : \E j \in 1..q[c] : k = g[c - 1].at + j
      BY <1>1, <1>5, <2>1 DEF OfCalls
    <3>2. c \in 1..(w + 1)
      OBVIOUS
    <3> QED BY <3>1, <3>2
  <2>2. CASE k > L
    <3> DEFINE j == k - L
    <3>1. j \in 1..Len(b) /\ k = L + j
      BY <1>1, <1>5, <2>2
    <3> HIDE DEF j
    <3>2. w + 1 \in 1..(w + 1) /\ j \in 1..q[w + 1] /\ k = g[(w + 1) - 1].at + j
      BY <1>6, <3>1
    <3> QED BY <3>2
  <2>3. k <= L \/ k > L
    BY <1>1, <1>5
  <2> QED BY <2>1, <2>2, <2>3
<1>9. g[w + 1].at = Len(e)
  BY <1>5, <1>6
<1>10. OfCalls(e, q, g, w + 1, a)
  <2> HIDE DEF e
  <2> QED BY <1>7, <1>8, <1>9 DEF OfCalls
<1> QED
  BY <1>10 DEF K

LEMMA CountedOther ==
  ASSUME Shape, NEW s \in Clients, Client(s), NEW t \in Clients, t # s, Counted(t)
  PROVE  Counted(t)'
<1> SUFFICES ASSUME mode'[t] = "Ctr", t \notin disturbed' PROVE Counted(t)'
  BY DEF Counted
<1>1. /\ stage'[t] = stage[t] /\ calls'[t] = calls[t] /\ dest'[t] = dest[t]
      /\ mode' = mode /\ inPlace' = inPlace
  BY Apart
<1>2. mode[t] = "Ctr" /\ t \notin disturbed
  BY <1>1, Disturbs
<1>3. Done(t)' = Done(t) /\ Left(t)' = Left(t) /\ Mark(t)' = Mark(t) /\ Ended(t)' = Ended(t)
  BY <1>1 DEF Done, Left, Mark, Ended, Before, Total
<1>4. CASE calls[t] = <<>>
  <2>1. stage[t] = "idle" /\ Len(dest[t]) = 0
    BY <1>4 DEF Shape, Progress, InBounds
  <2>2. Done(t) = 0 /\ Left(t) = 0
    BY <1>4, <2>1 DEF Done, Left, Before
  <2>3. Mark(t)[0].at = 0
    <3>1. Len(calls[t]) \in Nat
      BY <1>4
    <3>2. Mark(t)[0] = [at |-> 0, reg |-> [bits |-> {}, count |-> FirstCount]]
      BY <3>1, MarkAt DEF Mark
    <3> QED BY <3>2
  <2>4. OfCalls(dest[t], calls[t], Mark(t), 0, src(t)')
    BY <2>1, <2>3 DEF OfCalls
  <2> QED BY <1>1, <1>3, <2>2, <2>4 DEF Counted
<1>5. CASE calls[t] # <<>>
  <2>1. src(t)' = src(t)
    BY <1>5, Sources
  <2>2. Left(t) > 0 /\ ~Ended(t) => IV' = IV
    BY <1>5, Disturbs DEF Active
  <2> QED BY <1>1, <1>2, <1>3, <2>1, <2>2 DEF Counted
<1> QED
  BY <1>4, <1>5

LEMMA CountedCall ==
  ASSUME Shape, NEW s \in Clients, Call(s), Counted(s)
  PROVE  Counted(s)'
<1>0. Client(s)
  BY DEF Client
<1> SUFFICES ASSUME mode'[s] = "Ctr", s \notin disturbed' PROVE Counted(s)'
  BY DEF Counted
<1>1. /\ stage'[s] = "program" /\ dest' = dest /\ mode' = mode /\ inPlace' = inPlace /\ IV' = IV
      /\ disturbed' = disturbed /\ stage[s] = "idle" /\ ~Ended(s)
  BY DEF Call, config, message, Shape, AesTypeOK
<1>2. src(s)' = src(s)
  BY <1>0, Sources
<1> DEFINE q == calls[s]
           p == calls'[s]
           w == Len(q)
           r == [bits |-> {}, count |-> FirstCount]
<1>3. PICK n : n \in Nat \ {0} /\ p = Append(q, n)
  <2>1. PICK n \in 1..(Total(s) - Len(dest[s])) : calls' = [calls EXCEPT ![s] = Append(@, n)]
    BY DEF Call
  <2>2. n \in Nat \ {0}
    BY <2>1, Totals DEF Shape, Progress, InBounds, IsSequence
  <2> QED BY <2>1, <2>2 DEF Shape, AesTypeOK
<1>4. q \in Seq(Nat \ {0})
  BY DEF Shape, AesTypeOK
<1>5. w \in Nat /\ Len(p) = w + 1 /\ Agree(q, p) /\ Len(p) \in Nat
  <2> HIDE DEF q, p
  <2> QED BY <1>3, <1>4 DEF Agree
<1>6. /\ \A c \in 0..w : Marks(p, r)[c] = Marks(q, r)[c]
      /\ \A c \in 1..w : p[c] = q[c]
  <2>1. w <= Len(p)
    BY <1>5
  <2>2. \A c \in 0..w : Marks(q, r)[c] = Marks(p, r)[c]
    <3> HIDE DEF p, q, r
    <3> QED BY <1>5, <2>1, SameMarks
  <2> HIDE DEF p, q, r
  <2> QED BY <1>5, <2>2 DEF Agree
<1>7. Done(s) = w /\ Left(s) = w /\ Done(s)' = w /\ Left(s)' = w
  BY <1>1, <1>5 DEF Done, Left, Before
<1>8. Mark(s) = Marks(q, r) /\ Mark(s)' = Marks(p, r)
  BY DEF Mark
<1>9. OfCalls(dest[s], q, Marks(q, r), w, src(s)) /\ (w > 0 => IV = Marks(q, r)[w].reg)
  BY <1>1, <1>7, <1>8 DEF Counted
<1>10. OfCalls(dest[s], p, Marks(p, r), w, src(s))
  <2> DEFINE d == dest[s]
             a == src(s)
             g == Marks(q, r)
             h == Marks(p, r)
  <2>1. OfCalls(d, q, g, w, a) /\ (\A c \in 0..w : h[c] = g[c]) /\ (\A c \in 1..w : p[c] = q[c])
        /\ w \in Nat
    BY <1>5, <1>6, <1>9
  <2> HIDE DEF d, a, g, h, p, q, w
  <2>2. OfCalls(d, p, h, w, a)
    BY <2>1, OfCallsKept
  <2> QED BY <2>2 DEF d, a, h
<1>11. w > 0 => IV' = Marks(p, r)[w].reg
  <2> HIDE DEF p, q, r
  <2> QED BY <1>1, <1>5, <1>6, <1>9
<1> QED
  BY <1>1, <1>2, <1>7, <1>8, <1>10, <1>11 DEF Counted

LEMMA CountedProgram ==
  ASSUME Shape, NEW s \in Clients, GetLoaded(s) \/ Reset(s) \/ Load(s) \/ CreateKernel(s), Counted(s)
  PROVE  Counted(s)'
<1>0. Client(s)
  BY DEF Client
<1>1. /\ Before(s) /\ Before(s)' /\ calls' = calls /\ dest' = dest /\ mode' = mode
      /\ inPlace' = inPlace /\ IV' = IV /\ disturbed' = disturbed
  BY DEF GetLoaded, Reset, Load, CreateKernel, config, message, Before, Shape, AesTypeOK
<1>2. src(s)' = src(s)
  BY <1>0, Sources
<1>3. Done(s)' = Done(s) /\ Left(s)' = Left(s) /\ Mark(s)' = Mark(s) /\ ~Ended(s)
  BY <1>1 DEF Done, Left, Mark, Ended, Before
<1> QED
  BY <1>1, <1>2, <1>3 DEF Counted

(* The register that a call is given, in CTR. *)
LEMMA GivenCounter ==
  ASSUME Shape, NEW s \in Clients, Before(s) \/ stage[s] = "iv", Counted(s), mode[s] = "Ctr",
         s \notin disturbed
  PROVE  /\ Len(calls[s]) \in Nat \ {0} /\ Follow(Mark(s), calls[s])
         /\ given(s) = Mark(s)[Len(calls[s]) - 1].reg
<1>1. InBounds(s) /\ calls[s] \in Seq(Nat \ {0})
  BY DEF Shape, Progress, AesTypeOK
<1>2. calls[s] # <<>>
  BY <1>1 DEF InBounds, Before
<1>3. Len(calls[s]) \in Nat \ {0}
  BY <1>1, <1>2
<1>4. /\ Mark(s)[0] = [at |-> 0, reg |-> [bits |-> {}, count |-> FirstCount]]
      /\ Follow(Mark(s), calls[s])
  BY <1>3, MarkAt DEF Mark
<1>5. CASE Len(calls[s]) = 1
  BY <1>4, <1>5 DEF given, iv
<1>6. CASE Len(calls[s]) # 1
  <2>1. Left(s) = Len(calls[s]) - 1 /\ ~Ended(s)
    BY DEF Left, Ended, Before
  <2>2. Len(calls[s]) - 1 > 0
    BY <1>3, <1>6, MoreThanOne, Zenon
  <2>3. IV = Mark(s)[Len(calls[s]) - 1].reg
    BY <2>1, <2>2 DEF Counted
  <2> QED BY <1>3, <1>4, <1>6, <2>3 DEF given
<1> QED
  BY <1>3, <1>4, <1>5, <1>6

LEMMA CountedRun ==
  ASSUME Shape, NEW s \in Clients, Run(s), Counted(s)
  PROVE  Counted(s)'
<1>0. Client(s) /\ Before(s)
  BY DEF Client, Run, Before
<1> SUFFICES ASSUME mode'[s] = "Ctr", s \notin disturbed' PROVE Counted(s)'
  BY DEF Counted
<1>1. /\ calls' = calls /\ mode' = mode /\ inPlace' = inPlace /\ disturbed' = disturbed
      /\ IV' = IV
      /\ dest'[s] = dest[s] \o Kernel(mode[s], Type(s), given(s), in(s))
      /\ stage'[s] = IF mode[s] = "Ecb" THEN "idle" ELSE "iv"
  BY DEF Run, config, device, Shape, AesTypeOK
<1>2. mode[s] = "Ctr" /\ s \notin disturbed /\ stage'[s] = "iv"
  BY <1>1
<1>3. src(s)' = src(s)
  BY <1>0, Sources
<1> DEFINE n == Len(calls[s])
           w == n - 1
           d == dest[s]
           q == calls[s]
           g == Mark(s)
           a == src(s)
           b == in(s)
           t == Type(s)
<1>4. n \in Nat \ {0} /\ Follow(g, q) /\ given(s) = g[w].reg
  BY <1>0, <1>2, GivenCounter
<1>5. w \in Nat /\ w + 1 = n
  BY <1>4
<1>6. IsSequence(d) /\ IsSequence(b) /\ Len(b) = q[n] /\ Within(b, a, Len(d))
  BY <1>0, Input DEF Shape, Progress, InBounds, Within, size
<1>7. g[w + 1].at = g[w].at + q[w + 1]
  <2>1. n \in 1..Len(q)
    BY <1>4
  <2> HIDE DEF g, q, n
  <2> QED BY <1>4, <1>5, <2>1 DEF Follow, w
<1>8. OfCalls(d, q, g, w, a) /\ (w > 0 => IV = g[w].reg)
  BY <1>0, <1>2 DEF Counted, Done, Left, Ended, Before
<1>9. OfCalls(d \o Kernel("Ctr", t, g[w].reg, b), q, g, w + 1, a)
  <2> HIDE DEF d, q, g, w, a, b, t, n
  <2> QED BY <1>5, <1>6, <1>7, <1>8, OneMore
<1>10. dest'[s] = d \o Kernel("Ctr", t, g[w].reg, b)
  BY <1>1, <1>2, <1>4
<1>11. Done(s)' = w + 1 /\ Left(s)' = w /\ Mark(s)' = g
  BY <1>1, <1>2, <1>5 DEF Done, Left, Mark, Before
<1> HIDE DEF d, g, w, b, t, n
<1> QED
  BY <1>1, <1>3, <1>8, <1>9, <1>10, <1>11 DEF Counted

LEMMA CountedKeep ==
  ASSUME Shape, NEW s \in Clients, Counted(s),
         KeepBlock(s) \/ KeepDest(s) \/ XorSrc(s) \/ KeepCounter(s)
  PROVE  Counted(s)'
<1>0. Client(s)
  BY DEF Client
<1> SUFFICES ASSUME mode'[s] = "Ctr", s \notin disturbed' PROVE Counted(s)'
  BY DEF Counted
<1>1. /\ calls' = calls /\ mode' = mode /\ inPlace' = inPlace /\ dest' = dest
      /\ mode[s] = "Ctr" /\ s \notin disturbed
  BY <1>0, Disturbs DEF KeepBlock, KeepDest, XorSrc, KeepCounter, config
<1>2. KeepCounter(s)
  <2>1. stage[s] # "xor"
    BY <1>1 DEF Shape, Progress, InBounds
  <2> QED BY <1>1, <2>1 DEF KeepBlock, KeepDest, XorSrc
<1>3. src(s)' = src(s)
  BY <1>0, Sources
<1>4. /\ stage[s] = "iv" /\ stage'[s] = "idle"
      /\ IV' = [bits |-> given(s).bits, count |-> Advanced(given(s).count, 16 * size(s))]
  BY <1>2 DEF KeepCounter, Shape, AesTypeOK
<1> DEFINE n == Len(calls[s])
           g == Mark(s)
<1>5. n \in Nat \ {0} /\ Follow(g, calls[s]) /\ given(s) = g[n - 1].reg
  BY <1>1, <1>4, GivenCounter
<1>6. IV' = g[n].reg
  <2>1. n \in 1..Len(calls[s])
    BY <1>5
  <2>2. g[n].reg = [bits |-> g[n - 1].reg.bits,
                    count |-> Advanced(g[n - 1].reg.count, 16 * calls[s][n])]
    <3> HIDE DEF g, n
    <3> QED BY <1>5, <2>1 DEF Follow
  <2> QED BY <1>4, <1>5, <2>2 DEF size
<1>7. Done(s)' = n /\ Done(s) = n /\ Left(s)' = n /\ Mark(s)' = g
  BY <1>1, <1>4 DEF Done, Left, Mark, Before
<1>8. OfCalls(dest[s], calls[s], g, n, src(s))
  BY <1>1, <1>7 DEF Counted
<1> HIDE DEF g, n
<1> QED
  BY <1>1, <1>3, <1>6, <1>7, <1>8 DEF Counted

Chains == \A s \in Clients : Linked(s) /\ Counted(s)

LEMMA ChainsInit ==
  AesInit => Chains
<1> SUFFICES ASSUME AesInit, NEW s \in Clients PROVE Linked(s) /\ Counted(s)
  BY DEF Chains
<1>1. calls[s] = <<>> /\ dest[s] = <<>> /\ stage[s] = "idle"
  BY DEF AesInit
<1>2. Linked(s)
  BY <1>1 DEF Linked, Followed
<1>3. Done(s) = 0 /\ Left(s) = 0 /\ Len(calls[s]) = 0 /\ Len(dest[s]) = 0
  BY <1>1 DEF Done, Left, Before
<1>4. Mark(s)[0] = [at |-> 0, reg |-> [bits |-> {}, count |-> FirstCount]]
  <2>1. Len(calls[s]) \in Nat
    BY <1>3
  <2> QED BY <2>1, MarkAt DEF Mark
<1>5. OfCalls(dest[s], calls[s], Mark(s), 0, src(s))
  BY <1>3, <1>4 DEF OfCalls
<1> QED
  BY <1>2, <1>3, <1>5 DEF Counted

LEMMA ChainsNext ==
  ASSUME Shape, Chains, [AesNext]_aesVars
  PROVE  Chains'
<1>1. CASE UNCHANGED aesVars \/ AesFinished
  <2>1. UNCHANGED <<mode, inPlace, IV, dest, disturbed, stage, calls>>
    BY <1>1 DEF AesFinished, aesVars, config, message
  <2>2. ASSUME NEW s \in Clients PROVE Linked(s)' /\ Counted(s)'
    <3>1. src(s)' = src(s) /\ iv(s)' = iv(s)
      BY <2>1 DEF src, iv, Plain, Total
    <3>2. Regs(s)' = Regs(s) /\ Mark(s)' = Mark(s)
      BY <2>1, <3>1 DEF Regs, Mark
    <3>3. Followed(s)' = Followed(s) /\ Later(s)' = Later(s) /\ LastDest(s)' = LastDest(s)
      BY <2>1 DEF Followed, Later, LastDest, Before
    <3>4. Done(s)' = Done(s) /\ Left(s)' = Left(s) /\ Ended(s)' = Ended(s)
      BY <2>1 DEF Done, Left, Ended, Before, Total
    <3>5. Linked(s)'
      BY <2>1, <3>1, <3>2, <3>3, <3>4 DEF Chains, Linked
    <3>6. Counted(s)'
      BY <2>1, <3>1, <3>2, <3>4 DEF Chains, Counted
    <3> QED BY <3>5, <3>6
  <2> QED BY <2>2 DEF Chains
<1>2. ASSUME NEW s \in Clients, Client(s) PROVE Chains'
  <2>1. \A t \in Clients \ {s} : Linked(t)' /\ Counted(t)'
    BY <1>2, LinkedOther, CountedOther DEF Chains
  <2>2. Linked(s) /\ Counted(s)
    BY DEF Chains
  <2>3. Linked(s)' /\ Counted(s)'
    <3>1. CASE Call(s)
      BY <2>2, <3>1, LinkedCall, CountedCall
    <3>2. CASE GetLoaded(s) \/ Reset(s) \/ Load(s) \/ CreateKernel(s)
      BY <2>2, <3>2, LinkedProgram, CountedProgram
    <3>3. CASE Run(s)
      BY <2>2, <3>3, LinkedRun, CountedRun
    <3>4. CASE KeepBlock(s) \/ KeepDest(s) \/ XorSrc(s) \/ KeepCounter(s)
      BY <2>2, <3>4, LinkedKeep, CountedKeep
    <3> QED BY <1>2, <3>1, <3>2, <3>3, <3>4 DEF Client
  <2> QED BY <2>1, <2>3 DEF Chains
<1> QED
  BY <1>1, <1>2 DEF AesNext

LEMMA FrontPart ==
  ASSUME NEW d, NEW a, IsSequence(d), IsSequence(a), Len(d) <= Len(a),
         \A i \in 1..Len(d) : d[i] = a[i]
  PROVE  d = SubSeq(a, 1, Len(d))
<1> DEFINE k == Len(d)
           b == SubSeq(a, 1, k)
<1>1. k \in Nat /\ 0 \in Nat /\ 0 + k = k /\ 0 + 1 = 1 /\ 0 + k <= Len(a)
  BY DEF IsSequence
<1>2. /\ IsSequence(b) /\ Len(b) = k /\ \A i \in 1..k : b[i] = a[i]
  <2>1. /\ IsSequence(SubSeq(a, 0 + 1, 0 + k))
        /\ Len(SubSeq(a, 0 + 1, 0 + k)) = k
        /\ \A i \in 1..k : SubSeq(a, 0 + 1, 0 + k)[i] = a[0 + i]
    <3> HIDE DEF k
    <3> QED BY <1>1, Part
  <2>2. \A i \in 1..k : 0 + i = i
    OBVIOUS
  <2>3. SubSeq(a, 0 + 1, 0 + k) = b
    BY <1>1
  <2> HIDE DEF b, k
  <2> QED BY <2>1, <2>2, <2>3
<1>3. d = [i \in 1..k |-> d[i]] /\ b = [i \in 1..k |-> b[i]]
  <2> HIDE DEF b
  <2> QED BY <1>2 DEF IsSequence
<1>4. \A i \in 1..k : d[i] = b[i]
  BY <1>2
<1>5. d = b
  <2> HIDE DEF b, k
  <2> QED BY <1>3, <1>4
<1> QED
  BY <1>5

LEMMA WholeKernel ==
  ASSUME NEW d, NEW a, NEW m, NEW t, NEW r, IsSequence(d), Len(a) \in Nat, Len(d) <= Len(a),
         AsOne(d, m, t, Registers(m, t, r, a), a)
  PROVE  d = SubSeq(Kernel(m, t, r, a), 1, Len(d))
<1> DEFINE K == Kernel(m, t, r, a)
<1>1. /\ IsSequence(K) /\ Len(K) = Len(a)
      /\ \A i \in 1..Len(a) : K[i] = Cipher(m, t, Registers(m, t, r, a)[i - 1], a[i])
  BY KernelAt
<1>2. Len(d) \in Nat
  BY DEF IsSequence
<1> HIDE DEF K
<1>3. \A i \in 1..Len(d) : d[i] = K[i]
  BY <1>1, <1>2 DEF AsOne
<1>4. d = SubSeq(K, 1, Len(d))
  BY <1>1, <1>3, FrontPart
<1> QED
  BY <1>4 DEF K

LEMMA Chaining ==
  Shape /\ Chains => ChainContinues
<1> SUFFICES ASSUME Shape, Chains, NEW s \in Clients \ {"dec"}, Chained(s)
             PROVE  dest[s] = SubSeq(Kernel(mode[s], "ENC", iv(s), Plain(s)), 1, Len(dest[s]))
  BY DEF ChainContinues
<1> DEFINE m == mode[s]
           d == dest[s]
           a == Plain(s)
           r == iv(s)
<1>1. /\ IsSequence(d) /\ Len(d) \in Nat /\ Len(a) \in Nat /\ Len(d) <= Len(a)
      /\ Type(s) = "ENC" /\ src(s) = a /\ m \in Modes
  <2>1. Len(a) = Total(s)
    BY Totals DEF Plain
  <2> QED BY <2>1, Totals DEF Shape, AesTypeOK, Progress, InBounds, IsSequence, Type, src
<1>2. AsOne(d, m, "ENC", Registers(m, "ENC", r, a), a)
  <2>1. CASE calls[s] = <<>>
    <3>1. Len(d) = 0
      BY <2>1 DEF Shape, Progress, InBounds
    <3> QED BY <3>1 DEF AsOne
  <2>2. CASE calls[s] # <<>> /\ m # "Ctr"
    <3>1. Followed(s)
      BY <2>2 DEF Followed, Chained
    <3> QED BY <1>1, <3>1 DEF Chains, Linked, Regs
  <2>3. CASE calls[s] # <<>> /\ m = "Ctr"
    <3>1. Len(calls[s]) = 1 /\ s \notin disturbed
      BY <2>3 DEF Chained
    <3>2. OfCalls(d, calls[s], Mark(s), Done(s), a) /\ Done(s) \in {0, 1}
      <4>1. Done(s) \in {0, 1}
        BY <3>1 DEF Done
      <4>2. OfCalls(d, calls[s], Mark(s), Done(s), a)
        BY <1>1, <2>3, <3>1 DEF Chains, Counted
      <4> QED BY <4>1, <4>2
    <3>3. Mark(s)[0].at = 0 /\ Mark(s)[0].reg = r
      <4>1. Mark(s)[0] = [at |-> 0, reg |-> [bits |-> {}, count |-> FirstCount]]
        <5>1. Len(calls[s]) \in Nat
          BY <3>1
        <5> QED BY <5>1, MarkAt DEF Mark
      <4> QED BY <2>3, <4>1 DEF iv
    <3>4. ASSUME NEW i \in 1..Len(d)
          PROVE  d[i] = Cipher("Ctr", "ENC", Registers("Ctr", "ENC", r, a)[i - 1], a[i])
      <4>1. PICK c \in 1..Done(s) : \E j \in 1..calls[s][c] : i = Mark(s)[c - 1].at + j
        BY <3>2 DEF OfCalls
      <4>2. c = 1 /\ c - 1 = 0
        BY <3>2
      <4>3. PICK j \in 1..calls[s][c] : i = Mark(s)[0].at + j
        BY <4>1, <4>2
      <4>4. i = j /\ 0 + j = j
        BY <3>3, <4>3
      <4>5. d[Mark(s)[c - 1].at + j] =
              Cipher("Ctr", "ENC", Pad(Mark(s)[c - 1].reg, j - 1), a[Mark(s)[c - 1].at + j])
        BY <3>2, <4>1, <4>3 DEF OfCalls
      <4>6. d[i] = Cipher("Ctr", "ENC", Pad(r, i - 1), a[i])
        <5> HIDE DEF d, a, r
        <5> QED BY <3>3, <4>2, <4>3, <4>4, <4>5
      <4>7. Registers("Ctr", "ENC", r, a)[i - 1] = Pad(r, i - 1)
        <5>1. \A k \in 0..Len(a) : Registers("Ctr", "ENC", r, a)[k] = Pad(r, k)
          <6> HIDE DEF a, r
          <6> QED BY <1>1, PadOf
        <5>2. i - 1 \in 0..Len(a)
          BY <1>1
        <5> HIDE DEF a, r
        <5> QED BY <5>1, <5>2
      <4> QED BY <4>6, <4>7
    <3> QED BY <2>3, <3>4 DEF AsOne
  <2> QED BY <2>1, <2>2, <2>3
<1>3. d = SubSeq(Kernel(m, "ENC", r, a), 1, Len(d))
  <2> HIDE DEF d, m, r, a
  <2> QED BY <1>1, <1>2, WholeKernel
<1> QED
  BY <1>3

(* ChainContinues: the calls of an encrypting client that nobody comes between make *)
(* of a message of any length, cut in any way, what one call would: the block that   *)
(* each leaves in the global IV (LibAes.cpp, every Encrypt function) is the register  *)
(* that the kernel would have had there.                                          *)
THEOREM AesChainContinues == AesSpec => []ChainContinues
<1>1. AesInit => Shape /\ Chains
  BY ShapeInit, ChainsInit
<1>2. Shape /\ Chains /\ [AesNext]_aesVars => (Shape /\ Chains)'
  BY ShapeNext, ChainsNext
<1> QED
  BY <1>1, <1>2, Chaining, PTL DEF AesSpec

LEMMA SameSequence ==
  ASSUME NEW d, NEW a, IsSequence(d), IsSequence(a), Len(d) = Len(a),
         \A i \in 1..Len(d) : d[i] = a[i]
  PROVE  d = a
BY DEF IsSequence

(* In every mode but CTR *)
LEMMA BackLinked ==
  ASSUME Shape, Chains, calls["dec"] # <<>>, {"enc", "dec"} \cap disturbed = {},
         inPlace => mode["dec"] \in {"Ecb", "Ctr"}, mode["dec"] # "Ctr",
         NEW i \in 1..Len(dest["dec"])
  PROVE  dest["dec"][i] = Plain("dec")[i]
<1> DEFINE m == mode["dec"]
           r == iv("dec")
           a == Plain("dec")
           c == dest["enc"]
           d == dest["dec"]
<1>1. /\ "enc" \in Clients /\ "dec" \in Clients /\ mode["enc"] = m /\ iv("enc") = r
      /\ Plain("enc") = a /\ Total("enc") = Total("dec") /\ m \in Modes
      /\ Type("enc") = "ENC" /\ Type("dec") = "DEC" /\ src("enc") = a /\ src("dec") = c
  <2>1. "enc" \in Clients /\ "dec" \in Clients /\ mode["enc"] = mode["dec"]
    BY DEF Clients, Shape, Progress
  <2> QED BY <2>1 DEF Shape, AesTypeOK, iv, Plain, Total, Type, src
<1>2. Ended("enc") /\ InBounds("enc") /\ InBounds("dec")
  BY <1>1 DEF Shape, Progress
<1>3. calls["enc"] # <<>>
  BY <1>2, Totals DEF InBounds, Ended
<1>4. Followed("enc") /\ Followed("dec")
  BY <1>1, <1>3 DEF Followed
<1>5. /\ AsOne(c, m, "ENC", Registers(m, "ENC", r, a), a)
      /\ AsOne(d, m, "DEC", Registers(m, "DEC", r, c), c)
  BY <1>1, <1>4 DEF Chains, Linked, Regs
<1>6. /\ IsSequence(c) /\ Len(a) \in Nat /\ Len(c) = Len(a) /\ Len(d) \in Nat /\ Len(d) <= Len(a)
  <2>1. Len(a) = Total("dec")
    BY Totals DEF Plain
  <2> QED BY <1>1, <1>2, <2>1, Totals DEF InBounds, Ended, IsSequence
<1>7. c = Kernel(m, "ENC", r, a)
  <2> DEFINE K == Kernel(m, "ENC", r, a)
  <2>1. /\ IsSequence(K) /\ Len(K) = Len(a)
        /\ \A k \in 1..Len(a) : K[k] = Cipher(m, "ENC", Registers(m, "ENC", r, a)[k - 1], a[k])
    <3> HIDE DEF m, r, a
    <3> QED BY <1>6, KernelAt
  <2> HIDE DEF c, m, r, a, K
  <2>2. \A k \in 1..Len(c) : c[k] = K[k]
    BY <1>5, <1>6, <2>1 DEF AsOne
  <2>3. c = K
    BY <1>6, <2>1, <2>2, SameSequence
  <2> QED BY <2>3 DEF K
<1>8. d[i] = Cipher(m, "DEC", Registers(m, "DEC", r, c)[i - 1], c[i])
  <2> HIDE DEF c, m, r, a
  <2> QED BY <1>5 DEF AsOne
<1>9. i \in 1..Len(a)
  BY <1>6
<1>10. Cipher(m, "DEC", Registers(m, "DEC", r, Kernel(m, "ENC", r, a))[i - 1],
              Kernel(m, "ENC", r, a)[i]) = a[i]
  <2> HIDE DEF c, m, r, a, d
  <2> QED BY <1>1, <1>6, <1>9, ComesBack
<1>11. d[i] = a[i]
  <2> HIDE DEF c, m, r, a, d
  <2> QED BY <1>7, <1>8, <1>10
<1> QED
  BY <1>11

LEMMA BackCounted ==
  ASSUME Shape, Chains, calls["dec"] # <<>>, {"enc", "dec"} \cap disturbed = {},
         mode["dec"] = "Ctr", SameSizes,
         NEW i \in 1..Len(dest["dec"])
  PROVE  dest["dec"][i] = Plain("dec")[i]
<1> DEFINE a == Plain("dec")
           c == dest["enc"]
           d == dest["dec"]
           p == calls["dec"]
           q == calls["enc"]
           r == [bits |-> {}, count |-> FirstCount]
<1>1. /\ "enc" \in Clients /\ "dec" \in Clients /\ mode["enc"] = "Ctr"
      /\ src("enc") = a /\ src("dec") = c
  BY DEF Clients, Shape, Progress, src, Plain, Total
<1>2. Ended("enc")
  BY DEF Shape, Progress
<1>3. p \in Seq(Nat \ {0}) /\ q \in Seq(Nat \ {0})
  BY <1>1 DEF Shape, AesTypeOK
<1>4. /\ Len(p) \in Nat /\ Len(q) \in Nat /\ Len(p) <= Len(q) /\ Agree(p, q)
  <2>1. /\ \A k \in DOMAIN p : k \in DOMAIN q /\ p[k] = q[k]
        /\ DOMAIN p = 1..Len(p) /\ DOMAIN q = 1..Len(q) /\ Len(p) \in Nat /\ Len(q) \in Nat
    BY <1>3 DEF SameSizes
  <2> HIDE DEF p, q
  <2>2. \A k \in 1..Len(p) : k \in 1..Len(q) /\ p[k] = q[k]
    BY <2>1
  <2>3. Len(p) <= Len(q)
    BY <2>1, <2>2
  <2> QED BY <2>1, <2>2, <2>3 DEF Agree
<1>5. /\ OfCalls(c, q, Marks(q, r), Done("enc"), a) /\ Done("enc") = Len(q)
      /\ OfCalls(d, p, Marks(p, r), Done("dec"), c) /\ Done("dec") \in {Len(p) - 1, Len(p)}
  <2>1. Counted("enc") /\ Counted("dec")
    BY <1>1 DEF Chains
  <2>2. Done("enc") = Len(q) /\ Done("dec") \in {Len(p) - 1, Len(p)}
    BY <1>2 DEF Done, Before, Ended
  <2> QED BY <1>1, <2>1, <2>2 DEF Counted, Mark
<1>6. PICK k \in 1..Done("dec") : \E j \in 1..p[k] : i = Marks(p, r)[k - 1].at + j
  BY <1>5 DEF OfCalls
<1>7. PICK j \in 1..p[k] : i = Marks(p, r)[k - 1].at + j
  BY <1>6
<1> DEFINE x == Marks(p, r)[k - 1]
<1>8. /\ k \in 1..Len(p) /\ k \in 1..Done("enc") /\ p[k] = q[k] /\ Marks(q, r)[k - 1] = x
  <2>1. k \in 1..Len(p) /\ k \in 1..Done("enc") /\ k - 1 \in 0..Len(p)
    <3> HIDE DEF p, q, r
    <3> QED BY <1>4, <1>5
  <2>2. p[k] = q[k]
    BY <1>4, <2>1 DEF Agree
  <2>3. \A n \in 0..Len(p) : Marks(p, r)[n] = Marks(q, r)[n]
    <3> HIDE DEF p, q, r
    <3> QED BY <1>4, SameMarks
  <2> HIDE DEF p, q, r
  <2> QED BY <2>1, <2>2, <2>3
<1>9. d[i] = Cipher("Ctr", "ENC", Pad(x.reg, j - 1), c[i])
  <2>1. d[Marks(p, r)[k - 1].at + j] =
          Cipher("Ctr", "ENC", Pad(Marks(p, r)[k - 1].reg, j - 1), c[Marks(p, r)[k - 1].at + j])
    <3> HIDE DEF p, q, r, c, d
    <3> QED BY <1>5, <1>7 DEF OfCalls
  <2> HIDE DEF p, q, r, c, d
  <2> QED BY <1>7, <2>1
<1>10. c[i] = Cipher("Ctr", "ENC", Pad(x.reg, j - 1), a[i])
  <2> HIDE DEF x, p, q, r, c, a
  <2>1. j \in 1..q[k] /\ i = x.at + j
    BY <1>7, <1>8 DEF x
  <2>2. c[Marks(q, r)[k - 1].at + j] =
          Cipher("Ctr", "ENC", Pad(Marks(q, r)[k - 1].reg, j - 1), a[Marks(q, r)[k - 1].at + j])
    BY <1>5, <1>8, <2>1 DEF OfCalls
  <2> QED BY <1>8, <2>1, <2>2
<1> HIDE DEF x, p, q, r, c, a, d
<1>11. ASSUME NEW y, NEW z
       PROVE  Cipher("Ctr", "ENC", y, Cipher("Ctr", "ENC", y, z)) = z
  <2> DEFINE e == Enc({<<"counter", y.count>>} \cup y.bits)
  <2>1. \A u : Cipher("Ctr", "ENC", y, u) = Xor(u, e)
    BY DEF Cipher
  <2> HIDE DEF e
  <2>2. Cipher("Ctr", "ENC", y, Cipher("Ctr", "ENC", y, z)) = Xor(Xor(z, e), e)
    BY <2>1
  <2> QED BY <2>2, XorTwice
<1>12. d[i] = a[i]
  BY <1>9, <1>10, <1>11
<1> QED
  BY <1>12 DEF d, a

LEMMA ComingBack ==
  Shape /\ Chains => MessageComesBack
<1> SUFFICES ASSUME Shape, Chains, {"enc", "dec"} \cap disturbed = {},
                    inPlace => mode["dec"] \in {"Ecb", "Ctr"},
                    mode["dec"] = "Ctr" => SameSizes
             PROVE  dest["dec"] = SubSeq(Plain("dec"), 1, Len(dest["dec"]))
  BY DEF MessageComesBack
<1> DEFINE d == dest["dec"]
           a == Plain("dec")
<1>1. InBounds("dec") /\ IsSequence(d) /\ Len(d) <= Total("dec")
  BY DEF Shape, Progress, Clients, InBounds
<1>2. IsSequence(a) /\ Len(a) = Total("dec")
  BY Totals DEF Plain, IsSequence
<1>3. ASSUME NEW i \in 1..Len(d) PROVE d[i] = a[i]
  <2>1. calls["dec"] # <<>>
    BY <1>1 DEF InBounds
  <2>2. CASE mode["dec"] = "Ctr"
    BY <2>1, <2>2, BackCounted
  <2>3. CASE mode["dec"] # "Ctr"
    BY <2>1, <2>3, BackLinked
  <2> QED BY <2>2, <2>3
<1>4. d = SubSeq(a, 1, Len(d))
  <2> HIDE DEF d, a
  <2> QED BY <1>1, <1>2, <1>3, FrontPart
<1> QED
  BY <1>4

(* MessageComesBack: under the conditions it names, what aesCbcDecrypt and the other *)
(* Decrypt functions (LibAes.cpp) give is the message that was encrypted, whatever its *)
(* length and whatever the sizes of the calls of either; of CTR, when the sizes are the *)
(* same, although its counter is not advanced as the kernel advances it.              *)
THEOREM AesMessageComesBack == AesSpec => []MessageComesBack
<1>1. AesInit => Shape /\ Chains
  BY ShapeInit, ChainsInit
<1>2. Shape /\ Chains /\ [AesNext]_aesVars => (Shape /\ Chains)'
  BY ShapeNext, ChainsNext
<1> QED
  BY <1>1, <1>2, ComingBack, PTL DEF AesSpec

(***************************************************************************)
(* Lz4RoundTrip: the blocks of a file, and their content                      *)
(***************************************************************************)
LEMMA DataExist ==
  ASSUME Len(file) \in Nat
  PROVE  D!DataOf = [i \in 0..Len(file) |->
                       IF i = 0 THEN <<>>
                       ELSE IF file[i].t = "data" THEN Append(D!DataOf[i - 1], file[i])
                       ELSE D!DataOf[i - 1]]
<1> DEFINE next(x, i) == IF file[i].t = "data" THEN Append(x, file[i]) ELSE x
           upto(f, k) == f = [i \in 0..k |-> IF i = 0 THEN <<>> ELSE next(f[i - 1], i)]
           S == {k \in Nat : \E f : upto(f, k)}
<1>1. 0 \in S
  <2>1. upto([i \in 0..0 |-> <<>>], 0)
    OBVIOUS
  <2> QED BY <2>1
<1>2. ASSUME NEW k \in S PROVE k + 1 \in S
  <2>1. PICK f : upto(f, k)
    OBVIOUS
  <2> DEFINE g == [i \in 0..(k + 1) |-> IF i = k + 1 THEN next(f[k], k + 1) ELSE f[i]]
  <2>2. upto(g, k + 1)
    <3> HIDE DEF next
    <3> QED BY <2>1
  <2>3. \E h : upto(h, k + 1)
    <3> HIDE DEF g, upto
    <3> QED BY <2>2
  <2>4. k + 1 \in Nat
    OBVIOUS
  <2> HIDE DEF upto
  <2> QED BY <2>3, <2>4
<1>3. S = Nat
  <2> HIDE DEF S
  <2>1. S \subseteq Nat
    BY DEF S
  <2> QED BY <1>1, <1>2, <2>1, Induction
<1>4. \E f : upto(f, Len(file))
  <2>1. Len(file) \in S
    BY <1>3
  <2> HIDE DEF upto
  <2> QED BY <2>1 DEF S
<1> QED
  BY <1>4 DEF D!DataOf

LEMMA ContentExists ==
  ASSUME Len(D!Data) \in Nat
  PROVE  D!ContentOf = [i \in 0..Len(D!Data) |->
                          IF i = 0 THEN <<>>
                          ELSE D!ContentOf[i - 1] \o
                                 [j \in 1..D!Data[i].units |-> <<D!Data[i].k, j>>]]
<1> DEFINE next(x, i) == x \o [j \in 1..D!Data[i].units |-> <<D!Data[i].k, j>>]
           upto(f, k) == f = [i \in 0..k |-> IF i = 0 THEN <<>> ELSE next(f[i - 1], i)]
           S == {k \in Nat : \E f : upto(f, k)}
<1>1. 0 \in S
  <2>1. upto([i \in 0..0 |-> <<>>], 0)
    OBVIOUS
  <2> QED BY <2>1
<1>2. ASSUME NEW k \in S PROVE k + 1 \in S
  <2>1. PICK f : upto(f, k)
    OBVIOUS
  <2> DEFINE g == [i \in 0..(k + 1) |-> IF i = k + 1 THEN next(f[k], k + 1) ELSE f[i]]
  <2>2. upto(g, k + 1)
    <3> HIDE DEF next
    <3> QED BY <2>1
  <2>3. \E h : upto(h, k + 1)
    <3> HIDE DEF g, upto
    <3> QED BY <2>2
  <2>4. k + 1 \in Nat
    OBVIOUS
  <2> HIDE DEF upto
  <2> QED BY <2>3, <2>4
<1>3. S = Nat
  <2> HIDE DEF S
  <2>1. S \subseteq Nat
    BY DEF S
  <2> QED BY <1>1, <1>2, <2>1, Induction
<1>4. \E f : upto(f, Len(D!Data))
  <2>1. Len(D!Data) \in S
    BY <1>3
  <2> HIDE DEF upto
  <2> QED BY <2>1 DEF S
<1> QED
  BY <1>4 DEF D!ContentOf

Flat(s) ==
  LET flatten[i \in 1..Len(s)] == IF i = 1 THEN s[i] ELSE flatten[i - 1] \o s[i]
  IN flatten

LEMMA FlatExists ==
  ASSUME NEW s, Len(s) \in Nat
  PROVE  Flat(s) = [i \in 1..Len(s) |-> IF i = 1 THEN s[i] ELSE Flat(s)[i - 1] \o s[i]]
<1> DEFINE next(x, i) == x \o s[i]
           upto(f, k) == f = [i \in 1..k |-> IF i = 1 THEN s[i] ELSE next(f[i - 1], i)]
           S == {k \in Nat : \E f : upto(f, k)}
<1>1. 0 \in S
  <2>1. upto([i \in 1..0 |-> <<>>], 0)
    OBVIOUS
  <2> QED BY <2>1
<1>2. ASSUME NEW k \in S PROVE k + 1 \in S
  <2>1. PICK f : upto(f, k)
    OBVIOUS
  <2> DEFINE g == [i \in 1..(k + 1) |->
                     IF i = k + 1 THEN IF k = 0 THEN s[1] ELSE next(f[k], k + 1) ELSE f[i]]
  <2>2. upto(g, k + 1)
    <3> HIDE DEF next
    <3>1. CASE k = 0
      BY <3>1
    <3>2. CASE k # 0
      BY <2>1, <3>2
    <3> QED BY <3>1, <3>2
  <2>3. \E h : upto(h, k + 1)
    <3> HIDE DEF g, upto
    <3> QED BY <2>2
  <2>4. k + 1 \in Nat
    OBVIOUS
  <2> HIDE DEF upto
  <2> QED BY <2>3, <2>4
<1>3. S = Nat
  <2> HIDE DEF S
  <2>1. S \subseteq Nat
    BY DEF S
  <2> QED BY <1>1, <1>2, <2>1, Induction
<1>4. \E f : upto(f, Len(s))
  <2>1. Len(s) \in S
    BY <1>3
  <2> HIDE DEF upto
  <2> QED BY <2>1 DEF S
<1> QED
  BY <1>4 DEF Flat

LEMMA FlattenIsFlat ==
  ASSUME NEW s
  PROVE  FlattenSeq(s) = IF Len(s) = 0 THEN s ELSE Flat(s)[Len(s)]
BY DEF FlattenSeq, Flat

(***************************************************************************)
(* The compressor                                                            *)
(***************************************************************************)
Lz4Slots == 0..(MAX_NUMBER_BLOCKS - 1)
Piece == [size : 1..BlockBytes, compressed : 1..BlockBytes]
SentBlock == [word : [n : Nat, raw : BOOLEAN], data : Nat, bytes : Nat, last : BOOLEAN]

LzTypes ==
  /\ original \in Seq(Piece) /\ original # <<>>
  /\ \A k \in 1..Len(original) :
       /\ original[k].compressed <= original[k].size
       /\ k < Len(original) => original[k].size = BlockBytes
  /\ cpc \in {"pop", "kernel", "emit", "end"}
  /\ popped \in Nat /\ numBlocks \in 0..MAX_NUMBER_BLOCKS /\ bIdx \in Nat
  /\ clast \in BOOLEAN
  /\ cInBufferHost \in [Lz4Slots -> Nat]
  /\ cOutBufferHost \in [Lz4Slots -> Nat]
  /\ compressSizeBufferHost \in [Lz4Slots -> Nat]
  /\ framed \in Seq(SentBlock)

(* The buffer holds the blocks popped last, in their order.                   *)
LzBase == popped - numBlocks
LzBuffered ==
  /\ LzBase \in Nat /\ 0 < numBlocks /\ popped <= Len(original)
  /\ clast <=> popped = Len(original)
  /\ \A s \in 0..(numBlocks - 1) : cInBufferHost[s] = LzBase + s + 1
LzCompressed ==
  \A s \in 0..(numBlocks - 1) :
    /\ compressSizeBufferHost[s] = original[LzBase + s + 1].compressed
    /\ C!Smaller(LzBase + s + 1) => cOutBufferHost[s] = LzBase + s + 1
LzProgress ==
  /\ cpc = "pop" => Len(framed) = popped /\ popped < Len(original)
  /\ cpc = "kernel" => LzBuffered /\ Len(framed) = LzBase
  /\ cpc = "emit" => /\ LzBuffered /\ LzCompressed
                     /\ bIdx < numBlocks /\ Len(framed) = LzBase + bIdx
  /\ cpc = "end" => Len(framed) = Len(original)

LzCompressing == LzTypes /\ LzProgress /\ C!FramedInOrder

LEMMA BlockBytesType ==
  BlockBytes \in Nat \ {0} /\ MAX_NUMBER_BLOCKS \in Nat \ {0} /\ MaxBlocks \in Nat \ {0}
BY Lz4Assumption

LEMMA LzInit ==
  ASSUME C!Init
  PROVE  LzCompressing /\ cpc # "end"
<1>1. PICK n \in 1..MaxBlocks :
        /\ original \in [1..n -> {b \in Piece : b.compressed <= b.size}]
        /\ \A k \in 1..(n - 1) : original[k].size = BlockBytes
  BY DEF C!Init, C!Inputs, Piece
<1>2. n \in Nat \ {0}
  BY BlockBytesType
<1>3. original \in Seq(Piece) /\ Len(original) = n /\ original # <<>>
  BY <1>1, <1>2
<1>4. ASSUME NEW k \in 1..Len(original)
      PROVE  /\ original[k].compressed <= original[k].size
             /\ k < Len(original) => original[k].size = BlockBytes
  BY <1>1, <1>2, <1>3
<1>5. /\ cpc = "pop" /\ framed = <<>>
      /\ popped = 0 /\ clast = FALSE /\ numBlocks = 0 /\ bIdx = 0
      /\ cInBufferHost \in [Lz4Slots -> Nat]
      /\ cOutBufferHost \in [Lz4Slots -> Nat]
      /\ compressSizeBufferHost \in [Lz4Slots -> Nat]
  BY DEF C!Init, C!Start, C!Slots, Lz4Slots, C!Garbage
<1>6. framed \in Seq(SentBlock) /\ Len(framed) = 0
  BY <1>5
<1>7. LzTypes
  <2>1. numBlocks \in 0..MAX_NUMBER_BLOCKS /\ popped \in Nat /\ bIdx \in Nat
    BY <1>5, BlockBytesType
  <2>2. clast \in BOOLEAN /\ cpc \in {"pop", "kernel", "emit", "end"}
    BY <1>5
  <2> QED BY <1>3, <1>4, <1>5, <1>6, <2>1, <2>2 DEF LzTypes
<1> QED
  BY <1>2, <1>3, <1>5, <1>6, <1>7 DEF LzCompressing, LzProgress, C!FramedInOrder

LEMMA LzPop ==
  ASSUME LzCompressing, C!PopChunk
  PROVE  LzCompressing' /\ cpc' # "end"
<1> USE BlockBytesType DEF LzCompressing, C!PopChunk
<1>1. /\ popped \in Nat /\ popped < Len(original) /\ Len(original) \in Nat
      /\ Len(framed) = popped
  BY DEF LzTypes, LzProgress
<1>2. /\ numBlocks' \in 1..MAX_NUMBER_BLOCKS /\ popped' = popped + numBlocks'
      /\ popped' <= Len(original) /\ popped' \in Nat
  BY <1>1 DEF C!NumBlocks, C!Left
<1>3. LzTypes'
  <2>1. cInBufferHost' \in [Lz4Slots -> Nat]
    <3>1. cInBufferHost \in [Lz4Slots -> Nat]
      BY DEF LzTypes
    <3>2. \A s \in Lz4Slots : popped + s + 1 \in Nat
      BY <1>1 DEF Lz4Slots
    <3>3. cInBufferHost' =
            [s \in Lz4Slots |-> IF s < numBlocks' THEN popped + s + 1 ELSE cInBufferHost[s]]
      BY DEF C!Slots, Lz4Slots
    <3> QED BY <3>1, <3>2, <3>3
  <2> QED BY <1>2, <2>1 DEF LzTypes
<1>4. LzBase' = popped
  BY <1>1, <1>2 DEF LzBase
<1>5. \A s \in 0..(numBlocks' - 1) : cInBufferHost'[s] = popped + s + 1
  BY <1>2 DEF C!Slots
<1>6. LzProgress'
  <2>1. (clast' <=> popped' = Len(original')) /\ clast' \in BOOLEAN
    OBVIOUS
  <2>2. LzBuffered'
    BY <1>1, <1>2, <1>4, <1>5, <2>1 DEF LzBuffered
  <2> QED BY <1>1, <1>4, <2>2 DEF LzProgress
<1>7. C!FramedInOrder'
  BY DEF C!FramedInOrder, C!Smaller
<1> QED BY <1>3, <1>6, <1>7

LEMMA LzCompress ==
  ASSUME LzCompressing, C!Compress
  PROVE  LzCompressing' /\ cpc' # "end"
<1> USE BlockBytesType DEF LzCompressing, C!Compress
<1>1. LzBuffered /\ Len(framed) = LzBase /\ numBlocks \in 0..MAX_NUMBER_BLOCKS
  BY DEF LzTypes, LzProgress
<1>2. \A s \in 0..(numBlocks - 1) :
        /\ s \in C!Slots /\ s < numBlocks /\ cInBufferHost[s] = LzBase + s + 1
        /\ LzBase + s + 1 \in 1..Len(original)
  BY <1>1 DEF LzBuffered, C!Slots, LzBase, LzTypes
<1>3. \A s \in C!Slots : s < numBlocks => /\ cInBufferHost[s] \in Nat
                                         /\ original[cInBufferHost[s]].compressed \in Nat
  <2> SUFFICES ASSUME NEW s \in C!Slots, s < numBlocks
               PROVE  cInBufferHost[s] \in Nat /\ original[cInBufferHost[s]].compressed \in Nat
    OBVIOUS
  <2>1. cInBufferHost[s] \in 1..Len(original)
    <3>1. s \in 0..(numBlocks - 1)
      BY <1>1 DEF C!Slots
    <3> QED BY <3>1, <1>2
  <2>2. original[cInBufferHost[s]] \in Piece
    BY <2>1 DEF LzTypes
  <2> QED BY <2>1, <2>2 DEF Piece
<1>4. LzTypes'
  <2>1. cOutBufferHost' \in [Lz4Slots -> Nat]
    BY <1>3 DEF LzTypes, C!Slots, Lz4Slots, C!Garbage
  <2>2. compressSizeBufferHost' \in [Lz4Slots -> Nat]
    BY <1>3 DEF LzTypes, C!Slots, Lz4Slots, C!Sizes
  <2> QED BY <2>1, <2>2 DEF LzTypes
<1>5. LzBase' = LzBase /\ LzBuffered'
  BY <1>1 DEF LzBase, LzBuffered
<1>6. LzCompressed'
  <2>1. ASSUME NEW s \in 0..(numBlocks - 1)
        PROVE  /\ compressSizeBufferHost'[s] = original[LzBase + s + 1].compressed
               /\ C!Smaller(LzBase + s + 1) => cOutBufferHost'[s] = LzBase + s + 1
    BY <1>1, <1>2 DEF C!Sizes
  <2> QED BY <1>5, <2>1 DEF LzCompressed, C!Smaller
<1>7. LzProgress'
  BY <1>1, <1>5, <1>6 DEF LzProgress, LzBuffered, LzBase, LzTypes
<1>8. C!FramedInOrder'
  BY DEF C!FramedInOrder, C!Smaller
<1> QED BY <1>4, <1>7, <1>8

RightlySent(c, whole, bytes, k, last) ==
  /\ c \in SentBlock /\ c.data = k /\ c.bytes = bytes
  /\ c.word.raw <=> ~(bytes < whole)
  /\ c.word.n = c.bytes \/ (c.word.raw /\ c.bytes = BlockBytes)
  /\ c.last <=> last

LEMMA SentRight ==
  ASSUME NEW whole \in 1..BlockBytes, NEW bytes \in 1..BlockBytes, bytes <= whole,
         NEW k \in Nat, NEW last \in BOOLEAN
  PROVE  RightlySent([word |-> C!Word(IF bytes < whole THEN bytes ELSE whole, ~(bytes < whole)),
                      data |-> k, bytes |-> bytes, last |-> last], whole, bytes, k, last)
<1> USE BlockBytesType
<1>1. bytes \in Nat /\ whole % BlockBytes \in Nat
  OBVIOUS
<1>2. CASE bytes < whole
  BY <1>1, <1>2 DEF RightlySent, SentBlock, C!Word
<1>3. CASE ~(bytes < whole)
  <2>1. bytes = whole
    BY <1>3
  <2>2. whole % BlockBytes = bytes \/ bytes = BlockBytes
    BY <2>1
  <2> QED BY <1>1, <1>3, <2>2 DEF RightlySent, SentBlock, C!Word
<1> QED BY <1>2, <1>3

LEMMA LzEmit ==
  ASSUME LzCompressing, C!EmitBlock
  PROVE  LzCompressing'
<1> USE BlockBytesType DEF LzCompressing
<1> DEFINE k == LzBase + bIdx + 1
           c == [word |-> C!Word(IF C!Smaller(k) THEN original[k].compressed ELSE original[k].size,
                                 ~C!Smaller(k)),
                 data |-> k, bytes |-> original[k].compressed, last |-> C!LastFlag]
<1>1. /\ LzBuffered /\ LzCompressed /\ bIdx < numBlocks /\ Len(framed) = LzBase + bIdx
      /\ numBlocks \in 1..MAX_NUMBER_BLOCKS /\ bIdx \in 0..(numBlocks - 1)
      /\ popped \in Nat /\ LzBase \in Nat /\ Len(original) \in Nat
  BY SMTT(30) DEF LzTypes, LzProgress, LzBuffered, C!EmitBlock
<1>2. k \in 1..Len(original) /\ k = Len(framed) + 1 /\ k = popped - numBlocks + bIdx + 1
  BY <1>1 DEF LzBuffered, LzBase
<1>3. /\ cInBufferHost[bIdx] = k
      /\ compressSizeBufferHost[bIdx] = original[k].compressed
      /\ C!Smaller(k) => cOutBufferHost[bIdx] = k
      /\ original[k] \in Piece /\ original[k].compressed <= original[k].size
  BY <1>1, <1>2 DEF LzBuffered, LzCompressed, LzTypes
<1>4. ~C!Smaller(k) => original[k].compressed = original[k].size
  BY <1>3 DEF C!Smaller, Piece
<1>5. framed' = Append(framed, c)
  <2>1. popped - numBlocks + bIdx + 1 = k
    BY <1>2
  <2>2. (compressSizeBufferHost[bIdx] < C!BlockSize(k)) = C!Smaller(k)
    BY <1>3 DEF C!Smaller, C!BlockSize
  <2> HIDE DEF k
  <2> QED BY <2>1, <2>2, <1>3, <1>4 DEF C!EmitBlock, C!BlockSize
<1>6. C!LastFlag <=> k = Len(original)
  <2>1. clast <=> (popped = Len(original))
    BY <1>1 DEF LzBuffered
  <2>2. popped <= Len(original) /\ k <= popped /\ (k = popped <=> (bIdx = numBlocks - 1))
    BY <1>1, <1>2 DEF LzBuffered
  <2>3. (k = Len(original)) <=> (popped = Len(original) /\ bIdx = numBlocks - 1)
    BY <1>1, <2>2
  <2> QED BY <2>1, <2>3 DEF C!LastFlag
<1>7. /\ c \in SentBlock
      /\ c.data = k /\ c.bytes = original[k].compressed
      /\ c.word.raw <=> ~C!Smaller(k)
      /\ c.word.n = c.bytes \/ (c.word.raw /\ c.bytes = BlockBytes)
      /\ c.last <=> k = Len(original)
  <2>1. /\ original[k].compressed \in 1..BlockBytes /\ original[k].size \in 1..BlockBytes
        /\ k \in Nat /\ C!LastFlag \in BOOLEAN
    BY <1>2, <1>3 DEF Piece, C!LastFlag, LzTypes
  <2>2. C!Smaller(k) = (original[k].compressed < original[k].size)
    BY DEF C!Smaller
  <2> HIDE DEF k
  <2>3. RightlySent(c, original[k].size, original[k].compressed, k, C!LastFlag)
    BY <1>3, <2>1, <2>2, SentRight
  <2> HIDE DEF c
  <2> QED BY <1>6, <2>2, <2>3 DEF RightlySent
<1> HIDE DEF c
<1>8. /\ framed' \in Seq(SentBlock) /\ Len(framed') = k
      /\ framed'[k] = c
      /\ \A i \in 1..Len(framed) : framed'[i] = framed[i]
      /\ \A i \in 1..k : i = k \/ i \in 1..Len(framed)
  BY <1>2, <1>5, <1>7 DEF LzTypes
<1>9. LzTypes'
  BY <1>1, <1>8 DEF LzTypes, C!EmitBlock
<1>10. LzBase' = LzBase /\ LzBuffered' /\ (cpc' = "emit" => LzCompressed')
  BY <1>1 DEF LzBase, LzBuffered, LzCompressed, C!EmitBlock, C!Smaller
<1>11. LzProgress'
  <2>1. CASE bIdx + 1 < numBlocks
    BY <2>1, <1>1, <1>2, <1>8, <1>10 DEF LzProgress, LzTypes, C!EmitBlock
  <2>2. CASE ~(bIdx + 1 < numBlocks)
    BY SMTT(30), <2>2, <1>1, <1>2, <1>8 DEF LzProgress, LzBuffered, LzBase, C!EmitBlock, LzTypes
  <2> QED BY <2>1, <2>2
<1>12. C!FramedInOrder'
  <2>1. original' = original
    BY DEF C!EmitBlock
  <2> QED BY <1>7, <1>8, <2>1 DEF C!FramedInOrder, C!Smaller
<1> QED BY <1>9, <1>11, <1>12

(***************************************************************************)
(* The blocks among the fields read                                          *)
(***************************************************************************)
DataBlock == {x \in Field : x.t = "data"}
Unit == Nat \X Nat

LEMMA DataAt ==
  ASSUME file \in Seq(Field)
  PROVE  /\ D!DataOf[0] = <<>>
         /\ \A i \in 0..(Len(file) - 1) :
              D!DataOf[i + 1] = IF file[i + 1].t = "data" THEN Append(D!DataOf[i], file[i + 1])
                                ELSE D!DataOf[i]
<1>1. Len(file) \in Nat
  OBVIOUS
<1> DEFINE d == D!DataOf
<1>2. d = [i \in 0..Len(file) |->
             IF i = 0 THEN <<>>
             ELSE IF file[i].t = "data" THEN Append(d[i - 1], file[i]) ELSE d[i - 1]]
  BY <1>1, DataExist
<1> HIDE DEF d
<1>3. d[0] = <<>>
  BY <1>1, <1>2
<1>4. ASSUME NEW i \in 0..(Len(file) - 1)
      PROVE  d[i + 1] = IF file[i + 1].t = "data" THEN Append(d[i], file[i + 1]) ELSE d[i]
  <2>1. i + 1 \in 0..Len(file) /\ i + 1 # 0 /\ (i + 1) - 1 = i
    BY <1>1
  <2> QED BY <1>2, <2>1
<1> QED BY <1>3, <1>4 DEF d

LEMMA DataTypes ==
  ASSUME file \in Seq(Field)
  PROVE  \A i \in 0..Len(file) : D!DataOf[i] \in Seq(DataBlock)
<1> DEFINE S == {i \in Nat : i <= Len(file) => D!DataOf[i] \in Seq(DataBlock)}
<1>1. 0 \in S
  <2>1. D!DataOf[0] = <<>> /\ <<>> \in Seq(DataBlock)
    BY DataAt
  <2> QED BY <2>1
<1>2. ASSUME NEW i \in S PROVE i + 1 \in S
  <2> SUFFICES ASSUME i + 1 <= Len(file) PROVE D!DataOf[i + 1] \in Seq(DataBlock)
    OBVIOUS
  <2>1. i \in 0..(Len(file) - 1) /\ i + 1 \in 1..Len(file)
    OBVIOUS
  <2>2. D!DataOf[i] \in Seq(DataBlock)
    OBVIOUS
  <2>3. file[i + 1].t = "data" => file[i + 1] \in DataBlock
    BY <2>1 DEF DataBlock
  <2>4. D!DataOf[i + 1] =
          IF file[i + 1].t = "data" THEN Append(D!DataOf[i], file[i + 1]) ELSE D!DataOf[i]
    BY <2>1, DataAt
  <2> HIDE DEF S
  <2> QED BY <2>2, <2>3, <2>4
<1>3. S = Nat
  <2> HIDE DEF S
  <2>1. S \subseteq Nat
    BY DEF S
  <2> QED BY <1>1, <1>2, <2>1, Induction
<1> QED BY <1>3

LEMMA DataGrows ==
  ASSUME file \in Seq(Field), NEW i \in 0..Len(file)
  PROVE  /\ Len(D!DataOf[i]) <= Len(D!Data)
         /\ \A k \in 1..Len(D!DataOf[i]) : D!Data[k] = D!DataOf[i][k]
<1> DEFINE grown(j) == /\ Len(D!DataOf[i]) <= Len(D!DataOf[i + j])
                       /\ \A k \in 1..Len(D!DataOf[i]) : D!DataOf[i + j][k] = D!DataOf[i][k]
           S == {j \in Nat : i + j <= Len(file) => grown(j)}
<1>0. \A n \in 0..Len(file) : Len(D!DataOf[n]) \in Nat
  BY DataTypes
<1>1. 0 \in S
  BY <1>0
<1>2. ASSUME NEW j \in S PROVE j + 1 \in S
  <2> SUFFICES ASSUME i + (j + 1) <= Len(file) PROVE grown(j + 1)
    OBVIOUS
  <2>1. i + j \in 0..(Len(file) - 1) /\ i + (j + 1) = (i + j) + 1 /\ i + j \in 0..Len(file)
    OBVIOUS
  <2>2. grown(j)
    OBVIOUS
  <2>3. D!DataOf[i + j] \in Seq(DataBlock)
    BY <2>1, DataTypes
  <2>4. file[(i + j) + 1].t = "data" => file[(i + j) + 1] \in DataBlock
    BY <2>1 DEF DataBlock
  <2>5. D!DataOf[(i + j) + 1] =
          IF file[(i + j) + 1].t = "data" THEN Append(D!DataOf[i + j], file[(i + j) + 1])
          ELSE D!DataOf[i + j]
    BY <2>1, DataAt
  <2>6. /\ Len(D!DataOf[i + j]) <= Len(D!DataOf[(i + j) + 1])
        /\ \A k \in 1..Len(D!DataOf[i + j]) : D!DataOf[(i + j) + 1][k] = D!DataOf[i + j][k]
    BY <2>3, <2>4, <2>5
  <2> QED BY <1>0, <2>1, <2>2, <2>3, <2>6
<1>3. S = Nat
  <2> HIDE DEF S
  <2>1. S \subseteq Nat
    BY DEF S
  <2> QED BY <1>1, <1>2, <2>1, Induction
<1>4. Len(file) - i \in Nat /\ i + (Len(file) - i) = Len(file)
  OBVIOUS
<1>5. grown(Len(file) - i)
  <2>1. Len(file) - i \in S
    BY <1>3, <1>4
  <2> HIDE DEF grown
  <2> QED BY <1>4, <2>1
<1> QED BY <1>4, <1>5 DEF D!Data

(* The next field: a block more, or none. *)
LEMMA NextField ==
  ASSUME file \in Seq(Field), NEW n \in Nat, n < Len(file)
  PROVE  /\ Len(D!DataOf[n]) \in Nat /\ Len(D!DataOf[n + 1]) \in Nat
         /\ file[n + 1].t # "data" => D!DataOf[n + 1] = D!DataOf[n]
         /\ file[n + 1].t = "data" =>
              /\ Len(D!DataOf[n + 1]) = Len(D!DataOf[n]) + 1
              /\ Len(D!DataOf[n]) + 1 <= Len(D!Data)
              /\ D!Data[Len(D!DataOf[n]) + 1] = file[n + 1]
<1>1. n \in 0..(Len(file) - 1) /\ n \in 0..Len(file) /\ n + 1 \in 0..Len(file) /\ n + 1 \in 1..Len(file)
  OBVIOUS
<1>2. D!DataOf[n] \in Seq(DataBlock) /\ D!DataOf[n + 1] \in Seq(DataBlock)
  BY <1>1, DataTypes
<1>3. D!DataOf[n + 1] =
        IF file[n + 1].t = "data" THEN Append(D!DataOf[n], file[n + 1]) ELSE D!DataOf[n]
  BY <1>1, DataAt
<1>4. CASE file[n + 1].t = "data"
  <2>1. file[n + 1] \in DataBlock
    BY <1>1, <1>4 DEF DataBlock
  <2>2. /\ Len(D!DataOf[n + 1]) = Len(D!DataOf[n]) + 1
        /\ D!DataOf[n + 1][Len(D!DataOf[n]) + 1] = file[n + 1]
        /\ Len(D!DataOf[n]) + 1 \in 1..Len(D!DataOf[n + 1])
    BY <1>2, <1>3, <1>4, <2>1
  <2>3. /\ Len(D!DataOf[n + 1]) <= Len(D!Data)
        /\ \A k \in 1..Len(D!DataOf[n + 1]) : D!Data[k] = D!DataOf[n + 1][k]
    BY <1>1, DataGrows
  <2>4. D!Data[Len(D!DataOf[n]) + 1] = file[n + 1]
    <3>1. Len(D!DataOf[n]) + 1 \in 1..Len(D!DataOf[n + 1])
      BY <2>2
    <3>2. D!Data[Len(D!DataOf[n]) + 1] = D!DataOf[n + 1][Len(D!DataOf[n]) + 1]
      BY <2>3, <3>1
    <3> QED BY <2>2, <3>2
  <2>5. Len(D!DataOf[n]) \in Nat /\ Len(D!DataOf[n + 1]) \in Nat
    BY <1>2
  <2> QED BY <1>4, <2>2, <2>3, <2>4, <2>5
<1>5. Len(D!DataOf[n]) \in Nat /\ Len(D!DataOf[n + 1]) \in Nat
  BY <1>2
<1> QED BY <1>3, <1>4, <1>5

LEMMA BlockTypes ==
  ASSUME file \in Seq(Field)
  PROVE  D!Data \in Seq(DataBlock) /\ \A i \in 1..Len(D!Data) : D!Data[i] \in DataBlock
                                                              /\ D!Data[i].units \in Nat
                                                              /\ D!Data[i].k \in Nat
<1>1. D!Data \in Seq(DataBlock)
  <2>1. Len(file) \in 0..Len(file)
    OBVIOUS
  <2> QED BY <2>1, DataTypes DEF D!Data
<1>2. \A x \in DataBlock : x.units \in Nat /\ x.k \in Nat
  BY DEF DataBlock, Field
<1> QED BY <1>1, <1>2

LEMMA UnitsOf ==
  ASSUME NEW u \in Nat, NEW k \in Nat
  PROVE  /\ [j \in 1..u |-> <<k, j>>] \in Seq(Unit) /\ Len([j \in 1..u |-> <<k, j>>]) = u
         /\ \A i \in 1..u : [j \in 1..u |-> <<k, j>>][i] = <<k, i>>
<1>1. \A j \in 1..u : <<k, j>> \in Unit
  BY DEF Unit
<1> HIDE DEF Unit
<1> QED BY <1>1

LEMMA PrefixOfJoined ==
  ASSUME NEW S, NEW a \in Seq(S), NEW b \in Seq(S)
  PROVE  D!IsPrefixOf(a, a \o b) /\ Len(a \o b) \in Nat
BY DEF D!IsPrefixOf

LEMMA PrefixOfPrefix ==
  ASSUME NEW a, NEW b, NEW c, Len(a) \in Nat, Len(b) \in Nat, Len(c) \in Nat,
         D!IsPrefixOf(a, b), D!IsPrefixOf(b, c)
  PROVE  D!IsPrefixOf(a, c)
<1>1. \A i \in 1..Len(a) : i \in 1..Len(b)
  BY DEF D!IsPrefixOf
<1> QED BY <1>1 DEF D!IsPrefixOf

LEMMA ContentAt ==
  ASSUME file \in Seq(Field)
  PROVE  /\ D!ContentOf[0] = <<>>
         /\ \A i \in 0..(Len(D!Data) - 1) :
              D!ContentOf[i + 1] =
                D!ContentOf[i] \o [j \in 1..D!Data[i + 1].units |-> <<D!Data[i + 1].k, j>>]
<1>1. Len(D!Data) \in Nat
  BY BlockTypes
<1> DEFINE c == D!ContentOf
           units(i) == [j \in 1..D!Data[i].units |-> <<D!Data[i].k, j>>]
<1>2. c = [i \in 0..Len(D!Data) |-> IF i = 0 THEN <<>> ELSE c[i - 1] \o units(i)]
  BY <1>1, ContentExists
<1> HIDE DEF c, units
<1>3. c[0] = <<>>
  BY <1>1, <1>2
<1>4. ASSUME NEW i \in 0..(Len(D!Data) - 1) PROVE c[i + 1] = c[i] \o units(i + 1)
  <2>1. i + 1 \in 0..Len(D!Data) /\ i + 1 # 0 /\ (i + 1) - 1 = i
    BY <1>1
  <2> QED BY <1>2, <2>1
<1> QED BY <1>3, <1>4 DEF c, units

LEMMA ContentTypes ==
  ASSUME file \in Seq(Field)
  PROVE  \A i \in 0..Len(D!Data) : D!ContentOf[i] \in Seq(Unit)
<1> DEFINE S == {i \in Nat : i <= Len(D!Data) => D!ContentOf[i] \in Seq(Unit)}
<1>0. Len(D!Data) \in Nat
  BY BlockTypes
<1>1. 0 \in S
  <2>1. D!ContentOf[0] = <<>> /\ <<>> \in Seq(Unit)
    BY ContentAt
  <2> QED BY <2>1
<1>2. ASSUME NEW i \in S PROVE i + 1 \in S
  <2> SUFFICES ASSUME i + 1 <= Len(D!Data) PROVE D!ContentOf[i + 1] \in Seq(Unit)
    OBVIOUS
  <2>1. i \in 0..(Len(D!Data) - 1) /\ i + 1 \in 1..Len(D!Data)
    BY <1>0
  <2>2. D!ContentOf[i] \in Seq(Unit)
    BY <1>0
  <2>3. [j \in 1..D!Data[i + 1].units |-> <<D!Data[i + 1].k, j>>] \in Seq(Unit)
    BY <2>1, BlockTypes, UnitsOf
  <2>4. D!ContentOf[i + 1] =
          D!ContentOf[i] \o [j \in 1..D!Data[i + 1].units |-> <<D!Data[i + 1].k, j>>]
    BY <2>1, ContentAt
  <2> QED BY <2>2, <2>3, <2>4
<1>3. S = Nat
  <2> HIDE DEF S
  <2>1. S \subseteq Nat
    BY DEF S
  <2> QED BY <1>1, <1>2, <2>1, Induction
<1> QED BY <1>3

LEMMA ContentGrows ==
  ASSUME file \in Seq(Field), NEW i \in 0..Len(D!Data)
  PROVE  D!IsPrefixOf(D!ContentOf[i], D!Content)
<1> DEFINE S == {j \in Nat : i + j <= Len(D!Data) => D!IsPrefixOf(D!ContentOf[i], D!ContentOf[i + j])}
<1>0. Len(D!Data) \in Nat
  BY BlockTypes
<1>1. 0 \in S
  <2>1. Len(D!ContentOf[i]) \in Nat
    BY <1>0, ContentTypes
  <2> QED BY <1>0, <2>1 DEF D!IsPrefixOf
<1>2. ASSUME NEW j \in S PROVE j + 1 \in S
  <2> SUFFICES ASSUME i + (j + 1) <= Len(D!Data)
               PROVE  D!IsPrefixOf(D!ContentOf[i], D!ContentOf[i + (j + 1)])
    OBVIOUS
  <2>1. /\ i + j \in 0..(Len(D!Data) - 1) /\ i + (j + 1) = (i + j) + 1 /\ i + j \in 0..Len(D!Data)
        /\ (i + j) + 1 \in 1..Len(D!Data)
    BY <1>0
  <2>2. D!IsPrefixOf(D!ContentOf[i], D!ContentOf[i + j])
    BY <2>1
  <2>3. D!ContentOf[i + j] \in Seq(Unit) /\ D!ContentOf[i] \in Seq(Unit)
    BY <2>1, ContentTypes
  <2>4. [k \in 1..D!Data[(i + j) + 1].units |-> <<D!Data[(i + j) + 1].k, k>>] \in Seq(Unit)
    BY <2>1, BlockTypes, UnitsOf
  <2>5. D!ContentOf[(i + j) + 1] =
          D!ContentOf[i + j] \o
            [k \in 1..D!Data[(i + j) + 1].units |-> <<D!Data[(i + j) + 1].k, k>>]
    BY <2>1, ContentAt
  <2>6. D!IsPrefixOf(D!ContentOf[i + j], D!ContentOf[(i + j) + 1])
    BY <2>3, <2>4, <2>5, PrefixOfJoined
  <2>7. Len(D!ContentOf[(i + j) + 1]) \in Nat
    BY <2>3, <2>4, <2>5, PrefixOfJoined
  <2>8. D!IsPrefixOf(D!ContentOf[i], D!ContentOf[(i + j) + 1])
    BY <2>2, <2>3, <2>6, <2>7, PrefixOfPrefix
  <2> QED BY <2>1, <2>8
<1>3. S = Nat
  <2> HIDE DEF S
  <2>1. S \subseteq Nat
    BY DEF S
  <2> QED BY <1>1, <1>2, <2>1, Induction
<1>4. Len(D!Data) - i \in Nat /\ i + (Len(D!Data) - i) = Len(D!Data)
  BY <1>0
<1>5. D!IsPrefixOf(D!ContentOf[i], D!ContentOf[i + (Len(D!Data) - i)])
  <2>1. Len(D!Data) - i \in S
    BY <1>3, <1>4
  <2> QED BY <1>4, <2>1
<1> QED BY <1>4, <1>5 DEF D!Content

(***************************************************************************)
(* The inductive invariant of the decompressor                               *)
(***************************************************************************)
InFrame == {"word", "block", "checksum", "kernel", "emit", "content"}

LzState ==
  /\ pc \in InFrame \cup {"magic", "descriptor", "frame_end", "end", "exit", "lost"}
  /\ read \in 0..Len(file)
  /\ bufferTotalBlock \in Nat /\ blockIdx \in Nat
  /\ inBufferHost = [p \in D!Places |-> inBufferHost[p]]
  /\ outBufferHost = [p \in D!Places |-> outBufferHost[p]]
  /\ decompressSize = [p \in D!Places |-> decompressSize[p]]
  /\ pc \in {"kernel", "emit"} => after \in {"checksum", "content"}

(* The descriptor that is in force is that of the fields read last. *)
LzFrame ==
  pc \in InFrame => \E d \in 1..read :
    /\ file[d] = frame /\ frame.t = "descriptor" /\ frame.valid
    /\ \A j \in (d + 1)..read : file[j].t # "descriptor"

(* A batch has a place less than the buffer, and none is open between frames.  *)
LzRoom ==
  /\ pc \in {"word", "block", "checksum"} => bufferTotalBlock < D!Full
  /\ pc \in {"kernel", "emit"} => bufferTotalBlock \in 1..D!Full
  /\ pc \in {"magic", "descriptor", "content", "frame_end", "end"} => bufferTotalBlock = 0
  /\ pc = "block" => read > 0 /\ D!word = file[read] /\ file[read].t = "size"

(* The fields taken for checksums are checksums. *)
LzSums ==
  read < Len(file) =>
    /\ (pc = "checksum" \/ (pc \in {"kernel", "emit"} /\ after = "checksum"))
         /\ frame.blockChecksum => file[read + 1].t = "sum"
    /\ (pc = "content" \/ (pc \in {"kernel", "emit"} /\ after = "content"))
         /\ frame.contentChecksum => file[read + 1].t = "sum"

(* The blocks of the batch are the last of those read, each in its place and   *)
(* full but for the last one, which may be short if the end mark follows.      *)
LzFirst == Len(D!DataOf[read]) - bufferTotalBlock
LzSized(b) == b.units <= frame.blockSize /\ (b.short <=> b.units < frame.blockSize)
LzFull ==
  \A i \in 1..bufferTotalBlock :
    /\ LzSized(D!Data[LzFirst + i])
    /\ i < bufferTotalBlock => D!Data[LzFirst + i].units = frame.blockSize
LzCollected ==
  \A i \in 1..bufferTotalBlock : inBufferHost[(i - 1) * frame.blockSize] = D!Data[LzFirst + i]
LzEndFollows ==
  /\ pc = "checksum" /\ read < Len(file) =>
       IF frame.blockChecksum
       THEN read + 1 < Len(file) => file[read + 2] = D!EndMark
       ELSE file[read + 1] = D!EndMark \/ file[read + 1].t = "sum"
  /\ pc = "word" /\ read < Len(file) => file[read + 1] = D!EndMark \/ file[read + 1].t = "sum"
  /\ pc = "block" => D!word = D!EndMark
LzShort ==
  bufferTotalBlock > 0 /\ D!Data[LzFirst + bufferTotalBlock].short => LzEndFollows

(* Which blocks have gone out. *)
LzRestored(n) == n \in 0..Len(D!Data) /\ restored = D!ContentOf[n]
LzGathering ==
  pc \in {"word", "block", "checksum", "kernel"} =>
    LzFull /\ LzCollected /\ LzRestored(LzFirst)
LzResults ==
  \A i \in 1..bufferTotalBlock :
    /\ decompressSize[i - 1] = D!Data[LzFirst + i].units
    /\ \A j \in 1..D!Data[LzFirst + i].units :
         outBufferHost[(i - 1) * frame.blockSize + (j - 1)] = <<D!Data[LzFirst + i].k, j>>
LzEmitting ==
  pc = "emit" =>
    /\ LzFull /\ LzResults /\ LzFirst \in Nat
    /\ blockIdx <= bufferTotalBlock /\ LzRestored(LzFirst + blockIdx)
    /\ blockIdx < bufferTotalBlock => decompressedSize = blockIdx * frame.blockSize
LzBetween ==
  /\ pc \in {"magic", "descriptor", "content", "frame_end"} => LzRestored(Len(D!DataOf[read]))
  /\ pc = "end" => restored = Append(D!Content, D!Terminator)
  /\ pc \in {"exit", "lost"} => \E n \in Nat : LzRestored(n)
LzReading == LzShort /\ LzGathering /\ LzEmitting /\ LzBetween

LzDecompressing ==
  /\ LzState /\ LzFrame /\ LzRoom /\ LzSums
  /\ D!Readable => LzReading

(* The file is another program's, or what the compressor has left; and before  *)
(* it is there the decompressor has not begun.                                *)
LzInv ==
  /\ IF Foreign THEN cpc = "end" /\ file \in Files /\ framed = <<>>
     ELSE LzCompressing /\ file = (IF cpc = "end" THEN Written ELSE <<>>)
  /\ D!Start \/ (cpc = "end" /\ LzDecompressing)

LEMMA HalfBuffer ==
  ASSUME NEW h \in Nat, NEW s \in Nat \ {0}, 2 * s <= h
  PROVE  h \div s \in Nat /\ h \div s >= 2 /\ (h \div s) * s <= h
<1>1. h \div s \in Int /\ h % s \in 0..(s - 1) /\ h = (h \div s) * s + (h % s)
  OBVIOUS
<1>2. ASSUME h \div s < 2 PROVE FALSE
  <2>1. (h \div s) * s <= 1 * s
    BY <1>1, <1>2
  <2> QED BY <1>1, <2>1
<1> QED BY <1>1, <1>2

LEMMA ToPlace ==
  ASSUME NEW s \in Nat \ {0}, NEW i \in Nat, NEW j \in 0..(s - 1)
  PROVE  (i * s + j) \div s = i /\ (i * s + j) % s = j
BY SMTT(30)

LEMMA PlacesApart ==
  ASSUME NEW s \in Nat \ {0}, NEW i \in Nat, NEW k \in Nat, i # k
  PROVE  i * s # k * s
<1>1. (i * s + 0) \div s = i /\ (k * s + 0) \div s = k
  BY ToPlace
<1>2. i * s + 0 = i * s /\ k * s + 0 = k * s
  OBVIOUS
<1> QED BY <1>1, <1>2

(* One more block is one block size more. *)
LEMMA SizeOfOneMore ==
  ASSUME NEW k \in Nat, NEW s \in Nat
  PROVE  (k + 1) * s = k * s + s /\ k * s \in Nat
  BY SMT

LEMMA PlacesWithin ==
  ASSUME NEW s \in Nat \ {0}, NEW m \in Nat, NEW i \in Nat, i < m, NEW j \in 0..(s - 1)
  PROVE  i * s + j \in Nat /\ i * s + j < m * s
<1>1. (i + 1) * s = i * s + s /\ i * s \in Nat
  OBVIOUS
<1>2. (i + 1) * s <= m * s
  <2>1. m - (i + 1) \in Nat
    OBVIOUS
  <2>2. (m - (i + 1)) * s >= 0 /\ m * s = (i + 1) * s + (m - (i + 1)) * s
    BY <2>1
  <2> QED BY <2>2, <1>1
<1> QED BY <1>1, <1>2

LEMMA LzSizes ==
  ASSUME WellFormed(file), LzState, LzFrame, pc \in InFrame
  PROVE  /\ frame.blockSize \in Nat \ {0} /\ hostBufferSize \in Nat
         /\ 2 * frame.blockSize <= hostBufferSize
         /\ D!maxNumBlocks \in Nat /\ D!Full \in Nat \ {0} /\ D!Full = D!maxNumBlocks - 1
<1>1. PICK d \in 1..read : file[d] = frame /\ frame.t = "descriptor" /\ frame.valid
  BY DEF LzFrame
<1>2. d \in DOMAIN file
  BY <1>1 DEF LzState, WellFormed
<1>3. frame.blockSize \in BlockSizes
  BY <1>1, <1>2 DEF WellFormed
<1>4. frame.blockSize \in Nat \ {0} /\ 2 * frame.blockSize <= hostBufferSize /\ hostBufferSize \in Nat
  BY <1>3, Lz4Assumption
<1>5. D!maxNumBlocks \in Nat /\ D!maxNumBlocks >= 2
  BY <1>4, HalfBuffer DEF D!maxNumBlocks
<1> QED BY <1>4, <1>5 DEF D!Full

LEMMA LzPlace ==
  ASSUME WellFormed(file), LzState, LzFrame, pc \in InFrame,
         NEW i \in Nat, i < D!maxNumBlocks, NEW j \in 0..(frame.blockSize - 1)
  PROVE  i * frame.blockSize + j \in D!Places
<1>1. /\ frame.blockSize \in Nat \ {0} /\ hostBufferSize \in Nat
      /\ 2 * frame.blockSize <= hostBufferSize /\ D!maxNumBlocks \in Nat
  BY LzSizes
<1>2. D!maxNumBlocks * frame.blockSize <= hostBufferSize
  BY <1>1, HalfBuffer DEF D!maxNumBlocks
<1>3. /\ i * frame.blockSize + j \in Nat
      /\ i * frame.blockSize + j < D!maxNumBlocks * frame.blockSize
  BY <1>1, PlacesWithin
<1>4. D!maxNumBlocks * frame.blockSize \in Nat
  BY <1>1
<1> QED BY <1>1, <1>2, <1>3, <1>4 DEF D!Places

LEMMA SameFile ==
  ASSUME file' = file
  PROVE  /\ D!DataOf' = D!DataOf /\ D!Data' = D!Data
         /\ D!ContentOf' = D!ContentOf /\ D!Content' = D!Content
         /\ D!Readable' = D!Readable /\ WellFormed(file)' = WellFormed(file)
<1>1. D!DataOf' = D!DataOf
  BY DEF D!DataOf
<1>2. D!Data' = D!Data
  BY <1>1 DEF D!Data
<1>3. D!ContentOf' = D!ContentOf
  BY <1>2 DEF D!ContentOf
<1> QED BY <1>1, <1>2, <1>3 DEF D!Content, D!Readable

(***************************************************************************)
(* The fields, whatever the file                                             *)
(***************************************************************************)
LzFields == LzState /\ LzFrame /\ LzRoom /\ LzSums

(* A field that is no descriptor leaves the frame as it is. *)
LEMMA SameFrame ==
  ASSUME WellFormed(file), LzState, LzFrame, pc \in InFrame, file' = file, frame' = frame,
         read' = read \/ (read' = read + 1 /\ read < Len(file) /\ file[read + 1].t # "descriptor")
  PROVE  LzFrame'
<1>1. PICK d \in 1..read : /\ file[d] = frame /\ frame.t = "descriptor" /\ frame.valid
                           /\ \A j \in (d + 1)..read : file[j].t # "descriptor"
  BY DEF LzFrame
<1>2. d \in 1..read' /\ \A j \in (d + 1)..read' : file[j].t # "descriptor"
  BY <1>1 DEF LzState
<1> QED BY <1>1, <1>2 DEF LzFrame

LEMMA MagicFields ==
  ASSUME WellFormed(file), LzFields, D!Magic
  PROVE  LzFields'
BY DEF LzFields, LzState, LzFrame, LzRoom, LzSums, D!Magic, D!loop, D!token, D!last, InFrame

LEMMA DescriptorFields ==
  ASSUME WellFormed(file), LzFields, D!Descriptor
  PROVE  LzFields'
<1> USE DEF D!Descriptor, D!loop, D!token, D!last
<1>1. read < Len(file) /\ Len(file) \in Nat /\ read' = read + 1 /\ read' \in 1..Len(file)
  BY DEF LzFields, LzState, WellFormed
<1>2. LzState'
  BY <1>1 DEF LzFields, LzState, InFrame
<1>3. LzFrame'
  <2>1. pc' \in InFrame => file'[read'] = frame' /\ frame'.t = "descriptor" /\ frame'.valid
    BY <1>1 DEF InFrame
  <2>2. \A j \in (read' + 1)..read' : FALSE
    BY <1>1
  <2> QED BY <1>1, <2>1, <2>2 DEF LzFrame
<1>4. LzRoom'
  <2>1. pc' = "word" => D!Full' \in Nat \ {0}
    <3> SUFFICES ASSUME pc' = "word" PROVE D!Full' \in Nat \ {0}
      OBVIOUS
    <3>1. read' \in DOMAIN file /\ file[read'].t = "descriptor" /\ file[read'].valid
      BY <1>1 DEF WellFormed
    <3>2. frame'.blockSize \in BlockSizes
      BY <1>1, <3>1 DEF WellFormed
    <3>3. /\ frame'.blockSize \in Nat \ {0} /\ 2 * frame'.blockSize <= hostBufferSize
          /\ hostBufferSize \in Nat
      BY <3>2, Lz4Assumption
    <3>4. (hostBufferSize \div frame'.blockSize) \in Nat /\ (hostBufferSize \div frame'.blockSize) >= 2
      BY <3>3, HalfBuffer
    <3> QED BY <3>4 DEF D!Full, D!maxNumBlocks
  <2> QED BY <2>1 DEF LzFields, LzRoom
<1>5. LzSums'
  BY DEF LzSums
<1> QED BY <1>2, <1>3, <1>4, <1>5 DEF LzFields

LEMMA FrameEndFields ==
  ASSUME WellFormed(file), LzFields, D!FrameEnd
  PROVE  LzFields'
BY DEF LzFields, LzState, LzFrame, LzRoom, LzSums, D!FrameEnd, D!loop, InFrame

LEMMA WordFields ==
  ASSUME WellFormed(file), LzFields, D!Word
  PROVE  LzFields'
<1> USE DEF D!Word, D!loop, D!token, D!last
<1>1. read < Len(file) /\ Len(file) \in Nat /\ read' = read + 1 /\ read' \in 1..Len(file)
  BY DEF LzFields, LzState, WellFormed
<1>2. LzState'
  <2>1. inBufferHost' = [p \in D!Places |-> inBufferHost'[p]]
    BY DEF LzFields, LzState
  <2>2. /\ file' = file /\ outBufferHost' = outBufferHost /\ decompressSize' = decompressSize
        /\ blockIdx' = blockIdx
        /\ pc' \in {"block", "lost"}
        /\ bufferTotalBlock' = bufferTotalBlock
    BY DEF LzFields, LzState
  <2> QED BY <1>1, <2>1, <2>2 DEF LzFields, LzState, InFrame
<1>3. LzFrame'
  <2>1. pc' \in InFrame => file[read + 1].t # "descriptor"
    BY DEF InFrame
  <2> QED BY <1>1, <2>1, SameFrame DEF LzFields, LzFrame, InFrame
<1>4. LzRoom'
  <2>1. bufferTotalBlock \in Nat /\ bufferTotalBlock < D!Full /\ D!Full' = D!Full
    BY DEF LzFields, LzRoom, LzState, D!Full, D!maxNumBlocks
  <2>2. bufferTotalBlock * frame.blockSize \in D!Places
    <3>1. 0 \in 0..(frame.blockSize - 1) /\ bufferTotalBlock < D!maxNumBlocks
          /\ frame.blockSize \in Nat
      BY <2>1, LzSizes DEF LzFields, InFrame
    <3>2. bufferTotalBlock * frame.blockSize + 0 \in D!Places
      BY <2>1, <3>1, LzPlace DEF LzFields, InFrame
    <3> QED BY <2>1, <3>1, <3>2
  <2>3. D!word' = file[read + 1]
    BY <2>2 DEF D!word, LzFields, LzState
  <2> QED BY <1>1, <2>1, <2>3 DEF LzRoom
<1>5. LzSums'
  BY DEF LzSums
<1> QED BY <1>2, <1>3, <1>4, <1>5 DEF LzFields

LEMMA OfFrameNext ==
  ASSUME NEW f, NEW n \in Nat, NEW d \in 1..n, f[d].t = "descriptor", f[d].valid,
         \A j \in (d + 1)..n : f[j].t # "descriptor", f[n + 1].t # "descriptor"
  PROVE  OfFrame(f, d, n + 1)
<1>1. ASSUME NEW j \in (d + 1)..(n + 1) PROVE f[j].t # "descriptor"
  <2>1. j = n + 1 \/ j \in (d + 1)..n
    OBVIOUS
  <2> QED BY <2>1
<1>2. d < n + 1
  OBVIOUS
<1> QED BY <1>1, <1>2 DEF OfFrame

LEMMA BlockFields ==
  ASSUME WellFormed(file), LzFields, D!Block
  PROVE  LzFields'
<1> USE DEF D!Block, D!token, D!last
<1>1. read < Len(file) /\ Len(file) \in Nat /\ read' = read + 1 /\ read' \in 1..Len(file)
  BY DEF LzFields, LzState, WellFormed
<1>2. LzState'
  <2>1. inBufferHost' = [p \in D!Places |-> inBufferHost'[p]]
    BY DEF LzFields, LzState
  <2>2. /\ file' = file /\ outBufferHost' = outBufferHost /\ decompressSize' = decompressSize
        /\ blockIdx' = blockIdx
        /\ pc' \in {"kernel", "checksum", "lost"} /\ after' = "checksum"
        /\ bufferTotalBlock' = bufferTotalBlock + 1
    BY DEF LzFields, LzState
  <2> QED BY <1>1, <2>1, <2>2 DEF LzFields, LzState, InFrame
<1>3. LzFrame'
  <2>1. pc' \in InFrame => file[read + 1].t # "descriptor"
    BY DEF InFrame
  <2> QED BY <1>1, <2>1, SameFrame DEF LzFields, LzFrame, InFrame
<1>4. LzRoom'
  <2>1. bufferTotalBlock \in Nat /\ bufferTotalBlock < D!Full /\ D!Full' = D!Full
    BY DEF LzFields, LzRoom, LzState, D!Full, D!maxNumBlocks
  <2>2. D!Full \in Nat
    BY LzSizes DEF LzFields, InFrame
  <2> QED BY <2>1, <2>2 DEF LzRoom
<1>5. LzSums'
  <2>1. PICK d \in 1..read : /\ file[d] = frame /\ frame.t = "descriptor" /\ frame.valid
                             /\ \A j \in (d + 1)..read : file[j].t # "descriptor"
    BY DEF LzFields, LzFrame, InFrame
  <2>0. read \in Nat /\ DOMAIN file = 1..Len(file)
    BY DEF LzFields, LzState, WellFormed
  <2> HIDE DEF D!Block
  <2>2. file[read + 1].t = "data" => OfFrame(file, d, read + 1)
    BY <2>0, <2>1, OfFrameNext
  <2>3. d \in DOMAIN file /\ read + 1 \in DOMAIN file
    BY <1>1, <2>0, <2>1
  <2>4. file[read + 1].t = "data" /\ frame.blockChecksum /\ read + 1 < Len(file) =>
          file[(read + 1) + 1].t = "sum"
    BY <2>1, <2>2, <2>3 DEF WellFormed
  <2> QED BY <1>1, <2>4 DEF LzSums, D!Block
<1> QED BY <1>2, <1>3, <1>4, <1>5 DEF LzFields

LEMMA ChecksumFields ==
  ASSUME WellFormed(file), LzFields, D!Checksum
  PROVE  LzFields'
<1> USE DEF D!Checksum, D!loop, D!last
<1>1. read \in 0..Len(file) /\ Len(file) \in Nat /\ read' \in 0..Len(file)
  BY DEF LzFields, LzState, WellFormed
<1>2. LzState'
  BY <1>1 DEF LzFields, LzState, InFrame
<1>3. LzFrame'
  <2>1. frame.blockChecksum => read < Len(file) /\ file[read + 1].t = "sum"
    BY <1>1 DEF LzFields, LzSums
  <2> QED BY <1>1, <2>1, SameFrame DEF LzFields, InFrame
<1>4. LzRoom'
  BY DEF LzFields, LzRoom, D!Full, D!maxNumBlocks
<1>5. LzSums'
  BY DEF LzSums
<1> QED BY <1>2, <1>3, <1>4, <1>5 DEF LzFields

LEMMA EndOfBlocksFields ==
  ASSUME WellFormed(file), LzFields, D!EndOfBlocks
  PROVE  LzFields'
<1> USE DEF D!EndOfBlocks
<1>1. read \in 0..Len(file) /\ Len(file) \in Nat /\ bufferTotalBlock \in Nat
  BY DEF LzFields, LzState, WellFormed
<1>2. LzState'
  BY <1>1 DEF LzFields, LzState, InFrame
<1>3. LzFrame'
  BY <1>1, SameFrame DEF LzFields, InFrame
<1>4. LzRoom'
  <2>1. bufferTotalBlock < D!Full /\ D!Full' = D!Full
    BY DEF LzFields, LzRoom, D!Full, D!maxNumBlocks
  <2>2. D!Full \in Nat
    BY LzSizes DEF LzFields, InFrame
  <2> QED BY <1>1, <2>1, <2>2 DEF LzRoom
<1>5. LzSums'
  <2>1. PICK d \in 1..read : /\ file[d] = frame /\ frame.t = "descriptor" /\ frame.valid
                             /\ \A j \in (d + 1)..read : file[j].t # "descriptor"
    BY DEF LzFields, LzFrame, InFrame
  <2>2. file[read] = D!EndMark /\ file[read].t = "size"
    BY DEF LzFields, LzRoom
  <2>3. d # read
    BY <2>1, <2>2
  <2>4. OfFrame(file, d, read) /\ d \in DOMAIN file /\ read \in DOMAIN file
    BY <1>1, <2>1, <2>3 DEF OfFrame, WellFormed
  <2>5. frame.contentChecksum /\ read < Len(file) => file[read + 1].t = "sum"
    BY <2>1, <2>2, <2>4 DEF WellFormed
  <2> QED BY <2>5 DEF LzSums
<1> QED BY <1>2, <1>3, <1>4, <1>5 DEF LzFields

LEMMA ContentChecksumFields ==
  ASSUME WellFormed(file), LzFields, D!ContentChecksum
  PROVE  LzFields'
<1> USE DEF D!ContentChecksum, D!loop, D!last
<1>1. read \in 0..Len(file) /\ Len(file) \in Nat /\ read' \in 0..Len(file)
  BY DEF LzFields, LzState, WellFormed
<1> QED BY <1>1 DEF LzFields, LzState, LzFrame, LzRoom, LzSums, InFrame

LEMMA DecompressFields ==
  ASSUME WellFormed(file), LzFields, D!Decompress
  PROVE  LzFields'
<1> USE DEF D!Decompress
<1>1. LzState'
  <2>1. decompressSize' = [p \in D!Places |-> decompressSize'[p]]
    OBVIOUS
  <2>2. outBufferHost' = [p \in D!Places |-> outBufferHost'[p]]
    OBVIOUS
  <2>3. /\ pc = "kernel" /\ pc' = "emit" /\ read' = read /\ file' = file /\ after' = after
        /\ bufferTotalBlock' = bufferTotalBlock /\ blockIdx' = 0
        /\ inBufferHost' = inBufferHost
    OBVIOUS
  <2> QED BY <2>1, <2>2, <2>3 DEF LzFields, LzState, InFrame
<1>2. LzFrame'
  BY SameFrame DEF LzFields, InFrame
<1>3. LzRoom'
  BY DEF LzFields, LzRoom, D!Full, D!maxNumBlocks
<1>4. LzSums'
  BY DEF LzFields, LzSums
<1> QED BY <1>1, <1>2, <1>3, <1>4 DEF LzFields

LEMMA EmitFields ==
  ASSUME WellFormed(file), LzFields, D!Emit
  PROVE  LzFields'
<1> USE DEF D!Emit
<1>1. LzState'
  BY DEF LzFields, LzState
<1>2. LzFrame'
  BY SameFrame DEF LzFields, InFrame
<1>3. LzRoom'
  BY DEF LzFields, LzRoom, D!Full, D!maxNumBlocks
<1>4. LzSums'
  BY DEF LzFields, LzSums
<1> QED BY <1>1, <1>2, <1>3, <1>4 DEF LzFields

LEMMA EmitDoneFields ==
  ASSUME WellFormed(file), LzFields, D!EmitDone
  PROVE  LzFields'
<1> USE DEF D!EmitDone, D!loop
<1>1. LzState'
  BY DEF LzFields, LzState, InFrame
<1>2. LzFrame'
  BY SameFrame DEF LzFields, InFrame, LzState
<1>3. LzRoom'
  <2>1. D!Full \in Nat \ {0} /\ D!Full' = D!Full
    BY LzSizes DEF LzFields, InFrame, D!Full, D!maxNumBlocks
  <2> QED BY <2>1 DEF LzFields, LzRoom, LzState
<1>4. LzSums'
  BY DEF LzFields, LzSums, LzState
<1> QED BY <1>1, <1>2, <1>3, <1>4 DEF LzFields

(***************************************************************************)
(* The blocks of a file that can be read                                     *)
(***************************************************************************)
LEMMA FileTypes ==
  ASSUME WellFormed(file), LzFields
  PROVE  /\ file \in Seq(Field) /\ Len(file) \in Nat /\ read \in 0..Len(file) /\ read \in Nat
         /\ DOMAIN file = 1..Len(file)
         /\ bufferTotalBlock \in Nat /\ blockIdx \in Nat
         /\ Len(D!DataOf[read]) \in Nat /\ Len(D!DataOf[read]) <= Len(D!Data)
         /\ Len(D!Data) \in Nat
<1>1. /\ file \in Seq(Field) /\ Len(file) \in Nat /\ read \in 0..Len(file) /\ read \in Nat
      /\ DOMAIN file = 1..Len(file)
      /\ bufferTotalBlock \in Nat /\ blockIdx \in Nat
  BY DEF WellFormed, LzFields, LzState
<1>2. Len(D!DataOf[read]) \in Nat
  BY <1>1, DataTypes
<1>3. Len(D!DataOf[read]) <= Len(D!Data)
  BY <1>1, DataGrows
<1>4. Len(D!Data) \in Nat
  BY <1>1, BlockTypes
<1> QED BY <1>1, <1>2, <1>3, <1>4

LEMMA SameBlocks ==
  ASSUME WellFormed(file), LzFields, file' = file,
         read' = read \/ (read' = read + 1 /\ read < Len(file) /\ file[read + 1].t # "data")
  PROVE  D!DataOf[read]' = D!DataOf[read]
<1>1. D!DataOf' = D!DataOf
  BY SameFile
<1>2. read' = read + 1 /\ read < Len(file) /\ file[read + 1].t # "data" =>
        D!DataOf[read + 1] = D!DataOf[read]
  BY FileTypes, NextField
<1> QED BY <1>1, <1>2

LEMMA SameRestored ==
  ASSUME file' = file, restored' = restored, NEW n
  PROVE  LzRestored(n)' = LzRestored(n)
BY SameFile DEF LzRestored

LEMMA MagicReading ==
  ASSUME WellFormed(file), LzFields, D!Readable, LzReading, D!Magic
  PROVE  LzReading'
<1>1. /\ file' = file /\ restored' = restored /\ bufferTotalBlock' = 0 /\ pc = "magic"
      /\ read' = read + 1 /\ read < Len(file)
      /\ pc' \in {"descriptor", "frame_end", "lost"}
      /\ pc' # "lost" => file[read + 1].t # "data"
  BY FileTypes DEF D!Magic, D!token, D!last, LzFields, LzRoom
<1>2. LzRestored(Len(D!DataOf[read]))
  BY <1>1 DEF LzReading, LzBetween
<1>3. pc' # "lost" => D!DataOf[read]' = D!DataOf[read]
  BY <1>1, SameBlocks
<1>4. LzBetween'
  BY <1>1, <1>2, <1>3, SameRestored, FileTypes DEF LzBetween
<1> QED BY <1>1, <1>4 DEF LzReading, LzShort, LzGathering, LzEmitting

LEMMA DescriptorReading ==
  ASSUME WellFormed(file), LzFields, D!Readable, LzReading, D!Descriptor
  PROVE  LzReading'
<1>1. /\ file' = file /\ restored' = restored /\ bufferTotalBlock' = 0 /\ pc = "descriptor"
      /\ read' = read + 1 /\ read < Len(file) /\ file[read + 1].t # "data"
      /\ pc' \in {"word", "exit", "lost"}
  BY FileTypes DEF D!Descriptor, D!token, D!last
<1>2. LzRestored(Len(D!DataOf[read]))
  BY <1>1 DEF LzReading, LzBetween
<1>3. D!DataOf[read]' = D!DataOf[read]
  BY <1>1, SameBlocks
<1>4. LzRestored(Len(D!DataOf[read]))'
  BY <1>1, <1>2, <1>3, SameRestored
<1>5. LzFirst' = Len(D!DataOf[read])'
  BY <1>1, <1>3, FileTypes DEF LzFirst
<1>6. LzGathering'
  <2>1. LzFull' /\ LzCollected'
    BY <1>1 DEF LzFull, LzCollected
  <2> QED BY <1>4, <1>5, <2>1 DEF LzGathering
<1>7. LzBetween'
  BY <1>1, <1>3, <1>4, FileTypes DEF LzBetween
<1> QED BY <1>1, <1>6, <1>7 DEF LzReading, LzShort, LzEmitting

LEMMA FrameEndReading ==
  ASSUME WellFormed(file), LzFields, D!Readable, LzReading, D!FrameEnd
  PROVE  LzReading'
<1>1. /\ file' = file /\ read' = read /\ bufferTotalBlock' = 0 /\ pc = "frame_end"
      /\ pc' \in {"magic", "end"}
      /\ pc' = "magic" => restored' = restored
      /\ pc' = "end" => restored' = Append(restored, D!Terminator) /\ read = Len(file)
  BY DEF D!FrameEnd, D!loop, D!last, LzFields, LzRoom
<1>2. LzRestored(Len(D!DataOf[read]))
  BY <1>1 DEF LzReading, LzBetween
<1>3. D!DataOf[read]' = D!DataOf[read]
  BY <1>1, SameBlocks
<1>4. pc' = "magic" => LzRestored(Len(D!DataOf[read]))'
  BY <1>1, <1>2, <1>3, SameRestored
<1>5. pc' = "end" => restored' = Append(D!Content, D!Terminator)
  BY <1>1, <1>2 DEF LzRestored, D!Data, D!Content
<1>6. LzBetween'
  BY <1>1, <1>4, <1>5, SameFile DEF LzBetween, D!Terminator
<1> QED BY <1>1, <1>6 DEF LzReading, LzShort, LzGathering, LzEmitting

LEMMA WordReading ==
  ASSUME WellFormed(file), LzFields, LzRoom', D!Readable, LzReading, D!Word
  PROVE  LzReading'
<1>1. /\ file' = file /\ restored' = restored /\ frame' = frame /\ pc = "word"
      /\ bufferTotalBlock' = bufferTotalBlock /\ bufferTotalBlock < D!Full
      /\ read' = read + 1 /\ read < Len(file) /\ pc' \in {"block", "lost"}
      /\ pc' = "block" => file[read + 1].t = "size"
  BY FileTypes DEF D!Word, D!token, D!last, LzFields, LzRoom
<1>2. LzFull /\ LzCollected /\ LzRestored(LzFirst)
  BY <1>1 DEF LzReading, LzGathering
<1>3. pc' = "block" => LzFirst' = LzFirst
  BY <1>1, SameBlocks DEF LzFirst
<1>4. D!Data' = D!Data
  BY <1>1, SameFile
<1>5. LzShort'
  <2> SUFFICES ASSUME pc' = "block", bufferTotalBlock > 0, D!Data[LzFirst + bufferTotalBlock].short
               PROVE  D!word' = D!EndMark
    BY <1>1, <1>3, <1>4 DEF LzShort, LzEndFollows, D!EndMark
  <2>1. file[read + 1] = D!EndMark
    BY <1>1 DEF LzReading, LzShort, LzEndFollows
  <2>2. D!word' = file[read + 1]
    BY <1>1 DEF LzRoom
  <2> QED BY <2>1, <2>2
<1>6. pc' = "block" => LzCollected'
  <2> SUFFICES ASSUME pc' = "block", NEW i \in 1..bufferTotalBlock
               PROVE  inBufferHost'[(i - 1) * frame.blockSize] = D!Data[LzFirst + i]
    BY <1>1, <1>3, <1>4 DEF LzCollected
  <2>1. bufferTotalBlock # i - 1 /\ i - 1 \in Nat /\ bufferTotalBlock \in Nat
    BY FileTypes
  <2>2. frame.blockSize \in Nat \ {0}
    BY <1>1, LzSizes DEF LzFields, InFrame
  <2>3. (i - 1) * frame.blockSize # bufferTotalBlock * frame.blockSize
    BY <2>1, <2>2, PlacesApart
  <2>4. inBufferHost[(i - 1) * frame.blockSize] = D!Data[LzFirst + i]
    BY <1>2 DEF LzCollected
  <2>5. (i - 1) * frame.blockSize \in D!Places
    <3>1. 0 \in 0..(frame.blockSize - 1) /\ i - 1 < D!maxNumBlocks
      BY <1>1, <2>1, <2>2, LzSizes DEF LzFields, InFrame
    <3>2. (i - 1) * frame.blockSize + 0 \in D!Places
      BY <1>1, <2>1, <3>1, LzPlace DEF LzFields, InFrame
    <3> QED BY <2>1, <2>2, <3>2
  <2>6. inBufferHost' = [inBufferHost EXCEPT ![bufferTotalBlock * frame.blockSize] = file[read + 1]]
    BY DEF D!Word, D!token
  <2> QED BY <2>3, <2>4, <2>5, <2>6 DEF LzFields, LzState
<1>7. pc' = "block" => LzFull' /\ LzRestored(LzFirst)'
  BY <1>1, <1>2, <1>3, <1>4, SameRestored DEF LzFull, LzSized
<1>8. LzBetween'
  <2>1. LzFirst \in Nat
    BY <1>2 DEF LzRestored
  <2>2. LzRestored(LzFirst) => \E n \in Nat : LzRestored(n)
    BY <2>1
  <2> QED BY <1>1, <1>2, <2>2, SameRestored DEF LzBetween
<1> QED BY <1>1, <1>5, <1>6, <1>7, <1>8 DEF LzReading, LzGathering, LzEmitting

(* The block that is read. *)
LEMMA BlockSized ==
  ASSUME WellFormed(file), LzFields, pc \in InFrame, read < Len(file), file[read + 1].t = "data"
  PROVE  LzSized(file[read + 1])
<1>0. read \in Nat /\ DOMAIN file = 1..Len(file) /\ Len(file) \in Nat
  BY FileTypes
<1>1. PICK d \in 1..read : /\ file[d] = frame /\ frame.t = "descriptor" /\ frame.valid
                           /\ \A j \in (d + 1)..read : file[j].t # "descriptor"
  BY DEF LzFields, LzFrame
<1>2. OfFrame(file, d, read + 1)
  BY <1>0, <1>1, OfFrameNext
<1>3. d \in DOMAIN file /\ read + 1 \in DOMAIN file
  BY <1>0, <1>1
<1> QED BY <1>1, <1>2, <1>3 DEF WellFormed, LzSized

LEMMA BlockReading ==
  ASSUME WellFormed(file), LzFields, LzSums', D!Readable, LzReading, D!Block
  PROVE  LzReading'
<1>1. /\ file' = file /\ restored' = restored /\ frame' = frame /\ pc = "block"
      /\ bufferTotalBlock' = bufferTotalBlock + 1 /\ bufferTotalBlock < D!Full
      /\ read' = read + 1 /\ read < Len(file) /\ pc' \in {"kernel", "checksum", "lost"}
      /\ pc' # "lost" => file[read + 1].t = "data"
      /\ D!word # D!EndMark
  BY FileTypes DEF D!Block, D!token, D!last, LzFields, LzRoom
<1>2. LzFull /\ LzCollected /\ LzRestored(LzFirst)
  BY <1>1 DEF LzReading, LzGathering
<1>3. D!Data' = D!Data /\ D!DataOf' = D!DataOf
  BY <1>1, SameFile
<1> DEFINE N == Len(D!DataOf[read])
<1>4. pc' # "lost" => /\ Len(D!DataOf[read + 1]) = N + 1 /\ D!Data[N + 1] = file[read + 1]
                      /\ LzFirst' = LzFirst /\ N + 1 = LzFirst + (bufferTotalBlock + 1)
  <2> SUFFICES ASSUME file[read + 1].t = "data"
               PROVE  /\ Len(D!DataOf[read + 1]) = N + 1 /\ D!Data[N + 1] = file[read + 1]
                      /\ LzFirst' = LzFirst /\ N + 1 = LzFirst + (bufferTotalBlock + 1)
    BY <1>1
  <2>1. Len(D!DataOf[read + 1]) = N + 1 /\ D!Data[N + 1] = file[read + 1]
    BY <1>1, FileTypes, NextField
  <2>2. D!DataOf[read]' = D!DataOf[read + 1]
    BY <1>1, <1>3
  <2>3. LzFirst' = (N + 1) - (bufferTotalBlock + 1) /\ LzFirst = N - bufferTotalBlock
    BY <1>1, <2>1, <2>2 DEF LzFirst
  <2>4. N \in Nat /\ bufferTotalBlock \in Nat
    BY FileTypes
  <2> HIDE DEF N
  <2> QED BY <2>1, <2>3, <2>4
<1>5. pc' # "lost" => D!Data[LzFirst + bufferTotalBlock'] = file[read + 1]
  BY <1>1, <1>4
<1> HIDE DEF N
<1>6. pc' # "lost" => LzFull'
  <2> SUFFICES ASSUME pc' # "lost", NEW i \in 1..(bufferTotalBlock + 1)
               PROVE  /\ LzSized(D!Data[LzFirst + i])
                      /\ i < bufferTotalBlock + 1 => D!Data[LzFirst + i].units = frame.blockSize
    BY <1>1, <1>3, <1>4 DEF LzFull, LzSized
  <2>1. CASE i = bufferTotalBlock + 1
    <3>1. LzSized(file[read + 1])
      BY <1>1, <2>1, BlockSized DEF InFrame
    <3> QED BY <1>1, <1>5, <2>1, <3>1
  <2>2. CASE i = bufferTotalBlock
    <3>1. bufferTotalBlock > 0 /\ i \in 1..bufferTotalBlock
      BY <2>2, FileTypes
    <3>2. ~D!Data[LzFirst + bufferTotalBlock].short
      BY <1>1, <3>1 DEF LzReading, LzShort, LzEndFollows
    <3>3. LzSized(D!Data[LzFirst + bufferTotalBlock])
      BY <1>2, <2>2, <3>1 DEF LzFull
    <3>4. LzFirst + bufferTotalBlock \in 1..Len(D!Data)
      BY <3>1, FileTypes, <1>2 DEF LzFirst, LzRestored
    <3>5. D!Data[LzFirst + bufferTotalBlock].units \in Nat /\ frame.blockSize \in Nat
      BY <1>1, <3>4, FileTypes, BlockTypes, LzSizes DEF LzFields, InFrame
    <3> QED BY <2>2, <3>2, <3>3, <3>5 DEF LzSized
  <2>3. CASE i # bufferTotalBlock + 1 /\ i # bufferTotalBlock
    <3>1. i \in 1..bufferTotalBlock /\ i < bufferTotalBlock
      BY <2>3, FileTypes
    <3> QED BY <1>2, <3>1 DEF LzFull
  <2> QED BY <2>1, <2>2, <2>3
<1>7. pc' # "lost" => LzCollected'
  <2> SUFFICES ASSUME pc' # "lost", NEW i \in 1..(bufferTotalBlock + 1)
               PROVE  inBufferHost'[(i - 1) * frame.blockSize] = D!Data[LzFirst + i]
    BY <1>1, <1>3, <1>4 DEF LzCollected
  <2>1. i - 1 \in Nat /\ bufferTotalBlock \in Nat /\ i - 1 <= bufferTotalBlock
    BY FileTypes
  <2>2. frame.blockSize \in Nat \ {0}
    BY <1>1, LzSizes DEF LzFields, InFrame
  <2>3. (i - 1) * frame.blockSize \in D!Places
    <3>1. 0 \in 0..(frame.blockSize - 1) /\ i - 1 < D!maxNumBlocks
      BY <1>1, <2>1, <2>2, LzSizes DEF LzFields, InFrame
    <3>2. (i - 1) * frame.blockSize + 0 \in D!Places
      BY <1>1, <2>1, <3>1, LzPlace DEF LzFields, InFrame
    <3> QED BY <2>1, <2>2, <3>2
  <2>4. inBufferHost' = [inBufferHost EXCEPT ![bufferTotalBlock * frame.blockSize] = file[read + 1]]
    BY DEF D!Block, D!token
  <2>5. CASE i = bufferTotalBlock + 1
    <3>1. i - 1 = bufferTotalBlock
      BY <2>1, <2>5
    <3>2. D!Data[LzFirst + i] = file[read + 1]
      BY <1>1, <1>5, <2>5
    <3> QED BY <2>3, <2>4, <3>1, <3>2 DEF LzFields, LzState
  <2>6. CASE i # bufferTotalBlock + 1
    <3>1. bufferTotalBlock # i - 1 /\ i \in 1..bufferTotalBlock
      BY <2>1, <2>6
    <3>2. (i - 1) * frame.blockSize # bufferTotalBlock * frame.blockSize
      BY <2>1, <2>2, <3>1, PlacesApart
    <3>3. inBufferHost[(i - 1) * frame.blockSize] = D!Data[LzFirst + i]
      BY <1>2, <3>1 DEF LzCollected
    <3> QED BY <2>3, <2>4, <3>2, <3>3 DEF LzFields, LzState
  <2> QED BY <2>5, <2>6
<1>8. LzShort'
  <2> SUFFICES ASSUME pc' = "checksum", file[read + 1].short, read + 1 < Len(file)
               PROVE  IF frame.blockChecksum
                      THEN (read + 1) + 1 < Len(file) => file[(read + 1) + 2] = D!EndMark
                      ELSE file[(read + 1) + 1] = D!EndMark \/ file[(read + 1) + 1].t = "sum"
    BY <1>1, <1>3, <1>4, <1>5 DEF LzShort, LzEndFollows, D!EndMark
  <2>1. read + 1 \in 1..Len(file) /\ Len(file) \in Nat /\ read \in Nat
    BY <1>1, FileTypes
  <2>2. \/ file[(read + 1) + 1] = D!EndMark
        \/ (read + 1) + 2 <= Len(file) /\ file[(read + 1) + 1].t = "sum"
           /\ file[(read + 1) + 2] = D!EndMark
    BY <1>1, <2>1 DEF D!Readable
  <2>3. frame.blockChecksum => file[(read + 1) + 1].t = "sum"
    BY <1>1 DEF LzSums
  <2> QED BY <2>2, <2>3 DEF D!EndMark
<1>9. pc' # "lost" => LzRestored(LzFirst)'
  BY <1>1, <1>2, <1>4, SameRestored
<1>10. LzBetween'
  <2>1. LzFirst \in Nat
    BY <1>2 DEF LzRestored
  <2>2. LzRestored(LzFirst) => \E n \in Nat : LzRestored(n)
    BY <2>1
  <2> QED BY <1>1, <1>2, <2>2, SameRestored DEF LzBetween
<1> QED BY <1>1, <1>6, <1>7, <1>8, <1>9, <1>10 DEF LzReading, LzGathering, LzEmitting

LEMMA ChecksumReading ==
  ASSUME WellFormed(file), LzFields, D!Readable, LzReading, D!Checksum
  PROVE  LzReading'
<1>1. /\ file' = file /\ restored' = restored /\ frame' = frame /\ pc = "checksum"
      /\ bufferTotalBlock' = bufferTotalBlock /\ inBufferHost' = inBufferHost
      /\ pc' = "word" /\ read' = (IF frame.blockChecksum THEN read + 1 ELSE read)
      /\ frame.blockChecksum => read < Len(file) /\ file[read + 1].t = "sum"
  BY FileTypes DEF D!Checksum, D!loop, D!last, LzFields, LzSums
<1>2. LzFull /\ LzCollected /\ LzRestored(LzFirst)
  BY <1>1 DEF LzReading, LzGathering
<1>3. LzFirst' = LzFirst /\ D!Data' = D!Data
  BY <1>1, SameBlocks, SameFile DEF LzFirst
<1>4. LzShort'
  <2> SUFFICES ASSUME bufferTotalBlock > 0, D!Data[LzFirst + bufferTotalBlock].short,
                      read' < Len(file)
               PROVE  file[read' + 1] = D!EndMark \/ file[read' + 1].t = "sum"
    BY <1>1, <1>3 DEF LzShort, LzEndFollows, D!EndMark
  <2>1. read \in Nat /\ Len(file) \in Nat
    BY FileTypes
  <2>2. read < Len(file) =>
          IF frame.blockChecksum
          THEN read + 1 < Len(file) => file[read + 2] = D!EndMark
          ELSE file[read + 1] = D!EndMark \/ file[read + 1].t = "sum"
    BY <1>1 DEF LzReading, LzShort, LzEndFollows
  <2>3. (read + 1) + 1 = read + 2
    BY <2>1
  <2> QED BY <1>1, <2>1, <2>2, <2>3
<1>5. LzFull' /\ LzCollected' /\ LzRestored(LzFirst)'
  BY <1>1, <1>2, <1>3, SameRestored DEF LzFull, LzSized, LzCollected
<1> QED BY <1>1, <1>4, <1>5 DEF LzReading, LzGathering, LzEmitting, LzBetween

LEMMA EndOfBlocksReading ==
  ASSUME WellFormed(file), LzFields, D!Readable, LzReading, D!EndOfBlocks
  PROVE  LzReading'
<1>1. /\ file' = file /\ restored' = restored /\ frame' = frame /\ pc = "block"
      /\ bufferTotalBlock' = bufferTotalBlock /\ inBufferHost' = inBufferHost
      /\ pc' = (IF bufferTotalBlock > 0 THEN "kernel" ELSE "content") /\ read' = read
  BY DEF D!EndOfBlocks
<1>2. LzFull /\ LzCollected /\ LzRestored(LzFirst)
  BY <1>1 DEF LzReading, LzGathering
<1>3. LzFirst' = LzFirst /\ D!Data' = D!Data /\ D!DataOf[read]' = D!DataOf[read]
  BY <1>1, SameBlocks, SameFile DEF LzFirst
<1>4. LzShort'
  BY <1>1, <1>3 DEF LzShort, LzEndFollows
<1>5. LzFull' /\ LzCollected' /\ LzRestored(LzFirst)'
  BY <1>1, <1>2, <1>3, SameRestored DEF LzFull, LzSized, LzCollected
<1>6. LzBetween'
  <2>1. pc' = "content" => LzFirst = Len(D!DataOf[read])
    BY <1>1, FileTypes DEF LzFirst
  <2> QED BY <1>1, <1>3, <1>5, <2>1 DEF LzBetween
<1> QED BY <1>1, <1>4, <1>5, <1>6 DEF LzReading, LzGathering, LzEmitting

LEMMA ContentChecksumReading ==
  ASSUME WellFormed(file), LzFields, D!Readable, LzReading, D!ContentChecksum
  PROVE  LzReading'
<1>1. /\ file' = file /\ restored' = restored /\ frame' = frame /\ pc = "content"
      /\ bufferTotalBlock' = 0
      /\ pc' = "frame_end" /\ read' = (IF frame.contentChecksum THEN read + 1 ELSE read)
      /\ frame.contentChecksum => read < Len(file) /\ file[read + 1].t = "sum"
  BY FileTypes DEF D!ContentChecksum, D!loop, D!last, LzFields, LzSums, LzRoom
<1>2. LzRestored(Len(D!DataOf[read]))
  BY <1>1 DEF LzReading, LzBetween
<1>3. D!DataOf[read]' = D!DataOf[read]
  BY <1>1, SameBlocks
<1>4. LzBetween'
  BY <1>1, <1>2, <1>3, SameRestored DEF LzBetween
<1> QED BY <1>1, <1>4 DEF LzReading, LzShort, LzGathering, LzEmitting

(* What goes out of the kernel. *)
LEMMA DecompressResults ==
  ASSUME WellFormed(file), LzFields, D!Readable, LzFull, LzCollected, LzFirst \in Nat, D!Decompress
  PROVE  LzResults'
<1>1. /\ file' = file /\ frame' = frame /\ pc = "kernel" /\ pc \in InFrame
      /\ bufferTotalBlock' = bufferTotalBlock /\ bufferTotalBlock \in 1..D!Full
      /\ read' = read
  BY DEF D!Decompress, LzFields, LzRoom, InFrame
<1>2. LzFirst' = LzFirst /\ D!Data' = D!Data
  BY <1>1, SameBlocks, SameFile DEF LzFirst
<1>3. /\ frame.blockSize \in Nat \ {0} /\ D!Full = D!maxNumBlocks - 1
      /\ D!maxNumBlocks \in Nat /\ hostBufferSize \in Nat
  BY <1>1, LzSizes DEF LzFields
<1> SUFFICES ASSUME NEW i \in 1..bufferTotalBlock
    PROVE  /\ decompressSize'[i - 1] = D!Data[LzFirst + i].units
           /\ \A j \in 1..D!Data[LzFirst + i].units :
                outBufferHost'[(i - 1) * frame.blockSize + (j - 1)] = <<D!Data[LzFirst + i].k, j>>
  BY <1>1, <1>2 DEF LzResults
<1> DEFINE b == D!Data[LzFirst + i]
           s == frame.blockSize
<1>4. i - 1 \in Nat /\ i - 1 < D!maxNumBlocks /\ i - 1 < bufferTotalBlock
  BY <1>1, <1>3
<1>5. LzFirst + i \in 1..Len(D!Data)
  BY <1>4, FileTypes DEF LzFirst
<1>6. b \in DataBlock /\ b.units \in Nat /\ ~b.raw /\ b.units <= s
  BY <1>5, FileTypes, BlockTypes DEF D!Readable, LzFull, LzSized
<1>7. inBufferHost[(i - 1) * s] = b
  BY DEF LzCollected
<1>8. i - 1 \in D!Places
  <2>1. 0 \in 0..(s - 1)
    BY <1>3
  <2>2. (i - 1) * s + 0 \in D!Places
    BY <1>1, <1>4, <2>1, LzPlace DEF LzFields
  <2>3. i - 1 <= (i - 1) * s
    BY <1>3, <1>4
  <2>4. (i - 1) * s \in Nat
    BY <1>3, <1>4
  <2> QED BY <1>3, <1>4, <2>2, <2>3, <2>4 DEF D!Places
<1> HIDE DEF b, s
<1>9. decompressSize'[i - 1] = b.units
  <2>1. PICK any \in 0..frame.blockSize :
          decompressSize' =
            [n \in D!Places |->
               IF n >= bufferTotalBlock THEN decompressSize[n]
               ELSE IF inBufferHost[n * frame.blockSize].raw THEN any
                    ELSE inBufferHost[n * frame.blockSize].units]
    BY DEF D!Decompress
  <2>2. decompressSize'[i - 1] = IF inBufferHost[(i - 1) * frame.blockSize].raw THEN any
                                 ELSE inBufferHost[(i - 1) * frame.blockSize].units
    BY <1>1, <1>4, <1>8, <2>1
  <2> QED BY <1>6, <1>7, <2>2 DEF s
<1>10. ASSUME NEW j \in 1..b.units
       PROVE  outBufferHost'[(i - 1) * s + (j - 1)] = <<b.k, j>>
  <2>1. j - 1 \in 0..(s - 1) /\ j - 1 < b.units
    BY <1>3, <1>6 DEF s
  <2>2. (i - 1) * s + (j - 1) \in D!Places
    BY <1>1, <1>4, <2>1, LzPlace DEF LzFields, s
  <2>3. ((i - 1) * s + (j - 1)) \div s = i - 1 /\ ((i - 1) * s + (j - 1)) % s = j - 1
    BY <1>3, <1>4, <2>1, ToPlace DEF s
  <2>4. outBufferHost' =
          [p \in D!Places |->
             IF (p \div s) >= bufferTotalBlock \/ (p % s) >= decompressSize'[p \div s]
             THEN outBufferHost[p]
             ELSE IF inBufferHost[(p \div s) * s].raw THEN D!Garbage
                  ELSE <<inBufferHost[(p \div s) * s].k, (p % s) + 1>>]
    BY DEF D!Decompress, s
  <2> DEFINE p == (i - 1) * s + (j - 1)
  <2> HIDE DEF p
  <2>5. p \in D!Places /\ p \div s = i - 1 /\ p % s = j - 1
    BY <2>2, <2>3 DEF p
  <2>6. outBufferHost'[p] =
          IF (p \div s) >= bufferTotalBlock \/ (p % s) >= decompressSize'[p \div s]
          THEN outBufferHost[p]
          ELSE IF inBufferHost[(p \div s) * s].raw THEN D!Garbage
               ELSE <<inBufferHost[(p \div s) * s].k, (p % s) + 1>>
    BY <2>4, <2>5
  <2>7. ~((p \div s) >= bufferTotalBlock) /\ ~((p % s) >= decompressSize'[p \div s])
    BY <1>1, <1>3, <1>4, <1>6, <1>9, <2>1, <2>5
  <2>8. inBufferHost[(p \div s) * s] = b /\ (p % s) + 1 = j
    BY <1>7, <2>1, <2>5
  <2>9. outBufferHost'[p] = <<b.k, j>>
    BY <1>6, <2>6, <2>7, <2>8
  <2> QED BY <2>9 DEF p
<1> QED BY <1>9, <1>10 DEF b, s

LEMMA DecompressReading ==
  ASSUME WellFormed(file), LzFields, D!Readable, LzReading, D!Decompress
  PROVE  LzReading'
<1>1. /\ file' = file /\ restored' = restored /\ frame' = frame /\ pc = "kernel" /\ read' = read
      /\ bufferTotalBlock' = bufferTotalBlock /\ pc' = "emit"
      /\ blockIdx' = 0 /\ decompressedSize' = 0 /\ bufferTotalBlock \in Nat
  BY FileTypes DEF D!Decompress
<1>2. LzFull /\ LzCollected /\ LzRestored(LzFirst)
  BY <1>1 DEF LzReading, LzGathering
<1>3. LzFirst' = LzFirst /\ D!Data' = D!Data /\ LzFirst \in Nat
  BY <1>1, <1>2, SameBlocks, SameFile DEF LzFirst, LzRestored
<1>4. LzResults'
  BY <1>2, <1>3, DecompressResults
<1>5. LzFull'
  BY <1>1, <1>2, <1>3 DEF LzFull, LzSized
<1>6. LzShort'
  BY <1>1 DEF LzShort, LzEndFollows
<1>7. LzRestored(LzFirst + blockIdx)'
  <2>1. LzFirst' + blockIdx' = LzFirst
    BY <1>1, <1>3
  <2>2. LzRestored(LzFirst)'
    BY <1>1, <1>2, <1>3, SameRestored
  <2> QED BY <1>3, <2>1, <2>2
<1>8. decompressedSize' = blockIdx' * frame'.blockSize
  <2>1. frame.blockSize \in Nat
    BY <1>1, LzSizes DEF LzFields, InFrame
  <2> QED BY <1>1, <2>1
<1> QED BY <1>1, <1>3, <1>4, <1>5, <1>6, <1>7, <1>8
        DEF LzReading, LzGathering, LzEmitting, LzBetween

(* A block's units, wherever they are, are what its content has.  *)
LEMMA EmitReading ==
  ASSUME WellFormed(file), LzFields, D!Readable, LzReading, D!Emit
  PROVE  LzReading'
<1>1. /\ file' = file /\ frame' = frame /\ pc = "emit" /\ read' = read /\ pc' = "emit"
      /\ bufferTotalBlock' = bufferTotalBlock /\ outBufferHost' = outBufferHost
      /\ decompressSize' = decompressSize /\ blockIdx < bufferTotalBlock
      /\ blockIdx' = blockIdx + 1 /\ bufferTotalBlock \in Nat /\ blockIdx \in Nat
  BY FileTypes DEF D!Emit
<1>2. /\ LzFull /\ LzResults /\ LzFirst \in Nat /\ LzRestored(LzFirst + blockIdx)
      /\ decompressedSize = blockIdx * frame.blockSize
  BY <1>1 DEF LzReading, LzEmitting
<1>3. LzFirst' = LzFirst /\ D!Data' = D!Data /\ D!ContentOf' = D!ContentOf
  BY <1>1, SameBlocks, SameFile DEF LzFirst
<1>4. frame.blockSize \in Nat
  BY <1>1, LzSizes DEF LzFields, InFrame
<1> DEFINE i == blockIdx + 1
           n == LzFirst + blockIdx
           b == D!Data[LzFirst + i]
<1>5. /\ i \in 1..bufferTotalBlock /\ i - 1 = blockIdx
      /\ n \in 0..(Len(D!Data) - 1) /\ n + 1 = LzFirst + i /\ n + 1 \in 1..Len(D!Data)
  <2>1. /\ LzFirst + bufferTotalBlock = Len(D!DataOf[read])
        /\ Len(D!DataOf[read]) \in Nat /\ Len(D!DataOf[read]) <= Len(D!Data) /\ Len(D!Data) \in Nat
    BY <1>1, FileTypes DEF LzFirst
  <2>2. i \in 1..bufferTotalBlock /\ i - 1 = blockIdx
    BY <1>1
  <2>3. n + 1 = LzFirst + i /\ n \in Nat /\ n + 1 <= LzFirst + bufferTotalBlock
    BY <1>1, <1>2
  <2> HIDE DEF i, n
  <2> QED BY <2>1, <2>2, <2>3
<1>6. b.units \in Nat /\ b.k \in Nat
  BY <1>5, FileTypes, BlockTypes
<1>7. /\ decompressSize[blockIdx] = b.units
      /\ \A j \in 1..b.units : outBufferHost[blockIdx * frame.blockSize + (j - 1)] = <<b.k, j>>
  BY <1>2, <1>5 DEF LzResults
<1>8. [j \in 1..decompressSize[blockIdx] |-> outBufferHost[D!Offset + j - 1]] =
        [j \in 1..b.units |-> <<b.k, j>>]
  <2>1. ASSUME NEW j \in 1..b.units
        PROVE  outBufferHost[D!Offset + j - 1] = <<b.k, j>>
    <3>1. blockIdx * frame.blockSize \in Nat
      BY <1>1, <1>4, SizeOfOneMore
    <3>2. D!Offset + j - 1 = blockIdx * frame.blockSize + (j - 1)
      BY <1>2, <1>6, <3>1 DEF D!Offset
    <3> QED BY <1>7, <3>2
  <2> HIDE DEF b
  <2> QED BY <1>7, <2>1
<1>9. restored' = D!ContentOf[n + 1]
  <2>1. restored = D!ContentOf[n]
    BY <1>2 DEF LzRestored
  <2>2. restored' = restored \o [j \in 1..decompressSize[blockIdx] |-> outBufferHost[D!Offset + j - 1]]
    BY DEF D!Emit
  <2>3. D!ContentOf[n + 1] = D!ContentOf[n] \o [j \in 1..b.units |-> <<b.k, j>>]
    BY <1>5, FileTypes, ContentAt
  <2> QED BY <1>8, <2>1, <2>2, <2>3
<1>10. LzRestored(LzFirst + blockIdx)'
  <2>1. LzFirst' + blockIdx' = n + 1
    BY <1>1, <1>2, <1>3
  <2>2. n + 1 \in 0..Len(D!Data)
    BY <1>5, FileTypes
  <2> HIDE DEF n
  <2> QED BY <1>3, <1>9, <2>1, <2>2 DEF LzRestored
<1>11. blockIdx' < bufferTotalBlock => decompressedSize' = blockIdx' * frame.blockSize
  <2> SUFFICES ASSUME i < bufferTotalBlock PROVE decompressedSize' = i * frame.blockSize
    BY <1>1
  <2>1. b.units = frame.blockSize
    BY <1>2, <1>5 DEF LzFull
  <2>2. decompressedSize' = decompressedSize + decompressSize[blockIdx]
    BY DEF D!Emit
  <2>3. decompressedSize' = blockIdx * frame.blockSize + frame.blockSize
    BY <1>2, <1>7, <2>1, <2>2
  <2>4. (blockIdx + 1) * frame.blockSize = blockIdx * frame.blockSize + frame.blockSize
    BY <1>1, <1>4, SizeOfOneMore
  <2> QED BY <2>3, <2>4
<1>12. LzFull' /\ LzResults'
  BY <1>1, <1>2, <1>3 DEF LzFull, LzSized, LzResults
<1>13. LzShort'
  BY <1>1 DEF LzShort, LzEndFollows
<1>14. blockIdx' <= bufferTotalBlock
  BY <1>1
<1> QED BY <1>1, <1>2, <1>3, <1>10, <1>11, <1>12, <1>13, <1>14
        DEF LzReading, LzGathering, LzEmitting, LzBetween

LEMMA EmitDoneReading ==
  ASSUME WellFormed(file), LzFields, D!Readable, LzReading, D!EmitDone
  PROVE  LzReading'
<1>1. /\ file' = file /\ frame' = frame /\ pc = "emit" /\ read' = read
      /\ pc' \in {"checksum", "content"} /\ restored' = restored
      /\ bufferTotalBlock' = 0 /\ blockIdx = bufferTotalBlock /\ bufferTotalBlock \in Nat
  BY FileTypes DEF D!EmitDone, LzFields, LzState, D!loop
<1>2. LzRestored(LzFirst + blockIdx)
  BY <1>1 DEF LzReading, LzEmitting
<1>3. LzFirst + blockIdx = Len(D!DataOf[read])
  BY <1>1, FileTypes DEF LzFirst
<1>4. D!DataOf[read]' = D!DataOf[read]
  BY <1>1, SameBlocks
<1>5. LzFirst' = Len(D!DataOf[read])
  BY <1>1, <1>4, FileTypes DEF LzFirst
<1>6. LzRestored(LzFirst)' /\ LzRestored(Len(D!DataOf[read]))'
  BY <1>1, <1>2, <1>3, <1>4, <1>5, SameRestored
<1>7. LzFull' /\ LzCollected'
  BY <1>1 DEF LzFull, LzCollected
<1> QED BY <1>1, <1>6, <1>7 DEF LzReading, LzShort, LzGathering, LzEmitting, LzBetween

(***************************************************************************)
(* The steps of the decompressor                                             *)
(***************************************************************************)
LEMMA LzStep ==
  ASSUME WellFormed(file), LzDecompressing, D!Step
  PROVE  LzDecompressing' /\ file' = file
<1>1. LzFields /\ (D!Readable => LzReading)
  BY DEF LzDecompressing, LzFields
<1>2. file' = file
  BY DEF D!Step, D!Magic, D!Descriptor, D!FrameEnd, D!Word, D!Block, D!Checksum, D!EndOfBlocks,
         D!ContentChecksum, D!Decompress, D!Emit, D!EmitDone
<1>3. D!Readable' = D!Readable
  BY <1>2, SameFile
<1> SUFFICES LzFields' /\ (D!Readable => LzReading')
  BY <1>2, <1>3 DEF LzDecompressing, LzFields
<1>4. CASE D!Magic
  BY <1>1, <1>4, MagicFields, MagicReading
<1>5. CASE D!Descriptor
  BY <1>1, <1>5, DescriptorFields, DescriptorReading
<1>6. CASE D!FrameEnd
  BY <1>1, <1>6, FrameEndFields, FrameEndReading
<1>7. CASE D!Word
  <2>1. LzFields'
    BY <1>1, <1>7, WordFields
  <2> QED BY <1>1, <1>7, <2>1, WordReading DEF LzFields
<1>8. CASE D!Block
  <2>1. LzFields'
    BY <1>1, <1>8, BlockFields
  <2> QED BY <1>1, <1>8, <2>1, BlockReading DEF LzFields
<1>9. CASE D!Checksum
  BY <1>1, <1>9, ChecksumFields, ChecksumReading
<1>10. CASE D!EndOfBlocks
  BY <1>1, <1>10, EndOfBlocksFields, EndOfBlocksReading
<1>11. CASE D!ContentChecksum
  BY <1>1, <1>11, ContentChecksumFields, ContentChecksumReading
<1>12. CASE D!Decompress
  BY <1>1, <1>12, DecompressFields, DecompressReading
<1>13. CASE D!Emit
  BY <1>1, <1>13, EmitFields, EmitReading
<1>14. CASE D!EmitDone
  BY <1>1, <1>14, EmitDoneFields, EmitDoneReading
<1> QED BY <1>4, <1>5, <1>6, <1>7, <1>8, <1>9, <1>10, <1>11, <1>12, <1>13, <1>14 DEF D!Step

LEMMA LzBegin ==
  ASSUME WellFormed(file), D!Start
  PROVE  LzDecompressing
<1>1. /\ file \in Seq(Field) /\ Len(file) \in Nat
      /\ read = 0 /\ pc = "magic" /\ bufferTotalBlock = 0 /\ blockIdx = 0 /\ restored = <<>>
  BY DEF WellFormed, D!Start
<1>2. LzState
  BY <1>1 DEF D!Start, LzState
<1>3. LzFrame /\ LzRoom /\ LzSums
  BY <1>1 DEF LzFrame, LzRoom, LzSums, InFrame
<1>4. LzRestored(Len(D!DataOf[read]))
  <2>1. D!DataOf[0] = <<>> /\ D!ContentOf[0] = <<>>
    BY <1>1, DataAt, ContentAt
  <2>2. Len(D!Data) \in Nat
    BY <1>1, BlockTypes
  <2> QED BY <1>1, <2>1, <2>2 DEF LzRestored
<1>5. LzReading
  BY <1>1, <1>4 DEF LzReading, LzShort, LzGathering, LzEmitting, LzBetween
<1> QED BY <1>2, <1>3, <1>5 DEF LzDecompressing

(***************************************************************************)
(* The file that the compressor leaves                                       *)
(***************************************************************************)
SizeWord(k) == [t |-> "size", n |-> framed[k].word.n, raw |-> framed[k].word.raw]
Payload(k) ==
  [t |-> "data", k |-> framed[k].data, bytes |-> framed[k].bytes, units |-> original[k].size,
   raw |-> framed[k].word.raw, short |-> original[k].size < BlockBytes]
Pairs == [k \in 1..Len(framed) |-> Tokens(k)]

LEMMA PairOf ==
  ASSUME LzTypes, NEW k \in 1..Len(framed), Len(framed) = Len(original)
  PROVE  /\ SizeWord(k) \in Field /\ Payload(k) \in Field
         /\ Pairs[k] \in Seq(Field) /\ Len(Pairs[k]) = 2
         /\ Pairs[k][1] = SizeWord(k) /\ Pairs[k][2] = Payload(k)
<1>1. framed[k] \in SentBlock /\ original[k] \in Piece
  BY DEF LzTypes
<1>2. /\ framed[k].word.n \in Nat /\ framed[k].word.raw \in BOOLEAN /\ framed[k].data \in Nat
      /\ framed[k].bytes \in Nat /\ original[k].size \in Nat
  BY <1>1, BlockBytesType DEF SentBlock, Piece
<1>3. SizeWord(k) \in [t : {"size"}, n : Nat, raw : BOOLEAN]
  BY <1>2 DEF SizeWord
<1>4. Payload(k) \in [t : {"data"}, k : Nat, bytes : Nat, units : Nat, raw : BOOLEAN, short : BOOLEAN]
  BY <1>2 DEF Payload
<1>5. SizeWord(k) \in Field /\ Payload(k) \in Field
  BY <1>3, <1>4 DEF Field
<1>6. Pairs[k] = <<SizeWord(k), Payload(k)>>
  BY DEF Pairs, Tokens, SizeWord, Payload
<1> QED BY <1>5, <1>6

PairsTo(k) ==
  /\ Flat(Pairs)[k] \in Seq(Field) /\ Len(Flat(Pairs)[k]) = 2 * k
  /\ \A j \in 1..k : /\ Flat(Pairs)[k][2 * j - 1] = SizeWord(j)
                     /\ Flat(Pairs)[k][2 * j] = Payload(j)

LEMMA NextPair ==
  ASSUME NEW a \in Seq(Field), NEW b \in Seq(Field), NEW k \in Nat, Len(a) = 2 * k, Len(b) = 2
  PROVE  /\ a \o b \in Seq(Field) /\ Len(a \o b) = 2 * (k + 1)
         /\ \A j \in 1..k : (a \o b)[2 * j - 1] = a[2 * j - 1] /\ (a \o b)[2 * j] = a[2 * j]
         /\ (a \o b)[2 * (k + 1) - 1] = b[1] /\ (a \o b)[2 * (k + 1)] = b[2]
<1>0. /\ a \o b \in Seq(Field) /\ Len(a \o b) = Len(a) + Len(b)
      /\ Len(a) \in Nat /\ 2 * k \in Nat
      /\ \A i \in 1..(Len(a) + Len(b)) :
           (a \o b)[i] = IF i <= Len(a) THEN a[i] ELSE b[i - Len(a)]
  <2>1. /\ a \o b \in Seq(Field) /\ Len(a \o b) = Len(a) + Len(b)
        /\ \A i \in 1..(Len(a) + Len(b)) :
             (a \o b)[i] = IF i <= Len(a) THEN a[i] ELSE b[i - Len(a)]
    BY ConcatProperties
  <2>2. Len(a) \in Nat /\ 2 * k \in Nat
    OBVIOUS
  <2> QED BY <2>1, <2>2
<1>1. a \o b \in Seq(Field) /\ Len(a \o b) = 2 * (k + 1)
  BY <1>0
<1>2. ASSUME NEW j \in 1..k PROVE (a \o b)[2 * j - 1] = a[2 * j - 1] /\ (a \o b)[2 * j] = a[2 * j]
  <2>1. 2 * j - 1 \in 1..Len(a) /\ 2 * j \in 1..Len(a)
    OBVIOUS
  <2> QED BY <1>0, <2>1
<1>3. (a \o b)[Len(a) + 1] = b[1] /\ (a \o b)[Len(a) + 2] = b[2]
  BY <1>0
<1>4. Len(a) + 1 = 2 * (k + 1) - 1 /\ Len(a) + 2 = 2 * (k + 1)
  OBVIOUS
<1> QED BY <1>1, <1>2, <1>3, <1>4

LEMMA PairsFlat ==
  ASSUME LzTypes, Len(framed) = Len(original), NEW n \in 1..Len(framed)
  PROVE  PairsTo(n)
<1> DEFINE S == {k \in Nat : k + 1 <= Len(framed) => PairsTo(k + 1)}
<1>0. Len(framed) \in Nat /\ Len(Pairs) = Len(framed)
  BY DEF LzTypes, Pairs
<1>1. \A k \in 1..Len(framed) :
        Flat(Pairs)[k] = IF k = 1 THEN Pairs[1] ELSE Flat(Pairs)[k - 1] \o Pairs[k]
  <2> DEFINE f == Flat(Pairs)
  <2>1. f = [k \in 1..Len(Pairs) |-> IF k = 1 THEN Pairs[k] ELSE f[k - 1] \o Pairs[k]]
    BY <1>0, FlatExists
  <2> HIDE DEF f
  <2>2. \A k \in 1..Len(framed) : f[k] = IF k = 1 THEN Pairs[1] ELSE f[k - 1] \o Pairs[k]
    BY <1>0, <2>1
  <2> QED BY <2>2 DEF f
<1>2. 0 \in S
  <2> SUFFICES ASSUME 1 <= Len(framed) PROVE PairsTo(1)
    OBVIOUS
  <2>1. 1 \in 1..Len(framed)
    BY <1>0
  <2>2. Flat(Pairs)[1] = Pairs[1]
    BY <1>1, <2>1
  <2>3. \A j \in 1..1 : j = 1
    OBVIOUS
  <2>4. 2 * 1 - 1 = 1 /\ 2 * 1 = 2
    OBVIOUS
  <2> QED BY <2>1, <2>2, <2>3, <2>4, PairOf DEF PairsTo
<1>3. ASSUME NEW k \in S PROVE k + 1 \in S
  <2> SUFFICES ASSUME (k + 1) + 1 <= Len(framed) PROVE PairsTo((k + 1) + 1)
    OBVIOUS
  <2>1. /\ k + 1 \in Nat /\ (k + 1) + 1 \in 1..Len(framed) /\ (k + 1) + 1 # 1
        /\ ((k + 1) + 1) - 1 = k + 1 /\ k + 1 <= Len(framed)
    BY <1>0
  <2>2. PairsTo(k + 1)
    BY <2>1
  <2> DEFINE m == k + 1
             a == Flat(Pairs)[m]
             b == Pairs[m + 1]
  <2> HIDE DEF S
  <2>3. Flat(Pairs)[m + 1] = a \o b
    BY <1>1, <2>1
  <2>4. /\ b \in Seq(Field) /\ Len(b) = 2
        /\ b[1] = SizeWord(m + 1) /\ b[2] = Payload(m + 1)
    BY <2>1, PairOf
  <2>5. m \in Nat
    BY <2>1
  <2> HIDE DEF m
  <2>6. /\ a \in Seq(Field) /\ Len(a) = 2 * m
        /\ \A j \in 1..m : a[2 * j - 1] = SizeWord(j) /\ a[2 * j] = Payload(j)
    BY <2>2 DEF PairsTo, m
  <2> HIDE DEF a, b
  <2>7. /\ a \o b \in Seq(Field) /\ Len(a \o b) = 2 * (m + 1)
        /\ \A j \in 1..m : (a \o b)[2 * j - 1] = a[2 * j - 1] /\ (a \o b)[2 * j] = a[2 * j]
        /\ (a \o b)[2 * (m + 1) - 1] = b[1] /\ (a \o b)[2 * (m + 1)] = b[2]
    BY <2>4, <2>5, <2>6, NextPair
  <2>8. ASSUME NEW j \in 1..(m + 1)
        PROVE  (a \o b)[2 * j - 1] = SizeWord(j) /\ (a \o b)[2 * j] = Payload(j)
    <3>1. j = m + 1 \/ j \in 1..m
      BY <2>5
    <3>2. CASE j = m + 1
      BY <2>4, <2>7, <3>2
    <3>3. CASE j \in 1..m
      BY <2>6, <2>7, <3>3
    <3> QED BY <3>1, <3>2, <3>3
  <2>9. PairsTo(m + 1)
    BY <2>3, <2>7, <2>8 DEF PairsTo
  <2> QED BY <2>9 DEF m
<1>4. S = Nat
  <2> HIDE DEF S
  <2>1. S \subseteq Nat
    BY DEF S
  <2> QED BY <1>2, <1>3, <2>1, Induction
<1> HIDE DEF S
<1>5. n - 1 \in S /\ (n - 1) + 1 = n /\ n <= Len(framed)
  BY <1>0, <1>4
<1>6. PairsTo((n - 1) + 1)
  BY <1>5 DEF S
<1> QED BY <1>5, <1>6

(* The file's fields, one by one. *)
LzWritten(n) ==
  /\ Written \in Seq(Field) /\ Len(Written) = 2 * n + 3
  /\ Written[1] = Header[1] /\ Written[2] = Header[2] /\ Written[2 * n + 3] = D!EndMark
  /\ \A j \in 1..n : Written[2 * j + 1] = SizeWord(j) /\ Written[2 * j + 2] = Payload(j)

(* r is the sequence a and then the sequence b. *)
OneAfterOther(a, b, r) ==
  /\ IsSequence(r) /\ Len(r) = Len(a) + Len(b)
  /\ \A i \in 1..Len(a) : r[i] = a[i]
  /\ \A i \in 1..Len(b) : r[Len(a) + i] = b[i]

LEMMA JoinedIs ==
  ASSUME NEW a, NEW b, IsSequence(a), IsSequence(b)
  PROVE  OneAfterOther(a, b, a \o b)
BY Joined DEF OneAfterOther

(* r is two fields, then the n pairs b, then one field. *)
Surrounded(a, b, c, n, r) ==
  /\ r \in Seq(Field) /\ Len(r) = 2 * n + 3
  /\ r[1] = a[1] /\ r[2] = a[2] /\ r[2 * n + 3] = c[1]
  /\ \A j \in 1..n : r[2 * j + 1] = b[2 * j - 1] /\ r[2 * j + 2] = b[2 * j]

LEMMA FrameAround ==
  ASSUME NEW a \in Seq(Field), NEW b \in Seq(Field), NEW c \in Seq(Field), NEW n \in Nat,
         Len(a) = 2, Len(b) = 2 * n, Len(c) = 1
  PROVE  Surrounded(a, b, c, n, a \o b \o c)
<1> DEFINE q == a \o b
           r == q \o c
<1>1. IsSequence(a) /\ IsSequence(b) /\ IsSequence(c)
  BY SeqIsSequence
<1>2. OneAfterOther(a, b, q)
  BY <1>1, JoinedIs
<1>3. r \in Seq(Field)
  BY ConcatProperties
<1> HIDE DEF q
<1>4. OneAfterOther(q, c, r)
  <2>1. IsSequence(q)
    BY <1>2 DEF OneAfterOther
  <2> QED BY <1>1, <2>1, JoinedIs
<1> HIDE DEF r
<1>5. /\ Len(q) = 2 + 2 * n /\ Len(r) = 2 * n + 3
      /\ \A i \in 1..2 : q[i] = a[i]
      /\ \A i \in 1..(2 * n) : q[2 + i] = b[i]
      /\ \A i \in 1..(2 + 2 * n) : r[i] = q[i]
      /\ \A i \in 1..1 : r[(2 + 2 * n) + i] = c[i]
  <2>1. /\ Len(q) = 2 + 2 * n
        /\ \A i \in 1..2 : q[i] = a[i]
        /\ \A i \in 1..(2 * n) : q[2 + i] = b[i]
    BY <1>2 DEF OneAfterOther
  <2>2. /\ Len(r) = (2 + 2 * n) + 1
        /\ \A i \in 1..(2 + 2 * n) : r[i] = q[i]
        /\ \A i \in 1..1 : r[(2 + 2 * n) + i] = c[i]
    BY <1>4, <2>1 DEF OneAfterOther
  <2> QED BY <2>1, <2>2
<1>6. ASSUME NEW j \in 1..n PROVE r[2 * j + 1] = b[2 * j - 1] /\ r[2 * j + 2] = b[2 * j]
  <2>1. /\ 2 * j - 1 \in 1..(2 * n) /\ 2 * j \in 1..(2 * n)
        /\ 2 + (2 * j - 1) = 2 * j + 1 /\ 2 + 2 * j = 2 * j + 2
        /\ 2 * j + 1 \in 1..(2 + 2 * n) /\ 2 * j + 2 \in 1..(2 + 2 * n)
    OBVIOUS
  <2> QED BY <1>5, <2>1
<1>7. r[1] = a[1] /\ r[2] = a[2] /\ r[2 * n + 3] = c[1]
  <2>1. /\ 1 \in 1..(2 + 2 * n) /\ 2 \in 1..(2 + 2 * n) /\ (2 + 2 * n) + 1 = 2 * n + 3
        /\ 1 \in 1..2 /\ 2 \in 1..2 /\ 1 \in 1..1
    OBVIOUS
  <2> QED BY <1>5, <2>1
<1>8. Surrounded(a, b, c, n, r)
  BY <1>3, <1>5, <1>6, <1>7 DEF Surrounded
<1> QED BY <1>8 DEF r, q

LEMMA WrittenFields ==
  ASSUME LzCompressing, cpc = "end"
  PROVE  LzWritten(Len(original)) /\ Len(framed) = Len(original) /\ Len(original) \in Nat \ {0}
<1>1. Len(framed) = Len(original) /\ Len(original) \in Nat \ {0} /\ LzTypes
  BY DEF LzCompressing, LzProgress, LzTypes
<1> DEFINE n == Len(original)
           b == FlattenSeq(Pairs)
<1>2. Len(Pairs) = n
  BY <1>1 DEF Pairs
<1>3. b = Flat(Pairs)[n]
  BY <1>1, <1>2, FlattenIsFlat
<1>4. n \in 1..Len(framed)
  BY <1>1
<1>5. PairsTo(n)
  BY <1>1, <1>4, PairsFlat
<1> HIDE DEF b
<1>6. /\ b \in Seq(Field) /\ Len(b) = 2 * n
      /\ \A j \in 1..n : b[2 * j - 1] = SizeWord(j) /\ b[2 * j] = Payload(j)
  BY <1>3, <1>5 DEF PairsTo
<1>7. Header \in Seq(Field) /\ Len(Header) = 2
  <2>1. [t |-> "magic"] \in Field
    BY DEF Field
  <2>2. [t |-> "descriptor", valid |-> TRUE, contentSize |-> FALSE,
         blockChecksum |-> FALSE, contentChecksum |-> FALSE, blockSize |-> BlockBytes] \in Field
    BY BlockBytesType DEF Field
  <2> QED BY <2>1, <2>2 DEF Header
<1>8. Footer \in Seq(Field) /\ Len(Footer) = 1 /\ Footer[1] = D!EndMark
  <2>1. D!EndMark \in Field
    BY DEF D!EndMark, Field
  <2> QED BY <2>1 DEF Footer
<1>9. Written = Header \o b \o Footer
  BY DEF Written, b, Pairs
<1> HIDE DEF n
<1>10. n \in Nat
  BY <1>1 DEF n
<1>11. LzWritten(n)
  <2>1. Surrounded(Header, b, Footer, n, Header \o b \o Footer)
    BY <1>6, <1>7, <1>8, <1>10, FrameAround
  <2>2. Surrounded(Header, b, Footer, n, Written)
    BY <1>9, <2>1
  <2> QED BY <1>6, <1>8, <2>2 DEF LzWritten, Surrounded
<1> QED BY <1>1, <1>11 DEF n

(* Which field a place is of. *)
LEMMA Which ==
  ASSUME NEW n \in Nat \ {0}, NEW i \in 1..(2 * n + 3)
  PROVE  \/ i = 1 \/ i = 2 \/ i = 2 * n + 3
         \/ \E j \in 1..n : i = 2 * j + 1
         \/ \E j \in 1..n : i = 2 * j + 2
<1>1. i = 2 * (i \div 2) + (i % 2) /\ (i % 2) \in {0, 1} /\ (i \div 2) \in Nat
  OBVIOUS
<1>2. CASE i % 2 = 1 /\ i # 1 /\ i # 2 * n + 3
  <2>1. i \div 2 \in 1..n /\ i = 2 * (i \div 2) + 1
    BY <1>1, <1>2
  <2> QED BY <2>1
<1>3. CASE i % 2 = 0 /\ i # 2
  <2>1. (i \div 2) - 1 \in 1..n /\ i = 2 * ((i \div 2) - 1) + 2
    BY <1>1, <1>3
  <2> QED BY <2>1
<1> QED BY <1>1, <1>2, <1>3

(* What the fields of the file are. *)
LEMMA WrittenKinds ==
  ASSUME LzCompressing, cpc = "end", NEW i \in 1..Len(Written)
  PROVE  /\ Written[i].t = "descriptor" => i = 2
         /\ Written[i].t = "data" => \E j \in 1..Len(original) : i = 2 * j + 2
         /\ Written[2] = [t |-> "descriptor", valid |-> TRUE, contentSize |-> FALSE,
                          blockChecksum |-> FALSE, contentChecksum |-> FALSE,
                          blockSize |-> BlockBytes]
<1> DEFINE n == Len(original)
<1>1. LzWritten(n) /\ n \in Nat \ {0}
  BY WrittenFields
<1> HIDE DEF n
<1>2. \/ i = 1 \/ i = 2 \/ i = 2 * n + 3
      \/ \E j \in 1..n : i = 2 * j + 1
      \/ \E j \in 1..n : i = 2 * j + 2
  BY <1>1, Which DEF LzWritten
<1>3. /\ Written[1].t = "magic"
      /\ Written[2] = [t |-> "descriptor", valid |-> TRUE, contentSize |-> FALSE,
                       blockChecksum |-> FALSE, contentChecksum |-> FALSE,
                       blockSize |-> BlockBytes]
      /\ Written[2 * n + 3].t = "size"
      /\ \A j \in 1..n : Written[2 * j + 1].t = "size"
  <2>1. /\ Written[1] = Header[1] /\ Written[2] = Header[2] /\ Written[2 * n + 3] = D!EndMark
        /\ \A j \in 1..n : Written[2 * j + 1] = SizeWord(j)
    BY <1>1 DEF LzWritten
  <2>2. /\ Header[1].t = "magic" /\ D!EndMark.t = "size"
        /\ Header[2] = [t |-> "descriptor", valid |-> TRUE, contentSize |-> FALSE,
                         blockChecksum |-> FALSE, contentChecksum |-> FALSE,
                         blockSize |-> BlockBytes]
    BY DEF Header, D!EndMark
  <2>3. \A j : SizeWord(j).t = "size"
    BY DEF SizeWord
  <2> QED BY <2>1, <2>2, <2>3
<1>4. Written[2].t = "descriptor"
  BY <1>3
<1>5. Written[i].t = "descriptor" => i = 2
  <2>1. \A j \in 1..n : Written[2 * j + 2].t = "data"
    <3>1. \A j \in 1..n : Written[2 * j + 2] = Payload(j)
      BY <1>1 DEF LzWritten
    <3>2. \A j : Payload(j).t = "data"
      BY DEF Payload
    <3> QED BY <3>1, <3>2
  <2> QED BY <1>2, <1>3, <2>1
<1>6. Written[i].t = "data" => \E j \in 1..n : i = 2 * j + 2
  BY <1>2, <1>3, <1>4
<1> QED BY <1>3, <1>5, <1>6 DEF n

LEMMA WrittenWellFormed ==
  ASSUME LzCompressing, cpc = "end"
  PROVE  WellFormed(Written)
<1> DEFINE n == Len(original)
           w == Written
<1>1. LzWritten(n) /\ n \in Nat \ {0} /\ LzTypes
  BY WrittenFields DEF LzCompressing
<1>2. /\ w \in Seq(Field) /\ Len(w) = 2 * n + 3 /\ DOMAIN w = 1..Len(w)
      /\ \A j \in 1..n : w[2 * j + 2] = Payload(j)
  BY <1>1 DEF LzWritten
<1>3. \A i \in DOMAIN w :
        /\ w[i].t = "descriptor" => i = 2
        /\ w[i].t = "data" => \E j \in 1..n : i = 2 * j + 2
  BY <1>2, WrittenKinds
<1>4. w[2] = [t |-> "descriptor", valid |-> TRUE, contentSize |-> FALSE,
              blockChecksum |-> FALSE, contentChecksum |-> FALSE, blockSize |-> BlockBytes]
  <2>1. 2 \in 1..Len(w)
    BY <1>1, <1>2
  <2> QED BY <2>1, WrittenKinds
<1> HIDE DEF w, n
<1>5. ASSUME NEW d \in DOMAIN w, w[d].t = "descriptor" PROVE w[d].blockSize \in BlockSizes
  BY <1>3, <1>4, <1>5, Lz4Assumption
<1>6. ASSUME NEW d \in DOMAIN w, NEW i \in DOMAIN w, OfFrame(w, d, i)
      PROVE  /\ w[i].t = "data" => /\ w[i].units <= w[d].blockSize
                                   /\ w[i].short <=> w[i].units < w[d].blockSize
             /\ ~w[d].blockChecksum /\ ~w[d].contentChecksum
  <2>1. w[d] = w[2]
    BY <1>3, <1>6 DEF OfFrame
  <2>2. w[d].blockSize = BlockBytes /\ w[d].blockChecksum = FALSE /\ w[d].contentChecksum = FALSE
    BY <1>4, <2>1
  <2>3. ASSUME w[i].t = "data"
        PROVE  w[i].units <= BlockBytes /\ (w[i].short <=> w[i].units < BlockBytes)
    <3>1. PICK j \in 1..n : i = 2 * j + 2
      BY <1>3, <2>3
    <3>2. w[i].units = original[j].size /\ w[i].short = (original[j].size < BlockBytes)
      <4>1. w[i] = Payload(j)
        BY <1>2, <3>1
      <4>2. /\ Payload(j).units = original[j].size
            /\ Payload(j).short = (original[j].size < BlockBytes)
        BY DEF Payload
      <4> QED BY <4>1, <4>2
    <3>3. original[j] \in Piece
      BY <1>1, <3>1 DEF LzTypes, n
    <3>4. original[j].size <= BlockBytes
      BY <3>3, BlockBytesType DEF Piece
    <3> QED BY <3>2, <3>4
  <2> QED BY <2>2, <2>3
<1>7. WellFormed(w)
  BY <1>2, <1>5, <1>6 DEF WellFormed
<1> QED BY <1>7 DEF w

LEMMA LzFile ==
  ASSUME LzInv
  PROVE  WellFormed(file) /\ file \in Seq(Field)
<1>1. CASE Foreign
  BY <1>1, FilesAssumption DEF LzInv, WellFormed
<1>2. CASE ~Foreign /\ cpc = "end"
  BY <1>2, WrittenWellFormed DEF LzInv, WellFormed
<1>3. CASE ~Foreign /\ cpc # "end"
  <2>1. file = <<>> /\ <<>> \in Seq(Field) /\ DOMAIN <<>> = 1..0 /\ \A i \in 1..0 : FALSE
    BY <1>3 DEF LzInv
  <2> QED BY <2>1 DEF WellFormed
<1> QED BY <1>1, <1>2, <1>3

(* The file that the compressor leaves has the blocks of the original file.   *)
LEMMA WrittenData ==
  ASSUME LzCompressing, cpc = "end", file = Written
  PROVE  /\ Len(D!Data) = Len(original)
         /\ \A i \in 1..Len(original) : D!Data[i] = Payload(i)
<1> DEFINE n == Len(original)
           w == Written
<1>1. LzWritten(n) /\ n \in Nat \ {0}
  BY WrittenFields
<1>2. /\ file \in Seq(Field) /\ Len(file) = 2 * n + 3 /\ Len(file) \in Nat
      /\ file[1] = Header[1] /\ file[2] = Header[2] /\ file[2 * n + 3] = D!EndMark
      /\ \A j \in 1..n : file[2 * j + 1] = SizeWord(j) /\ file[2 * j + 2] = Payload(j)
  BY <1>1 DEF LzWritten
<1> HIDE DEF n, w
<1>3. /\ file[1].t # "data" /\ file[2].t # "data" /\ file[2 * n + 3].t # "data"
      /\ \A j \in 1..n : file[2 * j + 1].t # "data" /\ file[2 * j + 2].t = "data"
  <2>1. Header[1].t # "data" /\ Header[2].t # "data" /\ D!EndMark.t # "data"
    BY DEF Header, D!EndMark
  <2>2. \A j : SizeWord(j).t # "data" /\ Payload(j).t = "data"
    BY DEF SizeWord, Payload
  <2> QED BY <1>2, <2>1, <2>2
<1> DEFINE got(k) == /\ Len(D!DataOf[2 * k + 2]) = k
                     /\ \A i \in 1..k : D!Data[i] = Payload(i)
           S == {k \in Nat : k <= n => got(k)}
<1>4. 0 \in S
  <2>1. D!DataOf[0] = <<>>
    BY <1>2, DataAt
  <2>2. D!DataOf[0 + 1] = D!DataOf[0]
    BY <1>1, <1>2, <1>3, NextField
  <2>3. D!DataOf[1 + 1] = D!DataOf[1]
    BY <1>1, <1>2, <1>3, NextField
  <2>4. Len(D!DataOf[2]) = 0
    BY <2>1, <2>2, <2>3
  <2>5. 2 * 0 + 2 = 2 /\ \A i \in 1..0 : FALSE
    OBVIOUS
  <2> QED BY <2>4, <2>5
<1>5. ASSUME NEW k \in S PROVE k + 1 \in S
  <2> SUFFICES ASSUME k + 1 <= n PROVE got(k + 1)
    OBVIOUS
  <2>1. k \in Nat /\ k + 1 \in 1..n /\ got(k)
    BY <1>1
  <2> DEFINE m == 2 * k + 2
  <2>2. /\ m \in Nat /\ m + 1 \in Nat /\ m + 1 = 2 * (k + 1) + 1
        /\ (m + 1) + 1 = 2 * (k + 1) + 2 /\ m + 1 < Len(file) /\ m < Len(file)
    BY <1>1, <1>2, <2>1
  <2> HIDE DEF S
  <2>3. Len(D!DataOf[m]) = k /\ \A i \in 1..k : D!Data[i] = Payload(i)
    BY <2>1
  <2> HIDE DEF m
  <2>4. file[m + 1].t # "data" /\ file[(m + 1) + 1].t = "data" /\ file[(m + 1) + 1] = Payload(k + 1)
    BY <1>2, <1>3, <2>1, <2>2
  <2>5. D!DataOf[m + 1] = D!DataOf[m]
    BY <1>2, <2>2, <2>4, NextField
  <2>6. /\ Len(D!DataOf[(m + 1) + 1]) = Len(D!DataOf[m + 1]) + 1
        /\ D!Data[Len(D!DataOf[m + 1]) + 1] = file[(m + 1) + 1]
    BY <1>2, <2>2, <2>4, NextField
  <2>7. Len(D!DataOf[2 * (k + 1) + 2]) = k + 1 /\ D!Data[k + 1] = Payload(k + 1)
    BY <2>2, <2>3, <2>4, <2>5, <2>6
  <2>8. \A i \in 1..(k + 1) : i = k + 1 \/ i \in 1..k
    BY <2>1
  <2> QED BY <2>3, <2>7, <2>8
<1>6. S = Nat
  <2> HIDE DEF S
  <2>1. S \subseteq Nat
    BY DEF S
  <2> QED BY <1>4, <1>5, <2>1, Induction
<1>7. got(n)
  <2>1. n \in S /\ n \in Nat
    BY <1>1, <1>6
  <2> HIDE DEF got
  <2> QED BY <2>1
<1>8. D!Data = D!DataOf[2 * n + 2]
  <2>1. D!DataOf[(2 * n + 2) + 1] = D!DataOf[2 * n + 2]
    <3>1. 2 * n + 2 \in Nat /\ (2 * n + 2) + 1 = 2 * n + 3 /\ 2 * n + 2 < Len(file)
      BY <1>1, <1>2
    <3> QED BY <1>2, <1>3, <3>1, NextField
  <2>2. (2 * n + 2) + 1 = Len(file)
    BY <1>1, <1>2
  <2> QED BY <2>1, <2>2 DEF D!Data
<1> QED BY <1>7, <1>8 DEF n

(***************************************************************************)
(* The content of the original file                                          *)
(***************************************************************************)
UnitsOfBlock(k) == [j \in 1..original[k].size |-> <<k, j>>]
UnitBlocks == [k \in 1..Len(original) |-> UnitsOfBlock(k)]

LEMMA OriginalFlat ==
  ASSUME LzTypes
  PROVE  /\ Len(original) \in Nat \ {0} /\ OriginalContent = Flat(UnitBlocks)[Len(original)]
         /\ \A k \in 1..Len(original) :
              /\ UnitsOfBlock(k) \in Seq(Unit)
              /\ Flat(UnitBlocks)[k] =
                   IF k = 1 THEN UnitsOfBlock(1)
                   ELSE Flat(UnitBlocks)[k - 1] \o UnitsOfBlock(k)
<1> DEFINE n == Len(original)
           f == Flat(UnitBlocks)
<1>1. n \in Nat \ {0} /\ Len(UnitBlocks) = n
  BY DEF LzTypes, UnitBlocks
<1>2. OriginalContent = f[n]
  <2>1. OriginalContent = FlattenSeq(UnitBlocks)
    BY DEF OriginalContent, UnitBlocks, UnitsOfBlock
  <2> QED BY <1>1, <2>1, FlattenIsFlat
<1>3. ASSUME NEW k \in 1..n PROVE UnitsOfBlock(k) \in Seq(Unit)
  <2>1. original[k] \in Piece
    BY <1>3 DEF LzTypes
  <2>2. original[k].size \in Nat /\ k \in Nat
    BY <2>1, BlockBytesType DEF Piece
  <2> QED BY <2>2, UnitsOf DEF UnitsOfBlock
<1>4. f = [i \in 1..Len(UnitBlocks) |-> IF i = 1 THEN UnitBlocks[i] ELSE f[i - 1] \o UnitBlocks[i]]
  BY <1>1, FlatExists
<1>5. \A k \in 1..n : UnitBlocks[k] = UnitsOfBlock(k)
  BY DEF UnitBlocks
<1> HIDE DEF f
<1>6. \A k \in 1..n : f[k] = IF k = 1 THEN UnitsOfBlock(1) ELSE f[k - 1] \o UnitsOfBlock(k)
  BY <1>1, <1>4, <1>5
<1> QED BY <1>1, <1>2, <1>3, <1>6 DEF f

LEMMA OriginalTypes ==
  ASSUME LzTypes
  PROVE  OriginalContent \in Seq(Unit)
<1> DEFINE n == Len(original)
           S == {k \in Nat : k + 1 <= n => Flat(UnitBlocks)[k + 1] \in Seq(Unit)}
<1>1. n \in Nat \ {0}
  BY OriginalFlat
<1>2. 0 \in S
  <2>1. Flat(UnitBlocks)[1] \in Seq(Unit)
    BY <1>1, OriginalFlat
  <2> QED BY <2>1
<1>3. ASSUME NEW k \in S PROVE k + 1 \in S
  <2> SUFFICES ASSUME (k + 1) + 1 <= n PROVE Flat(UnitBlocks)[(k + 1) + 1] \in Seq(Unit)
    OBVIOUS
  <2>1. /\ k + 1 \in Nat /\ (k + 1) + 1 \in 1..n /\ (k + 1) + 1 # 1
        /\ ((k + 1) + 1) - 1 = k + 1 /\ k + 1 <= n
    BY <1>1
  <2>2. Flat(UnitBlocks)[k + 1] \in Seq(Unit)
    BY <2>1
  <2> HIDE DEF S
  <2>3. /\ UnitsOfBlock((k + 1) + 1) \in Seq(Unit)
        /\ Flat(UnitBlocks)[(k + 1) + 1] = Flat(UnitBlocks)[k + 1] \o UnitsOfBlock((k + 1) + 1)
    BY <2>1, OriginalFlat
  <2> QED BY <2>2, <2>3, ConcatProperties
<1>4. S = Nat
  <2> HIDE DEF S
  <2>1. S \subseteq Nat
    BY DEF S
  <2> QED BY <1>2, <1>3, <2>1, Induction
<1> HIDE DEF S
<1>5. n - 1 \in S /\ (n - 1) + 1 = n /\ n <= n
  BY <1>1, <1>4
<1>6. Flat(UnitBlocks)[n] \in Seq(Unit)
  <2>1. (n - 1) + 1 <= n => Flat(UnitBlocks)[(n - 1) + 1] \in Seq(Unit)
    BY <1>5 DEF S
  <2> QED BY <1>5, <2>1
<1> QED BY <1>6, OriginalFlat

LEMMA WrittenReadable ==
  ASSUME LzCompressing, cpc = "end", file = Written, AllSmaller
  PROVE  D!Readable
<1> DEFINE n == Len(original)
<1>1. /\ LzWritten(n) /\ n \in Nat \ {0} /\ Len(framed) = n /\ LzTypes /\ C!FramedInOrder
  BY WrittenFields DEF LzCompressing
<1>2. /\ Len(file) = 2 * n + 3 /\ file[2 * n + 3] = D!EndMark
      /\ \A j \in 1..n : file[2 * j + 2] = Payload(j)
  BY <1>1 DEF LzWritten
<1>3. ASSUME NEW i \in 1..Len(file), file[i].t = "descriptor" PROVE ~file[i].contentSize
  BY <1>3, WrittenKinds
<1>4. ASSUME NEW i \in 1..Len(D!Data) PROVE ~D!Data[i].raw
  <2>1. i \in 1..n /\ D!Data[i] = Payload(i)
    BY <1>4, WrittenData
  <2>2. framed[i].word.raw <=> ~C!Smaller(i)
    BY <1>1, <2>1 DEF C!FramedInOrder
  <2>3. C!Smaller(i)
    BY <2>1 DEF AllSmaller
  <2>4. Payload(i).raw = framed[i].word.raw
    BY DEF Payload
  <2> QED BY <2>1, <2>2, <2>3, <2>4
<1>5. ASSUME NEW i \in 1..Len(file), file[i].t = "data", file[i].short
      PROVE  file[i + 1] = D!EndMark
  <2>1. PICK j \in 1..n : i = 2 * j + 2
    BY <1>5, WrittenKinds
  <2>2. file[i] = Payload(j)
    BY <1>2, <2>1
  <2>3. Payload(j).short = (original[j].size < BlockBytes)
    BY DEF Payload
  <2>4. original[j].size < BlockBytes
    BY <1>5, <2>2, <2>3
  <2>5. j < n => original[j].size = BlockBytes
    BY <1>1, <2>1 DEF LzTypes
  <2>6. j = n
    BY <1>1, <2>1, <2>4, <2>5, BlockBytesType
  <2>7. i + 1 = 2 * n + 3
    BY <1>1, <2>1, <2>6
  <2> QED BY <1>2, <2>7
<1> QED BY <1>3, <1>4, <1>5 DEF D!Readable

LEMMA WrittenContent ==
  ASSUME LzCompressing, cpc = "end", file = Written, file \in Seq(Field)
  PROVE  D!Content = OriginalContent
<1> DEFINE n == Len(original)
           S == {k \in Nat : k + 1 <= n => D!ContentOf[k + 1] = Flat(UnitBlocks)[k + 1]}
<1>1. n \in Nat \ {0} /\ Len(framed) = n /\ LzTypes /\ C!FramedInOrder /\ Len(D!Data) = n
  BY WrittenFields, WrittenData DEF LzCompressing
<1>2. ASSUME NEW k \in 1..n
      PROVE  [j \in 1..D!Data[k].units |-> <<D!Data[k].k, j>>] = UnitsOfBlock(k)
  <2>1. D!Data[k] = Payload(k)
    BY WrittenData
  <2>2. Payload(k).units = original[k].size /\ Payload(k).k = framed[k].data
    BY DEF Payload
  <2>3. framed[k].data = k
    BY <1>1 DEF C!FramedInOrder
  <2>4. D!Data[k].units = original[k].size /\ D!Data[k].k = k
    BY <2>1, <2>2, <2>3
  <2> QED BY <2>4 DEF UnitsOfBlock
<1>3. \A k \in 0..(n - 1) : D!ContentOf[k + 1] = D!ContentOf[k] \o UnitsOfBlock(k + 1)
  <2> SUFFICES ASSUME NEW k \in 0..(n - 1)
               PROVE  D!ContentOf[k + 1] = D!ContentOf[k] \o UnitsOfBlock(k + 1)
    OBVIOUS
  <2>1. k + 1 \in 1..n /\ k \in 0..(Len(D!Data) - 1)
    BY <1>1
  <2>2. D!ContentOf[k + 1] =
          D!ContentOf[k] \o [j \in 1..D!Data[k + 1].units |-> <<D!Data[k + 1].k, j>>]
    BY <2>1, ContentAt
  <2>3. [j \in 1..D!Data[k + 1].units |-> <<D!Data[k + 1].k, j>>] = UnitsOfBlock(k + 1)
    BY <1>2, <2>1
  <2> QED BY <2>2, <2>3
<1>4. 0 \in S
  <2>1. 1 \in 1..n /\ 0 \in 0..(n - 1) /\ 0 + 1 = 1
    BY <1>1
  <2>2. D!ContentOf[1] = D!ContentOf[0] \o UnitsOfBlock(1)
    BY <1>3, <2>1
  <2>3. D!ContentOf[0] = <<>>
    BY ContentAt
  <2>4. UnitsOfBlock(1) \in Seq(Unit) /\ Flat(UnitBlocks)[1] = UnitsOfBlock(1)
    BY <1>1, <2>1, OriginalFlat
  <2>5. <<>> \o UnitsOfBlock(1) = UnitsOfBlock(1)
    BY <2>4
  <2>6. D!ContentOf[1] = Flat(UnitBlocks)[1]
    BY <2>2, <2>3, <2>4, <2>5
  <2> QED BY <2>6
<1>5. ASSUME NEW k \in S PROVE k + 1 \in S
  <2> SUFFICES ASSUME (k + 1) + 1 <= n
               PROVE  D!ContentOf[(k + 1) + 1] = Flat(UnitBlocks)[(k + 1) + 1]
    OBVIOUS
  <2>1. /\ k + 1 \in 0..(n - 1) /\ (k + 1) + 1 \in 1..n /\ (k + 1) + 1 # 1
        /\ ((k + 1) + 1) - 1 = k + 1 /\ k + 1 <= n
    BY <1>1
  <2>2. D!ContentOf[k + 1] = Flat(UnitBlocks)[k + 1]
    BY <2>1
  <2> HIDE DEF S
  <2>3. D!ContentOf[(k + 1) + 1] = D!ContentOf[k + 1] \o UnitsOfBlock((k + 1) + 1)
    BY <1>3, <2>1
  <2>4. Flat(UnitBlocks)[(k + 1) + 1] = Flat(UnitBlocks)[k + 1] \o UnitsOfBlock((k + 1) + 1)
    BY <1>1, <2>1, OriginalFlat
  <2> QED BY <2>2, <2>3, <2>4
<1>6. S = Nat
  <2> HIDE DEF S
  <2>1. S \subseteq Nat
    BY DEF S
  <2> QED BY <1>4, <1>5, <2>1, Induction
<1> HIDE DEF S
<1>7. n - 1 \in S /\ (n - 1) + 1 = n /\ n <= n
  BY <1>1, <1>6
<1>8. D!ContentOf[n] = Flat(UnitBlocks)[n]
  <2>1. (n - 1) + 1 <= n => D!ContentOf[(n - 1) + 1] = Flat(UnitBlocks)[(n - 1) + 1]
    BY <1>7 DEF S
  <2> QED BY <1>7, <2>1
<1> QED BY <1>1, <1>8, OriginalFlat DEF D!Content

(***************************************************************************)
(* The invariant of LZ4's sessions, and what follows                         *)
(***************************************************************************)
LEMMA LzInvInit ==
  ASSUME Lz4Init
  PROVE  LzInv
<1>1. D!Start
  BY DEF Lz4Init
<1>2. CASE C!Init /\ file = <<>>
  <2>1. LzCompressing /\ cpc # "end"
    BY <1>2, LzInit
  <2>2. ~Foreign
    BY <2>1 DEF LzCompressing, LzTypes, Foreign
  <2> QED BY <1>1, <1>2, <2>1, <2>2 DEF LzInv
<1>3. CASE Foreign /\ cpc = "end" /\ C!Start /\ file \in Files
  BY <1>1, <1>3 DEF LzInv, C!Start
<1> QED BY <1>2, <1>3 DEF Lz4Init

LEMMA LzInvStep ==
  ASSUME LzInv, [Lz4Next]_lz4Vars
  PROVE  LzInv'
<1>1. CASE Lz4Compress3
  <2>1. cpc # "end" /\ C!Next /\ UNCHANGED dvars
    BY <1>1 DEF Lz4Compress3
  <2>2. ~Foreign /\ LzCompressing /\ file = <<>> /\ D!Start
    BY <2>1 DEF LzInv
  <2>3. LzCompressing'
    BY <2>1, <2>2, LzPop, LzCompress, LzEmit DEF C!Next, C!Done
  <2>4. ~Foreign'
    BY <2>3 DEF LzCompressing, LzTypes, Foreign
  <2>5. file' = IF cpc' = "end" THEN Written' ELSE <<>>
    BY <1>1, <2>2 DEF Lz4Compress3
  <2>6. D!Start'
    BY <2>1, <2>2 DEF D!Start, dvars
  <2> QED BY <2>3, <2>4, <2>5, <2>6 DEF LzInv
<1>2. CASE Lz4Decompress3
  <2>1. cpc = "end" /\ D!Step /\ UNCHANGED cvars
    BY <1>2 DEF Lz4Decompress3
  <2>2. WellFormed(file)
    BY LzFile
  <2>3. LzDecompressing
    BY <2>2, LzBegin DEF LzInv
  <2>4. LzDecompressing' /\ file' = file
    BY <2>1, <2>2, <2>3, LzStep
  <2>5. Foreign' = Foreign /\ cpc' = cpc /\ framed' = framed
    BY <2>1 DEF cvars, Foreign
  <2>6. Written' = Written
    BY <2>1 DEF cvars, Written, Tokens
  <2>7. LzCompressing' = LzCompressing
    BY <2>1 DEF cvars, LzCompressing, LzTypes, LzProgress, LzBuffered, LzCompressed, LzBase,
                C!FramedInOrder, C!Smaller
  <2> QED BY <2>1, <2>4, <2>5, <2>6, <2>7 DEF LzInv
<1>3. CASE Lz4Done \/ UNCHANGED lz4Vars
  <2>1. UNCHANGED lz4Vars
    BY <1>3 DEF Lz4Done, D!Stopped, D!vars, D!loop, lz4Vars, dvars
  <2>2. /\ UNCHANGED cvars /\ file' = file /\ UNCHANGED dvars
    BY <2>1 DEF lz4Vars
  <2>3. Foreign' = Foreign /\ cpc' = cpc /\ framed' = framed
    BY <2>2 DEF cvars, Foreign
  <2>4. Written' = Written
    BY <2>2 DEF cvars, Written, Tokens
  <2>5. LzCompressing' = LzCompressing
    BY <2>2 DEF cvars, LzCompressing, LzTypes, LzProgress, LzBuffered, LzCompressed, LzBase,
                C!FramedInOrder, C!Smaller
  <2>6. D!Start' = D!Start
    BY <2>2 DEF D!Start, dvars
  <2>7. LzDecompressing' = LzDecompressing
    <3>1. /\ D!DataOf' = D!DataOf /\ D!Data' = D!Data /\ D!ContentOf' = D!ContentOf
          /\ D!Content' = D!Content /\ D!Readable' = D!Readable
      BY <2>2, SameFile
    <3>2. /\ LzState' = LzState /\ LzFrame' = LzFrame /\ LzRoom' = LzRoom /\ LzSums' = LzSums
      BY <2>2 DEF dvars, LzState, LzFrame, LzRoom, LzSums, D!Full, D!maxNumBlocks, D!word
    <3>3. LzFirst' = LzFirst /\ \A n : LzRestored(n)' = LzRestored(n)
      BY <2>2, <3>1 DEF dvars, LzFirst, LzRestored
    <3>4. LzShort' = LzShort
      BY <2>2, <3>1, <3>3 DEF dvars, LzShort, LzEndFollows, D!word
    <3>5. LzFull' = LzFull /\ LzCollected' = LzCollected /\ LzResults' = LzResults
      BY <2>2, <3>1, <3>3 DEF dvars, LzFull, LzSized, LzCollected, LzResults
    <3>6. LzReading' = LzReading
      BY <2>2, <3>1, <3>3, <3>4, <3>5 DEF dvars, LzReading, LzGathering, LzEmitting, LzBetween,
                                          LzRestored
    <3> QED BY <3>1, <3>2, <3>6 DEF LzDecompressing
  <2> QED BY <2>2, <2>3, <2>4, <2>5, <2>6, <2>7 DEF LzInv
<1> QED BY <1>1, <1>2, <1>3 DEF Lz4Next

LEMMA LzInvFramed ==
  ASSUME LzInv
  PROVE  FramedInOrder
BY DEF LzInv, LzCompressing, FramedInOrder, C!FramedInOrder

LEMMA LzInvRoom ==
  ASSUME LzInv
  PROVE  RoomForSizeWord
<1>1. WellFormed(file) /\ LzDecompressing
  BY LzFile, LzBegin DEF LzInv
<1> SUFFICES ASSUME pc \in {"word", "block"} PROVE bufferTotalBlock < D!maxNumBlocks
  BY DEF RoomForSizeWord, D!RoomForSizeWord
<1>2. bufferTotalBlock < D!Full /\ bufferTotalBlock \in Nat
  BY <1>1 DEF LzDecompressing, LzRoom, LzState
<1>3. D!maxNumBlocks \in Nat /\ D!Full = D!maxNumBlocks - 1
  BY <1>1, LzSizes DEF LzDecompressing, InFrame
<1> QED BY <1>2, <1>3

LEMMA PrefixOfMore ==
  ASSUME NEW S, NEW a, NEW c \in Seq(S), NEW x, D!IsPrefixOf(a, c), Len(a) \in Nat
  PROVE  D!IsPrefixOf(a, Append(c, x))
<1>1. Len(Append(c, x)) = Len(c) + 1 /\ \A i \in 1..Len(c) : Append(c, x)[i] = c[i]
  OBVIOUS
<1>2. Len(c) \in Nat
  OBVIOUS
<1> QED BY <1>1, <1>2 DEF D!IsPrefixOf

(* In a file that can be read some blocks are out, or all and the last byte.   *)
LEMMA ReadInOrder ==
  ASSUME WellFormed(file), LzDecompressing, D!Readable
  PROVE  D!IsPrefixOf(restored, Append(D!Content, D!Terminator))
<1>1. file \in Seq(Field) /\ LzReading
  BY DEF WellFormed, LzDecompressing
<1>2. D!Content \in Seq(Unit)
  <2>1. Len(D!Data) \in 0..Len(D!Data)
    BY <1>1, BlockTypes
  <2> QED BY <1>1, <2>1, ContentTypes DEF D!Content
<1>3. (\E n : LzRestored(n)) \/ restored = Append(D!Content, D!Terminator)
  <2>1. pc \in InFrame \cup {"magic", "descriptor", "frame_end", "end", "exit", "lost"}
    BY DEF LzDecompressing, LzState
  <2> QED BY <1>1, <2>1 DEF LzReading, LzGathering, LzEmitting, LzBetween, InFrame
<1>4. ASSUME NEW n, LzRestored(n)
      PROVE  D!IsPrefixOf(restored, Append(D!Content, D!Terminator))
  <2>1. n \in 0..Len(D!Data) /\ restored = D!ContentOf[n]
    BY <1>4 DEF LzRestored
  <2>2. D!IsPrefixOf(restored, D!Content)
    BY <1>1, <2>1, ContentGrows
  <2>3. Len(restored) \in Nat
    BY <1>1, <2>1, ContentTypes
  <2> QED BY <1>2, <2>2, <2>3, PrefixOfMore
<1>5. ASSUME restored = Append(D!Content, D!Terminator)
      PROVE  D!IsPrefixOf(restored, Append(D!Content, D!Terminator))
  <2>1. Len(Append(D!Content, D!Terminator)) \in Nat
    BY <1>2
  <2> QED BY <1>5, <2>1 DEF D!IsPrefixOf
<1> QED BY <1>3, <1>4, <1>5

LEMMA LzInvBack ==
  ASSUME LzInv
  PROVE  FileComesBack
<1>1. WellFormed(file) /\ file \in Seq(Field) /\ LzDecompressing
  BY LzFile, LzBegin DEF LzInv
<1>2. D!ContentInOrder
  BY <1>1, ReadInOrder DEF D!ContentInOrder
<1>3. ASSUME ~Foreign, AllSmaller
      PROVE  D!IsPrefixOf(restored, Append(OriginalContent, D!Terminator))
  <2>1. LzCompressing
    BY <1>3 DEF LzInv
  <2>2. CASE cpc = "end"
    <3>1. file = Written
      BY <1>3, <2>2 DEF LzInv
    <3>2. D!Readable /\ D!Content = OriginalContent
      BY <1>1, <1>3, <2>1, <2>2, <3>1, WrittenReadable, WrittenContent
    <3> QED BY <1>1, <3>2, ReadInOrder
  <2>3. CASE cpc # "end"
    <3>1. restored = <<>>
      BY <2>3 DEF LzInv, D!Start
    <3>2. OriginalContent \in Seq(Unit)
      BY <2>1, OriginalTypes DEF LzCompressing
    <3>3. Len(Append(OriginalContent, D!Terminator)) \in Nat /\ Len(<<>>) = 0
      BY <3>2
    <3> QED BY <3>1, <3>3 DEF D!IsPrefixOf
  <2> QED BY <2>2, <2>3
<1> QED BY <1>2, <1>3 DEF FileComesBack

(* The invariant of testLz4's two sessions: where the compressor is, what it   *)
(* has pushed, and what the decompressor has of the file's fields and blocks.   *)
THEOREM LzInvariant == Lz4Spec => []LzInv
<1>1. Lz4Init => LzInv
  BY LzInvInit
<1>2. LzInv /\ [Lz4Next]_lz4Vars => LzInv'
  BY LzInvStep
<1> QED BY <1>1, <1>2, PTL DEF Lz4Spec

(* Of every file, of any length, in buffers of any number of blocks: each       *)
(* block is pushed once, in order, with its own bytes behind a size word that    *)
(* leads a reader to the next one, and only the last push ends the stream.       *)
THEOREM Lz4FramedInOrder == Lz4Spec => []FramedInOrder
<1>1. LzInv => FramedInOrder
  BY LzInvFramed
<1> QED BY <1>1, LzInvariant, PTL

(* The place that the next size word is read into is within the buffer, for     *)
(* every block size of which two blocks fit it and every file.                   *)
THEOREM Lz4RoomForSizeWord == Lz4Spec => []RoomForSizeWord
<1>1. LzInv => RoomForSizeWord
  BY LzInvRoom
<1> QED BY <1>1, LzInvariant, PTL

(* What the decompressor pushes is the content of the file's blocks in order,   *)
(* of every file that the code can read; and that of a file the compressor made  *)
(* is the content of the original file, if the kernel made every block smaller.  *)
THEOREM Lz4FileComesBack == Lz4Spec => []FileComesBack
<1>1. LzInv => FileComesBack
  BY LzInvBack
<1> QED BY <1>1, LzInvariant, PTL

(***************************************************************************)
(* CodecSessions                                                             *)
(***************************************************************************)
USE SessionsAssumption

(* A session that runs: cur is past the last session when all are over. *)
Running == cur \in Ids
Unpublished(s) == handler[s] \in {"none", "construct", "publish"}

(* Sessions not begun have no threads and no items; sessions over have only   *)
(* threads that have been joined.                                             *)
OtherSessions ==
  \A s \in Ids :
    /\ s > cur => /\ handler[s] = "none"
                  /\ input[s] = <<>> /\ output[s] = <<>> /\ ~held[s].last
    /\ s < cur => handler[s] = "joined"

(* How far a workshop's thread is, given how far its processing thread is. *)
ThreadsInStep ==
  \A s \in Ids :
    /\ shop[s] = "unborn" <=> handler[s] \in {"none", "construct"}
    /\ worker[s] = "unborn" <=> handler[s] \in {"none", "construct"}
    /\ worker[s] = "joined" <=> handler[s] \in {"flush", "end", "joined"}

(* What the pointers point to, given how far the threads are. *)
PointersInStep ==
  /\ decompressionWorkshop # Null =>
       /\ Running /\ decompressionWorkshop = cur
       /\ Dir = "decompress"
  /\ compressionWorkShop # Null =>
       /\ compressionWorkShop <= cur
       /\ Sessions[compressionWorkShop] = "compress"
  /\ Running =>
       /\ Workshop = IF Unpublished(cur) \/ (popper = "done" /\ Dir = "decompress")
                       THEN Null ELSE cur
       /\ handler[cur] # "none" /\ pusher # "assign" /\ popper # "done" =>
            processingThread = cur

(* How far the callers are, given how far the threads are. *)
CallersInStep ==
  /\ Running =>
       /\ handler[cur] = "none" <=> pusher = "call" /\ pushed = 0
       /\ pusher = "done" <=> pushed = Chunks
       /\ pusher = "push" => ~Unpublished(cur)
       /\ popper # "spin" => ~Unpublished(cur)
       /\ popper \in {"join", "delete", "clear", "done"} => pusher = "done"
       /\ popper \in {"delete", "clear", "done"} <=> handler[cur] = "joined"
       /\ shop[cur] = "deleted" => popper \in {"clear", "done"}
  /\ ~Running => pusher = "call" /\ pushed = 0 /\ popper = "spin"

(* An item marked last is the last chunk of its session, which has then been  *)
(* pushed; a worker past its loop has seen it.                                *)
LastIsLast ==
  \A s \in Ids :
    /\ \A i \in 1..Len(input[s]) : input[s][i].last =>
         input[s][i].k = Chunks /\ (s = cur => pusher = "done")
    /\ held[s].last => held[s].k = Chunks /\ (s = cur => pusher = "done")
    /\ \A i \in 1..Len(output[s]) : output[s][i].last /\ s = cur => pusher = "done"
    /\ worker[s] \in {"terminate", "checksum", "end", "joined"} => held[s].last
    /\ worker[s] \in {"end", "joined"} /\ kind = "deflate" /\ Sessions[s] = "compress" =>
         checksum[s] = Chunks

IInv == TypeOK /\ OtherSessions /\ ThreadsInStep /\ PointersInStep /\ CallersInStep /\ LastIsLast

LEMMA InitInv == Init => IInv
<1> SUFFICES ASSUME Init PROVE IInv
  OBVIOUS
<1>1. TypeOK
  BY DEF Init, TypeOK, Ids, Item, Null
<1>2. OtherSessions /\ ThreadsInStep
  BY DEF Init, OtherSessions, ThreadsInStep, Ids
<1>3. PointersInStep
  BY DEF Init, PointersInStep, Workshop, Unpublished, Running, Ids, Null
<1>4. CallersInStep
  BY DEF Init, CallersInStep, Unpublished, Running, Ids
<1>5. LastIsLast
  BY DEF Init, LastIsLast, Ids
<1> QED BY <1>1, <1>2, <1>3, <1>4, <1>5 DEF IInv

(* Only the session that runs has a thread at work. *)
LEMMA OnlyCurrent ==
  ASSUME IInv, NEW s \in Ids, handler[s] \notin {"none", "joined"}
  PROVE  s = cur /\ Running
BY DEF IInv, TypeOK, OtherSessions, Running, Ids

LEMMA OnlyCurrentWorks ==
  ASSUME IInv, NEW s \in Ids, worker[s] \notin {"unborn", "joined"}
  PROVE  s = cur /\ Running /\ handler[s] \in {"publish", "wait"}
BY OnlyCurrent DEF IInv, TypeOK, ThreadsInStep

LEMMA StepInv == IInv /\ [Next]_vars => IInv'
<1> SUFFICES ASSUME IInv, [Next]_vars PROVE IInv'
  OBVIOUS
<1> USE DEF pointers, shops, callers
<1>1. ASSUME StartSession PROVE IInv'
  <2>1. TypeOK'
    BY <1>1 DEF IInv, TypeOK, StartSession
  <2>2. OtherSessions'
    BY <1>1 DEF IInv, TypeOK, OtherSessions, StartSession
  <2>3. ThreadsInStep'
    BY <1>1 DEF IInv, TypeOK, ThreadsInStep, CallersInStep, Running, StartSession
  <2>4. PointersInStep'
    BY <1>1 DEF IInv, TypeOK, PointersInStep, CallersInStep, Workshop, Dir, Running, Unpublished, Ids, Null, StartSession
  <2>5. CallersInStep'
    BY <1>1 DEF IInv, TypeOK, CallersInStep, PointersInStep, Workshop, Dir, Running, Unpublished, Ids, Null, StartSession
  <2>6. LastIsLast'
    BY <1>1 DEF IInv, TypeOK, CallersInStep, LastIsLast, StartSession
  <2> QED BY <2>1, <2>2, <2>3, <2>4, <2>5, <2>6 DEF IInv
<1>2. ASSUME AssignThread PROVE IInv'
  <2>1. TypeOK'
    BY <1>2 DEF IInv, TypeOK, CallersInStep, Running, AssignThread
  <2>2. OtherSessions'
    BY <1>2 DEF IInv, TypeOK, OtherSessions, AssignThread
  <2>3. ThreadsInStep'
    BY <1>2 DEF IInv, TypeOK, ThreadsInStep, AssignThread
  <2>4. PointersInStep'
    BY <1>2 DEF IInv, TypeOK, PointersInStep, CallersInStep, Workshop, Dir, Running, Unpublished, Ids, Null, AssignThread
  <2>5. CallersInStep'
    BY <1>2 DEF IInv, TypeOK, CallersInStep, PointersInStep, Workshop, Dir, Running, Unpublished, Ids, Null, AssignThread
  <2>6. LastIsLast'
    BY <1>2 DEF IInv, TypeOK, CallersInStep, LastIsLast, AssignThread
  <2> QED BY <2>1, <2>2, <2>3, <2>4, <2>5, <2>6 DEF IInv
<1>3. ASSUME PushAgain PROVE IInv'
  <2>1. TypeOK'
    BY <1>3 DEF IInv, TypeOK, PushAgain
  <2>2. OtherSessions'
    BY <1>3 DEF IInv, TypeOK, OtherSessions, PushAgain
  <2>3. ThreadsInStep'
    BY <1>3 DEF IInv, TypeOK, ThreadsInStep, PushAgain
  <2>4. PointersInStep'
    BY <1>3 DEF IInv, TypeOK, PointersInStep, CallersInStep, Workshop, Dir, Running, Unpublished, Ids, Null, PushAgain
  <2>5. CallersInStep'
    BY <1>3 DEF IInv, TypeOK, CallersInStep, PointersInStep, Workshop, Dir, Running, Unpublished, Ids, Null, PushAgain
  <2>6. LastIsLast'
    BY SMTT(30), <1>3 DEF IInv, TypeOK, CallersInStep, LastIsLast, PushAgain
  <2> QED BY <2>1, <2>2, <2>3, <2>4, <2>5, <2>6 DEF IInv
<1>4. ASSUME PushSpin PROVE IInv'
  <2>1. TypeOK'
    BY <1>4 DEF IInv, TypeOK, PushSpin
  <2>2. OtherSessions'
    BY <1>4 DEF IInv, TypeOK, OtherSessions, PushSpin
  <2>3. ThreadsInStep'
    BY <1>4 DEF IInv, TypeOK, ThreadsInStep, PushSpin
  <2>4. PointersInStep'
    BY <1>4 DEF IInv, TypeOK, PointersInStep, CallersInStep, Workshop, Dir, Running, Unpublished, Ids, Null, PushSpin
  <2>5. CallersInStep'
    BY <1>4 DEF IInv, TypeOK, CallersInStep, PointersInStep, Workshop, Dir, Running, Unpublished, Ids, Null, PushSpin
  <2>6. LastIsLast'
    BY <1>4 DEF IInv, TypeOK, CallersInStep, LastIsLast, PushSpin
  <2> QED BY <2>1, <2>2, <2>3, <2>4, <2>5, <2>6 DEF IInv
<1>5. ASSUME Push PROVE IInv'
  <2>0. Running /\ Workshop = cur /\ pushed < Chunks
    BY <1>5 DEF IInv, TypeOK, CallersInStep, PointersInStep, Running, Unpublished, Ids, Push
  <2> DEFINE it == [k |-> pushed + 1, last |-> pushed + 1 = Chunks]
  <2>b. it \in Item /\ pushed + 1 \in 1..Chunks
    <3>1. pushed + 1 \in 1..Chunks
      BY <2>0 DEF IInv, TypeOK
    <3>2. (pushed + 1 = Chunks) \in BOOLEAN
      OBVIOUS
    <3> QED BY <3>1, <3>2 DEF Item
  <2>c. /\ input' = [input EXCEPT ![cur] = Append(@, it)]
        /\ pusher' = IF pushed + 1 = Chunks THEN "done" ELSE "call"
    BY <1>5, <2>0 DEF Push
  <2>d. it.last => it.k = Chunks
    OBVIOUS
  <2>e. input[cur] \in Seq(Item) /\ cur \in Ids
    BY <2>0 DEF IInv, TypeOK, Running
  <2>1. TypeOK'
    <3>1. input' \in [Ids -> Seq(Item)]
      BY <2>b, <2>c, <2>e DEF IInv, TypeOK
    <3>2. pushed' \in 0..Chunks
      BY <1>5, <2>b DEF Push
    <3>3. pusher' \in {"call", "done"}
      BY <2>c
    <3> HIDE DEF it
    <3> QED BY <1>5, <3>1, <3>2, <3>3 DEF IInv, TypeOK, Push
  <2>2. OtherSessions'
    BY SMTT(30), <1>5, <2>0, <2>c, <2>e DEF IInv, TypeOK, OtherSessions, Running, Push
  <2>3. ThreadsInStep'
    BY <1>5 DEF IInv, TypeOK, ThreadsInStep, Push
  <2>4. PointersInStep'
    BY <1>5 DEF IInv, TypeOK, PointersInStep, CallersInStep, Workshop, Dir, Running, Unpublished, Ids, Null, Push
  <2>5. CallersInStep'
    BY <1>5 DEF IInv, TypeOK, CallersInStep, PointersInStep, Workshop, Dir, Running, Unpublished, Ids, Null, Push
  <2>6. LastIsLast'
    <3>1. ASSUME NEW s \in Ids, NEW i \in 1..Len(input'[s]), input'[s][i].last
          PROVE  input'[s][i].k = Chunks /\ (s = cur => pusher' = "done")
      <4>1. CASE s = cur /\ i = Len(input[cur]) + 1
        BY <2>b, <2>c, <2>d, <2>e, <3>1, <4>1
      <4>2. CASE ~(s = cur /\ i = Len(input[cur]) + 1)
        <5>1. i \in 1..Len(input[s]) /\ input'[s][i] = input[s][i]
          BY SMTT(30), <2>c, <2>e, <3>1, <4>2 DEF IInv, TypeOK
        <5> QED BY <1>5, <3>1, <5>1 DEF IInv, LastIsLast, CallersInStep, Push
      <4> QED BY <4>1, <4>2
    <3>2. pusher # "done"
      BY <1>5 DEF Push
    <3>3. UNCHANGED <<kind, cur, output, checksum, worker, held>>
      BY <1>5 DEF Push
    <3> QED BY <3>1, <3>2, <3>3 DEF IInv, LastIsLast
  <2> QED BY <2>1, <2>2, <2>3, <2>4, <2>5, <2>6 DEF IInv
<1>6. ASSUME PopSpin PROVE IInv'
  <2>1. TypeOK'
    BY <1>6 DEF IInv, TypeOK, PopSpin
  <2>2. OtherSessions'
    BY <1>6 DEF IInv, TypeOK, OtherSessions, PopSpin
  <2>3. ThreadsInStep'
    BY <1>6 DEF IInv, TypeOK, ThreadsInStep, PopSpin
  <2>4. PointersInStep'
    BY <1>6 DEF IInv, TypeOK, PointersInStep, CallersInStep, Workshop, Dir, Running, Unpublished, Ids, Null, PopSpin
  <2>5. CallersInStep'
    BY <1>6 DEF IInv, TypeOK, CallersInStep, PointersInStep, Workshop, Dir, Running, Unpublished, Ids, Null, PopSpin
  <2>6. LastIsLast'
    BY <1>6 DEF IInv, TypeOK, CallersInStep, LastIsLast, PopSpin
  <2> QED BY <2>1, <2>2, <2>3, <2>4, <2>5, <2>6 DEF IInv
<1>7. ASSUME Pop PROVE IInv'
  <2>0. Running /\ Workshop = cur /\ output[cur] # <<>> /\ output[cur] \in Seq(Item)
    BY <1>7 DEF IInv, TypeOK, CallersInStep, PointersInStep, Running, Unpublished, Ids, Pop
  <2> DEFINE it == Head(output[cur])
  <2>a. it \in Item /\ it = output[cur][1] /\ WithoutDummy(it) \in Seq(0..(Chunks + 1))
    <3>1. it \in Item /\ it = output[cur][1]
      BY <2>0
    <3>2. it.k \in 0..(Chunks + 1)
      BY <3>1 DEF Item
    <3> HIDE DEF it
    <3>3. <<>> \in Seq(0..(Chunks + 1)) /\ <<it.k>> \in Seq(0..(Chunks + 1))
      BY <3>2
    <3> QED BY <3>1, <3>3 DEF WithoutDummy
  <2>b. /\ output' = [output EXCEPT ![cur] = Tail(@)]
        /\ received' = [received EXCEPT ![cur] = @ \o WithoutDummy(it)]
        /\ popper' = IF it.last THEN "join" ELSE "spin"
    BY <1>7, <2>0 DEF Pop
  <2>c. it.last => pusher = "done"
    BY <2>0, <2>a DEF IInv, LastIsLast, Running
  <2>1. TypeOK'
    <3>1. output' \in [Ids -> Seq(Item)]
      BY <2>0, <2>b DEF IInv, TypeOK, Running
    <3>2. received' \in [Ids -> Seq(0..(Chunks + 1))]
      BY <2>0, <2>a, <2>b DEF IInv, TypeOK, Running
    <3> QED BY <1>7, <3>1, <3>2 DEF IInv, TypeOK, Pop
  <2>2. OtherSessions'
    BY <1>7 DEF IInv, TypeOK, OtherSessions, Pop
  <2>3. ThreadsInStep'
    BY <1>7 DEF IInv, TypeOK, ThreadsInStep, Pop
  <2>4. PointersInStep'
    BY <1>7 DEF IInv, TypeOK, PointersInStep, CallersInStep, Workshop, Dir, Running, Unpublished, Ids, Null, Pop
  <2>5. CallersInStep'
    BY <1>7, <2>0, <2>b, <2>c DEF IInv, TypeOK, CallersInStep, Running, Unpublished, Pop
  <2>6. LastIsLast'
    <3>1. ASSUME NEW s \in Ids, NEW i \in 1..Len(output'[s]), output'[s][i].last, s = cur
          PROVE  pusher = "done"
      <4>1. i + 1 \in 1..Len(output[cur]) /\ output'[s][i] = output[cur][i + 1]
        BY <2>0, <2>b, <3>1 DEF IInv, TypeOK, Running
      <4> QED BY <2>0, <3>1, <4>1 DEF IInv, LastIsLast, Running
    <3> QED BY <1>7, <3>1 DEF IInv, TypeOK, LastIsLast, Pop
  <2> QED BY <2>1, <2>2, <2>3, <2>4, <2>5, <2>6 DEF IInv
<1>8. ASSUME Join PROVE IInv'
  <2>1. TypeOK'
    BY <1>8 DEF IInv, TypeOK, Join
  <2>2. OtherSessions'
    BY <1>8 DEF IInv, TypeOK, OtherSessions, Join
  <2>3. ThreadsInStep'
    BY <1>8 DEF IInv, TypeOK, ThreadsInStep, Join
  <2>4. PointersInStep'
    BY <1>8 DEF IInv, TypeOK, PointersInStep, CallersInStep, Workshop, Dir, Running, Unpublished, Ids, Null, Join
  <2>5. CallersInStep'
    BY <1>8 DEF IInv, TypeOK, CallersInStep, PointersInStep, Workshop, Dir, Running, Unpublished, Ids, Null, Join
  <2>6. LastIsLast'
    BY <1>8 DEF IInv, TypeOK, CallersInStep, LastIsLast, Join
  <2> QED BY <2>1, <2>2, <2>3, <2>4, <2>5, <2>6 DEF IInv
<1>9. ASSUME DeleteWorkshop PROVE IInv'
  <2>0. /\ Running /\ handler[cur] = "joined"
        /\ decompressionWorkshop \in {Null, cur} /\ Null \notin Ids
    BY <1>9 DEF IInv, CallersInStep, PointersInStep, Running, Null, Ids, DeleteWorkshop
  <2>1. TypeOK'
    BY <1>9 DEF IInv, TypeOK, DeleteWorkshop
  <2>2. OtherSessions'
    BY <1>9, <2>0 DEF IInv, TypeOK, OtherSessions, Running, DeleteWorkshop
  <2>3. ThreadsInStep'
    BY <1>9, <2>0 DEF IInv, TypeOK, ThreadsInStep, Running, DeleteWorkshop
  <2>4. PointersInStep'
    BY <1>9 DEF IInv, TypeOK, PointersInStep, CallersInStep, Workshop, Dir, Running, Unpublished, Ids, Null, DeleteWorkshop
  <2>5. CallersInStep'
    BY <1>9 DEF IInv, TypeOK, CallersInStep, PointersInStep, Workshop, Dir, Running, Unpublished, Ids, Null, DeleteWorkshop
  <2>6. LastIsLast'
    BY <1>9 DEF IInv, TypeOK, CallersInStep, LastIsLast, DeleteWorkshop
  <2> QED BY <2>1, <2>2, <2>3, <2>4, <2>5, <2>6 DEF IInv
<1>10. ASSUME ClearPointers PROVE IInv'
  <2>1. TypeOK'
    BY <1>10 DEF IInv, TypeOK, ClearPointers
  <2>2. OtherSessions'
    BY <1>10 DEF IInv, TypeOK, OtherSessions, ClearPointers
  <2>3. ThreadsInStep'
    BY <1>10 DEF IInv, TypeOK, ThreadsInStep, ClearPointers
  <2>4. PointersInStep'
    BY <1>10 DEF IInv, TypeOK, PointersInStep, CallersInStep, Workshop, Dir, Running, Unpublished, Ids, Null, ClearPointers
  <2>5. CallersInStep'
    BY <1>10 DEF IInv, TypeOK, CallersInStep, PointersInStep, Workshop, Dir, Running, Unpublished, Ids, Null, ClearPointers
  <2>6. LastIsLast'
    BY <1>10 DEF IInv, TypeOK, CallersInStep, LastIsLast, ClearPointers
  <2> QED BY <2>1, <2>2, <2>3, <2>4, <2>5, <2>6 DEF IInv
<1>11. ASSUME NextSession PROVE IInv'
  <2>0. /\ Running /\ handler[cur] = "joined" /\ cur \in Int
        /\ cur + 1 \in 1..(Len(Sessions) + 1)
        /\ cur + 1 \in Ids => handler[cur + 1] = "none"
    BY <1>11 DEF IInv, TypeOK, CallersInStep, OtherSessions, Running, Ids, NextSession
  <2>1. TypeOK'
    <3>1. cur' \in 1..(Len(Sessions) + 1) /\ pushed' \in 0..Chunks
      BY <1>11, <2>0 DEF NextSession
    <3> QED BY <1>11, <3>1 DEF IInv, TypeOK, NextSession
  <2>2. OtherSessions'
    BY <1>11, <2>0 DEF IInv, TypeOK, OtherSessions, Ids, NextSession
  <2>3. ThreadsInStep'
    BY <1>11 DEF IInv, TypeOK, ThreadsInStep, NextSession
  <2>4. PointersInStep'
    <3>1. decompressionWorkshop = Null
      BY <1>11, <2>0 DEF IInv, PointersInStep, Workshop, Dir, Unpublished, Running, Null, NextSession
    <3>2. compressionWorkShop # Null =>
            /\ compressionWorkShop \in Ids /\ compressionWorkShop < cur + 1
            /\ Sessions[compressionWorkShop] = "compress"
      BY <2>0 DEF IInv, TypeOK, PointersInStep, Ids
    <3>3. cur + 1 \in Ids /\ Sessions[cur + 1] = "compress" => compressionWorkShop = Null
      BY <2>0, <3>2 DEF Ids
    <3>4. cur + 1 \in Ids => Sessions[cur + 1] \in {"compress", "decompress"}
      BY DEF Ids
    <3>5. /\ cur' = cur + 1 /\ pusher' = "call" /\ pushed' = 0 /\ popper' = "spin"
          /\ UNCHANGED <<compressionWorkShop, decompressionWorkshop, processingThread, handler>>
      BY <1>11 DEF NextSession
    <3>6. cur + 1 \in Ids =>
            (IF Sessions[cur + 1] = "compress" THEN compressionWorkShop ELSE decompressionWorkshop) = Null
      BY <3>1, <3>3
    <3>7. compressionWorkShop # Null => compressionWorkShop <= cur + 1
      BY <2>0, <3>2 DEF Ids
    <3> QED
      BY <2>0, <3>1, <3>2, <3>5, <3>6, <3>7
      DEF PointersInStep, Workshop, Dir, Unpublished, Running
  <2>5. CallersInStep'
    <3>1. cur + 1 \in Ids => shop[cur + 1] = "unborn"
      BY <2>0 DEF IInv, ThreadsInStep
    <3> QED BY <1>11, <2>0, <3>1 DEF CallersInStep, Unpublished, Running, NextSession
  <2>6. LastIsLast'
    <3>1. cur + 1 \in Ids => input[cur + 1] = <<>> /\ output[cur + 1] = <<>> /\ ~held[cur + 1].last
      BY <2>0 DEF IInv, OtherSessions
    <3>2. cur' = cur + 1 /\ UNCHANGED <<kind, input, output, checksum, worker, held>>
      BY <1>11 DEF NextSession
    <3>3. ASSUME NEW s \in Ids, s = cur + 1
          PROVE  /\ \A i \in 1..Len(input[s]) : ~input[s][i].last
                 /\ \A i \in 1..Len(output[s]) : ~output[s][i].last
                 /\ ~held[s].last
      BY <3>1, <3>3
    <3> QED BY <3>2, <3>3 DEF IInv, LastIsLast
  <2> QED BY <2>1, <2>2, <2>3, <2>4, <2>5, <2>6 DEF IInv
<1>12. ASSUME NEW s \in Ids, Construct(s) PROVE IInv'
  <2>0. s = cur /\ Running
    BY <1>12, OnlyCurrent DEF Construct
  <2>1. TypeOK'
    BY SMTT(30), <1>12, <2>0 DEF IInv, TypeOK, Construct
  <2>2. OtherSessions'
    BY <1>12, <2>0 DEF IInv, TypeOK, OtherSessions, Construct
  <2>3. ThreadsInStep'
    BY <1>12, <2>0 DEF IInv, TypeOK, ThreadsInStep, Construct
  <2>4. PointersInStep'
    BY <1>12, <2>0 DEF IInv, TypeOK, PointersInStep, CallersInStep, Workshop, Dir, Running, Unpublished, Ids, Null, Construct
  <2>5. CallersInStep'
    BY <1>12, <2>0 DEF IInv, TypeOK, CallersInStep, PointersInStep, Workshop, Dir, Running, Unpublished, Ids, Null, Construct
  <2>6. LastIsLast'
    BY SMTT(30), <1>12, <2>0 DEF IInv, TypeOK, CallersInStep, LastIsLast, Construct
  <2> QED BY <2>1, <2>2, <2>3, <2>4, <2>5, <2>6 DEF IInv
<1>13. ASSUME NEW s \in Ids, Publish(s) PROVE IInv'
  <2>0. s = cur /\ Running
    BY <1>13, OnlyCurrent DEF Publish
  <2>1. TypeOK'
    BY <1>13, <2>0 DEF IInv, TypeOK, Publish
  <2>2. OtherSessions'
    BY <1>13, <2>0 DEF IInv, TypeOK, OtherSessions, Publish
  <2>3. ThreadsInStep'
    BY <1>13, <2>0 DEF IInv, TypeOK, ThreadsInStep, Publish
  <2>4. PointersInStep'
    BY <1>13, <2>0 DEF IInv, TypeOK, PointersInStep, CallersInStep, Workshop, Dir, Running, Unpublished, Ids, Null, Publish
  <2>5. CallersInStep'
    BY <1>13, <2>0 DEF IInv, TypeOK, CallersInStep, PointersInStep, Workshop, Dir, Running, Unpublished, Ids, Null, Publish
  <2>6. LastIsLast'
    BY SMTT(30), <1>13, <2>0 DEF IInv, TypeOK, CallersInStep, LastIsLast, Publish
  <2> QED BY <2>1, <2>2, <2>3, <2>4, <2>5, <2>6 DEF IInv
<1>14. ASSUME NEW s \in Ids, Wait(s) PROVE IInv'
  <2>0. s = cur /\ Running
    BY <1>14, OnlyCurrent DEF Wait
  <2>1. TypeOK'
    BY SMTT(30), <1>14, <2>0 DEF IInv, TypeOK, Wait
  <2>2. OtherSessions'
    BY <1>14, <2>0 DEF IInv, TypeOK, OtherSessions, Wait
  <2>3. ThreadsInStep'
    BY <1>14, <2>0 DEF IInv, TypeOK, ThreadsInStep, Wait
  <2>4. PointersInStep'
    BY <1>14, <2>0 DEF IInv, TypeOK, PointersInStep, CallersInStep, Workshop, Dir, Running, Unpublished, Ids, Null, Wait
  <2>5. CallersInStep'
    BY <1>14, <2>0 DEF IInv, TypeOK, CallersInStep, PointersInStep, Workshop, Dir, Running, Unpublished, Ids, Null, Wait
  <2>6. LastIsLast'
    BY SMTT(30), <1>14, <2>0 DEF IInv, TypeOK, CallersInStep, LastIsLast, Wait
  <2> QED BY <2>1, <2>2, <2>3, <2>4, <2>5, <2>6 DEF IInv
<1>15. ASSUME NEW s \in Ids, Flush(s) PROVE IInv'
  <2>0. s = cur /\ Running
    BY <1>15, OnlyCurrent DEF Flush
  <2>a. /\ Terminator \in Item
        /\ output' = [output EXCEPT ![s] = Append(@, Terminator)]
        /\ s = cur => pusher = "done" \/ ~Terminator.last
    <3>1. Terminator \in Item
      BY DEF Item, Terminator
    <3> QED BY <1>15, <2>0, <3>1 DEF IInv, TypeOK, LastIsLast, ThreadsInStep, Flush
  <2>1. TypeOK'
    <3>1. output' \in [Ids -> Seq(Item)]
      BY <2>a DEF IInv, TypeOK
    <3> QED BY SMTT(30), <1>15, <2>0, <3>1 DEF IInv, TypeOK, Flush
  <2>2. OtherSessions'
    BY <1>15, <2>0 DEF IInv, TypeOK, OtherSessions, Flush
  <2>3. ThreadsInStep'
    BY <1>15, <2>0 DEF IInv, TypeOK, ThreadsInStep, Flush
  <2>4. PointersInStep'
    BY <1>15, <2>0 DEF IInv, TypeOK, PointersInStep, CallersInStep, Workshop, Dir, Running, Unpublished, Ids, Null, Flush
  <2>5. CallersInStep'
    BY <1>15, <2>0 DEF IInv, TypeOK, CallersInStep, PointersInStep, Workshop, Dir, Running, Unpublished, Ids, Null, Flush
  <2>6. LastIsLast'
    <3>1. ASSUME NEW t \in Ids, NEW i \in 1..Len(output'[t]), output'[t][i].last, t = cur
          PROVE  pusher = "done"
      <4>1. CASE t = s /\ i = Len(output[s]) + 1
        BY <2>a, <3>1, <4>1 DEF IInv, TypeOK
      <4>2. CASE ~(t = s /\ i = Len(output[s]) + 1)
        <5>1. i \in 1..Len(output[t]) /\ output'[t][i] = output[t][i]
          BY <2>a, <3>1, <4>2 DEF IInv, TypeOK
        <5> QED BY <3>1, <5>1 DEF IInv, LastIsLast
      <4> QED BY <4>1, <4>2
    <3> QED BY <1>15, <2>0, <3>1 DEF IInv, TypeOK, LastIsLast, ThreadsInStep, Terminated, Flush
  <2> QED BY <2>1, <2>2, <2>3, <2>4, <2>5, <2>6 DEF IInv
<1>16. ASSUME NEW s \in Ids, WorkPop(s) PROVE IInv'
  <2>0. s = cur /\ Running
    BY <1>16, OnlyCurrentWorks DEF WorkPop
  <2>1. TypeOK'
    BY SMTT(30), <1>16, <2>0 DEF IInv, TypeOK, WorkPop
  <2>2. OtherSessions'
    BY <1>16, <2>0 DEF IInv, TypeOK, OtherSessions, WorkPop
  <2>3. ThreadsInStep'
    BY <1>16, <2>0 DEF IInv, TypeOK, ThreadsInStep, WorkPop
  <2>4. PointersInStep'
    BY <1>16, <2>0 DEF IInv, TypeOK, PointersInStep, CallersInStep, Workshop, Dir, Running, Unpublished, Ids, Null, WorkPop
  <2>5. CallersInStep'
    BY <1>16, <2>0 DEF IInv, TypeOK, CallersInStep, PointersInStep, Workshop, Dir, Running, Unpublished, Ids, Null, WorkPop
  <2>6. LastIsLast'
    <3>1. /\ input[s] \in Seq(Item) /\ input[s] # <<>>
          /\ held' = [held EXCEPT ![s] = input[s][1]]
          /\ input' = [input EXCEPT ![s] = Tail(input[s])]
          /\ worker' = [worker EXCEPT ![s] = "push"]
          /\ UNCHANGED <<kind, cur, pusher, output, checksum>>
      BY <1>16 DEF IInv, TypeOK, WorkPop
    <3>2. /\ 1 \in 1..Len(input[s])
          /\ \A i \in 1..Len(Tail(input[s])) :
               i + 1 \in 1..Len(input[s]) /\ Tail(input[s])[i] = input[s][i + 1]
      BY <3>1
    <3>3. ASSUME NEW t \in Ids, NEW i \in 1..Len(input'[t]), input'[t][i].last
          PROVE  input'[t][i].k = Chunks /\ (t = cur => pusher = "done")
      <4>1. CASE t = s
        BY <3>1, <3>2, <3>3, <4>1 DEF IInv, TypeOK, LastIsLast
      <4>2. CASE t # s
        BY <3>1, <3>3, <4>2 DEF IInv, TypeOK, LastIsLast
      <4> QED BY <4>1, <4>2
    <3>4. ASSUME NEW t \in Ids
          PROVE  /\ held'[t].last => held'[t].k = Chunks /\ (t = cur => pusher = "done")
                 /\ worker'[t] \in {"terminate", "checksum", "end", "joined"} => held'[t].last
                 /\ worker'[t] \in {"end", "joined"} => worker[t] = worker'[t]
      BY <3>1, <3>2 DEF IInv, TypeOK, LastIsLast
    <3> QED BY <3>1, <3>3, <3>4 DEF IInv, LastIsLast
  <2> QED BY <2>1, <2>2, <2>3, <2>4, <2>5, <2>6 DEF IInv
<1>17. ASSUME NEW s \in Ids, WorkPush(s) PROVE IInv'
  <2>0. s = cur /\ Running
    BY <1>17, OnlyCurrentWorks DEF WorkPush
  <2>a. /\ Result(s) \in Item
        /\ output' = [output EXCEPT ![s] = Append(@, Result(s))]
        /\ s = cur => pusher = "done" \/ ~Result(s).last
    <3>1. Result(s) \in Item
      BY <2>0 DEF IInv, TypeOK, Item, Result
    <3> QED BY <1>17, <2>0, <3>1 DEF IInv, TypeOK, LastIsLast, ThreadsInStep, Result, WorkPush
  <2>1. TypeOK'
    <3>1. output' \in [Ids -> Seq(Item)]
      BY <2>a DEF IInv, TypeOK
    <3> QED BY SMTT(30), <1>17, <2>0, <3>1 DEF IInv, TypeOK, WorkPush
  <2>2. OtherSessions'
    BY <1>17, <2>0 DEF IInv, TypeOK, OtherSessions, WorkPush
  <2>3. ThreadsInStep'
    BY <1>17, <2>0 DEF IInv, TypeOK, ThreadsInStep, WorkPush
  <2>4. PointersInStep'
    BY <1>17, <2>0 DEF IInv, TypeOK, PointersInStep, CallersInStep, Workshop, Dir, Running, Unpublished, Ids, Null, WorkPush
  <2>5. CallersInStep'
    BY <1>17, <2>0 DEF IInv, TypeOK, CallersInStep, PointersInStep, Workshop, Dir, Running, Unpublished, Ids, Null, WorkPush
  <2>6. LastIsLast'
    <3>1. ASSUME NEW t \in Ids, NEW i \in 1..Len(output'[t]), output'[t][i].last, t = cur
          PROVE  pusher = "done"
      <4>1. CASE t = s /\ i = Len(output[s]) + 1
        BY <2>a, <3>1, <4>1 DEF IInv, TypeOK
      <4>2. CASE ~(t = s /\ i = Len(output[s]) + 1)
        <5>1. i \in 1..Len(output[t]) /\ output'[t][i] = output[t][i]
          BY <2>a, <3>1, <4>2 DEF IInv, TypeOK
        <5> QED BY <3>1, <5>1 DEF IInv, LastIsLast
      <4> QED BY <4>1, <4>2
    <3>2. UNCHANGED <<kind, cur, pusher, input, checksum, held>>
      BY <1>17 DEF WorkPush
    <3>3. ASSUME NEW t \in Ids
          PROVE  /\ worker'[t] \in {"terminate", "checksum", "end", "joined"} => held[t].last
                 /\ worker'[t] \in {"end", "joined"} /\ kind = "deflate" /\ Sessions[t] = "compress" =>
                      checksum[t] = Chunks
      <4>1. CASE t # s
        <5>1. worker'[t] = worker[t]
          BY <1>17, <4>1 DEF IInv, TypeOK, WorkPush
        <5> QED BY <5>1 DEF IInv, LastIsLast
      <4>2. CASE t = s
        BY <1>17, <4>2 DEF IInv, TypeOK, Terminated, WorkPush
      <4> QED BY <4>1, <4>2
    <3> QED BY <3>1, <3>2, <3>3 DEF IInv, LastIsLast
  <2> QED BY <2>1, <2>2, <2>3, <2>4, <2>5, <2>6 DEF IInv
<1>18. ASSUME NEW s \in Ids, WorkTerminate(s) PROVE IInv'
  <2>0. s = cur /\ Running
    BY <1>18, OnlyCurrentWorks DEF WorkTerminate
  <2>a. /\ Terminator \in Item
        /\ output' = [output EXCEPT ![s] = Append(@, Terminator)]
        /\ s = cur => pusher = "done" \/ ~Terminator.last
    <3>1. Terminator \in Item
      BY DEF Item, Terminator
    <3> QED BY <1>18, <2>0, <3>1 DEF IInv, TypeOK, LastIsLast, ThreadsInStep, WorkTerminate
  <2>1. TypeOK'
    <3>1. output' \in [Ids -> Seq(Item)]
      BY <2>a DEF IInv, TypeOK
    <3> QED BY <1>18, <2>0, <3>1 DEF IInv, TypeOK, WorkTerminate
  <2>2. OtherSessions'
    BY <1>18, <2>0 DEF IInv, TypeOK, OtherSessions, WorkTerminate
  <2>3. ThreadsInStep'
    BY <1>18, <2>0 DEF IInv, TypeOK, ThreadsInStep, WorkTerminate
  <2>4. PointersInStep'
    BY <1>18, <2>0 DEF IInv, TypeOK, PointersInStep, CallersInStep, Workshop, Dir, Running, Unpublished, Ids, Null, WorkTerminate
  <2>5. CallersInStep'
    BY <1>18, <2>0 DEF IInv, TypeOK, CallersInStep, PointersInStep, Workshop, Dir, Running, Unpublished, Ids, Null, WorkTerminate
  <2>6. LastIsLast'
    <3>1. ASSUME NEW t \in Ids, NEW i \in 1..Len(output'[t]), output'[t][i].last, t = cur
          PROVE  pusher = "done"
      <4>1. CASE t = s /\ i = Len(output[s]) + 1
        BY <2>a, <3>1, <4>1 DEF IInv, TypeOK
      <4>2. CASE ~(t = s /\ i = Len(output[s]) + 1)
        <5>1. i \in 1..Len(output[t]) /\ output'[t][i] = output[t][i]
          BY <2>a, <3>1, <4>2 DEF IInv, TypeOK
        <5> QED BY <3>1, <5>1 DEF IInv, LastIsLast
      <4> QED BY <4>1, <4>2
    <3> QED BY SMTT(30), <1>18, <2>0, <3>1
            DEF IInv, TypeOK, LastIsLast, ThreadsInStep, Terminated, WorkTerminate
  <2> QED BY <2>1, <2>2, <2>3, <2>4, <2>5, <2>6 DEF IInv
<1>19. ASSUME NEW s \in Ids, WorkChecksum(s) PROVE IInv'
  <2>0. s = cur /\ Running
    BY <1>19, OnlyCurrentWorks DEF WorkChecksum
  <2>1. TypeOK'
    <3>1. held[s].k \in 0..(Chunks + 1)
      BY DEF IInv, TypeOK, Item
    <3> QED BY SMTT(30), <1>19, <2>0, <3>1 DEF IInv, TypeOK, WorkChecksum
  <2>2. OtherSessions'
    BY <1>19, <2>0 DEF IInv, TypeOK, OtherSessions, WorkChecksum
  <2>3. ThreadsInStep'
    BY <1>19, <2>0 DEF IInv, TypeOK, ThreadsInStep, WorkChecksum
  <2>4. PointersInStep'
    BY <1>19, <2>0 DEF IInv, TypeOK, PointersInStep, CallersInStep, Workshop, Dir, Running, Unpublished, Ids, Null, WorkChecksum
  <2>5. CallersInStep'
    BY <1>19, <2>0 DEF IInv, TypeOK, CallersInStep, PointersInStep, Workshop, Dir, Running, Unpublished, Ids, Null, WorkChecksum
  <2>6. LastIsLast'
    BY SMTT(30), <1>19, <2>0 DEF IInv, TypeOK, CallersInStep, LastIsLast, WorkChecksum
  <2> QED BY <2>1, <2>2, <2>3, <2>4, <2>5, <2>6 DEF IInv
<1>20. CASE UNCHANGED vars
  BY <1>20 DEF vars, IInv, TypeOK, OtherSessions, ThreadsInStep, PointersInStep, CallersInStep, LastIsLast, Workshop, Dir, Running, Unpublished, Ids
<1>21. CASE Finished
  BY <1>20, <1>21 DEF Finished
<1> QED
  BY <1>1, <1>2, <1>3, <1>4, <1>5, <1>6, <1>7, <1>8, <1>9, <1>10, <1>11, <1>12, <1>13, <1>14, <1>15, <1>16, <1>17, <1>18, <1>19, <1>20, <1>21
  DEF Next, InputThread, OutputThread, ProcessingThread, WorkshopThread

LEMMA InvAlways == Spec => []IInv
BY InitInv, StepInv, PTL DEF Spec

-----------------------------------------------------------------------------
(* Every variable keeps its type. *)
THEOREM TypeCorrect == Spec => []TypeOK
<1>1. IInv => TypeOK
  BY DEF IInv
<1> QED BY <1>1, InvAlways, PTL

(* The busy waits let a call through only to the live workshop of the        *)
(* session it belongs to.                                                     *)
THEOREM CallsGoToOwnWorkshop == Spec => []OwnWorkshop
<1>1. ASSUME IInv PROVE OwnWorkshop
  <2>1. ASSUME pusher = "push" \/ popper = "pop"
        PROVE  /\ Running /\ ~Unpublished(cur) /\ popper # "done"
               /\ shop[cur] # "deleted" /\ shop[cur] # "unborn"
    <3>1. Running /\ ~Unpublished(cur)
      BY <1>1, <2>1 DEF IInv, CallersInStep
    <3>2. popper \notin {"clear", "done"}
      BY <1>1, <2>1, <3>1 DEF IInv, CallersInStep
    <3> QED BY <1>1, <3>1, <3>2 DEF IInv, CallersInStep, ThreadsInStep, Running, Unpublished
  <2>2. ASSUME pusher = "push" \/ popper = "pop"
        PROVE  Workshop = cur /\ shop[cur] = "live"
    BY <1>1, <2>1, <2>2 DEF IInv, TypeOK, PointersInStep, Running
  <2> QED BY <2>2 DEF OwnWorkshop
<1> QED BY <1>1, InvAlways, PTL

(* delete never meets a running thread or a call inside the workshop. *)
THEOREM NothingDeletedInUse == Spec => []DeletedAtRest
<1>1. ASSUME IInv PROVE DeletedAtRest
  <2>1. ASSUME NEW s \in Ids, shop[s] = "deleted"
        PROVE  handler[s] = "joined" /\ (s = cur => pusher = "done")
    <3>1. CASE s = cur
      BY <1>1, <2>1, <3>1 DEF IInv, CallersInStep, Running
    <3>2. CASE s < cur
      BY <1>1, <3>2 DEF IInv, OtherSessions, Ids, TypeOK
    <3>3. CASE s > cur
      BY <1>1, <2>1, <3>3 DEF IInv, OtherSessions, ThreadsInStep
    <3> QED BY <1>1, <3>1, <3>2, <3>3 DEF IInv, TypeOK, Ids
  <2> QED BY <1>1, <2>1 DEF IInv, ThreadsInStep, DeletedAtRest
<1> QED BY <1>1, InvAlways, PTL

(* pop joins the thread of its own session, once. *)
THEOREM JoinsOnce == Spec => []JoinsOwnThread
<1>1. ASSUME IInv PROVE JoinsOwnThread
  BY <1>1 DEF IInv, JoinsOwnThread, CallersInStep, PointersInStep, Unpublished
<1> QED BY <1>1, InvAlways, PTL

(* Once a gzip or zlib compression has been joined its checksum covers every *)
(* chunk; the zlib footer, which is written next, holds it.                   *)
THEOREM ChecksumCovers == Spec => []ChecksumReady
<1>1. ASSUME IInv PROVE ChecksumReady
  <2>1. ASSUME popper = "done" PROVE Running /\ worker[cur] = "joined"
    BY <1>1, <2>1 DEF IInv, CallersInStep, ThreadsInStep, Running
  <2> QED BY <1>1, <2>1 DEF IInv, LastIsLast, ChecksumReady, Running, Dir
<1> QED BY <1>1, InvAlways, PTL

-----------------------------------------------------------------------------
(* What a session delivers.  The inductive invariant numbers the items of a   *)
(* session from the first one popped to the last one pushed: what has been    *)
(* received is 1, 2, ...; the output stream goes on from there; the worker    *)
(* holds the next one, and the input stream goes on to the last chunk pushed. *)
(* The item that ends the session's output is the one numbered LastItem, and  *)
(* only a second terminator may stand behind it.                              *)

LastItem(s) == IF Terminated(s) THEN Chunks + 1 ELSE Chunks

(* The output thread has been told that the output of s ended. *)
Over(s) == s < cur \/ (s = cur /\ popper \in {"join", "delete", "clear", "done"})

Sent(s) == IF s = cur THEN pushed ELSE 0
Out(s) == Len(received[s]) + Len(output[s])
Taken(s) == IF worker[s] = "push" THEN Out(s) + 1 ELSE Out(s)

Numbered(s) ==
  /\ Len(received[s]) < LastItem(s)
  /\ \A i \in 1..Len(received[s]) : received[s][i] = i
  /\ \A i \in 1..Len(output[s]) :
       /\ output[s][i].k =
            IF Len(received[s]) + i <= Chunks THEN Len(received[s]) + i ELSE Chunks + 1
       /\ output[s][i].last <=> Len(received[s]) + i >= LastItem(s)

Feeding(s) == worker[s] \in {"unborn", "pop", "push", "terminate"}

(* The chunks a worker that still takes some has before it. *)
Ahead(s) ==
  /\ Taken(s) + Len(input[s]) = Sent(s)
  /\ \A i \in 1..Len(input[s]) :
       /\ input[s][i].k = Taken(s) + i
       /\ input[s][i].last <=> Taken(s) + i = Chunks

AtWork(s) ==
  /\ worker[s] \in {"unborn", "pop"} => Out(s) < Chunks
  /\ worker[s] = "push" => /\ held[s].k = Taken(s)
                           /\ held[s].last <=> Taken(s) = Chunks
  /\ worker[s] = "terminate" => Out(s) = Chunks /\ Terminated(s)
  /\ ~Feeding(s) => Out(s) >= LastItem(s)

Flow(s) == Numbered(s) /\ (Feeding(s) => Ahead(s)) /\ AtWork(s)

Delivery ==
  \A s \in Ids : IF Over(s) THEN received[s] = Expected(s) ELSE Flow(s)

LEMMA StreamTypes ==
  ASSUME IInv, NEW s \in Ids
  PROVE  /\ input[s] \in Seq(Item) /\ output[s] \in Seq(Item)
         /\ received[s] \in Seq(0..(Chunks + 1))
         /\ Len(input[s]) \in Nat /\ Len(output[s]) \in Nat /\ Len(received[s]) \in Nat
         /\ held[s] \in Item /\ held[s].k \in Nat /\ Chunks \in Nat /\ Chunks > 0
         /\ LastItem(s) \in Nat /\ Sent(s) \in Nat /\ Sent(s) <= Chunks
         /\ s \in DOMAIN input /\ s \in DOMAIN output /\ s \in DOMAIN received
         /\ s \in DOMAIN worker /\ s \in DOMAIN held
         /\ Out(s) \in Nat /\ Taken(s) \in Nat
<1>1. /\ input[s] \in Seq(Item) /\ output[s] \in Seq(Item) /\ held[s] \in Item
      /\ received[s] \in Seq(0..(Chunks + 1)) /\ pushed \in 0..Chunks
  BY DEF IInv, TypeOK
<1>2. held[s].k \in Nat
  BY <1>1 DEF Item
<1>3. LastItem(s) \in Nat /\ Sent(s) \in Nat /\ Sent(s) <= Chunks
  BY <1>1 DEF LastItem, Sent
<1>4. /\ s \in DOMAIN input /\ s \in DOMAIN output /\ s \in DOMAIN received
      /\ s \in DOMAIN worker /\ s \in DOMAIN held
  BY DEF IInv, TypeOK
<1>5. Len(input[s]) \in Nat /\ Len(output[s]) \in Nat /\ Len(received[s]) \in Nat
  BY <1>1
<1>6. Out(s) \in Nat /\ Taken(s) \in Nat
  <2>1. PICK m \in Nat, n \in Nat : Out(s) = m + n
    BY <1>5 DEF Out
  <2>2. Out(s) \in Nat
    BY <2>1
  <2>3. Taken(s) = Out(s) \/ Taken(s) = Out(s) + 1
    BY DEF Taken
  <2> QED BY <2>2, <2>3
<1> QED BY <1>1, <1>2, <1>3, <1>4, <1>5, <1>6

(* A step that touches no stream of s. *)
LEMMA FlowKept ==
  ASSUME NEW s \in Ids, kind' = kind,
         received'[s] = received[s], output'[s] = output[s], input'[s] = input[s],
         worker'[s] = worker[s], held'[s] = held[s], Sent(s)' = Sent(s),
         Flow(s)
  PROVE  Flow(s)'
<1>1. /\ LastItem(s)' = LastItem(s) /\ Out(s)' = Out(s) /\ Taken(s)' = Taken(s)
      /\ Terminated(s)' = Terminated(s) /\ Feeding(s)' = Feeding(s)
  BY DEF LastItem, Out, Taken, Terminated, Feeding
<1>2. Numbered(s)'
  BY <1>1 DEF Flow, Numbered
<1>3. Feeding(s)' => Ahead(s)'
  BY <1>1 DEF Flow, Ahead
<1>4. AtWork(s)'
  BY <1>1 DEF Flow, AtWork
<1> QED BY <1>2, <1>3, <1>4 DEF Flow

(* A step of the threads of s alone, which pops and pushes nothing for the    *)
(* callers.                                                                   *)
LEMMA WorkerKept ==
  ASSUME Delivery, NEW s \in Ids, UNCHANGED <<kind, callers>>,
         \A t \in Ids \ {s} : /\ output'[t] = output[t] /\ input'[t] = input[t]
                               /\ worker'[t] = worker[t] /\ held'[t] = held[t],
         Flow(s) => Flow(s)'
  PROVE  Delivery'
<1> USE DEF callers
<1>1. \A t \in Ids : /\ Over(t)' <=> Over(t)
                     /\ Sent(t)' = Sent(t) /\ received'[t] = received[t]
                     /\ Expected(t)' = Expected(t)
  BY DEF Over, Sent, Expected
<1>2. ASSUME NEW t \in Ids
      PROVE  IF Over(t)' THEN received'[t] = Expected(t)' ELSE Flow(t)'
  <2>1. CASE t = s
    BY <1>1, <2>1 DEF Delivery
  <2>2. CASE t # s
    BY <1>1, <2>2, FlowKept DEF Delivery
  <2> QED BY <2>1, <2>2
<1> QED BY <1>2 DEF Delivery

(* A step of the callers that moves no item. *)
LEMMA CallerKept ==
  ASSUME Delivery, UNCHANGED <<kind, cur, pushed, received, output, input, held>>,
         \A t \in Ids : worker'[t] = worker[t],
         popper' \in {"join", "delete", "clear", "done"} <=>
           popper \in {"join", "delete", "clear", "done"}
  PROVE  Delivery'
<1>1. \A t \in Ids : /\ Over(t)' <=> Over(t)
                     /\ Sent(t)' = Sent(t) /\ Expected(t)' = Expected(t)
  BY DEF Over, Sent, Expected
<1> QED BY <1>1, FlowKept DEF Delivery

(* The worker appends the item of the next number. *)
LEMMA AppendNumbered ==
  ASSUME IInv, NEW s \in Ids, Numbered(s), NEW it \in Item,
         output'[s] = Append(output[s], it), kind' = kind, received'[s] = received[s],
         it.k = IF Out(s) + 1 <= Chunks THEN Out(s) + 1 ELSE Chunks + 1,
         it.last <=> Out(s) + 1 >= LastItem(s)
  PROVE  /\ Numbered(s)' /\ Out(s)' = Out(s) + 1 /\ Out(s) \in Nat
         /\ LastItem(s)' = LastItem(s) /\ Terminated(s)' = Terminated(s)
<1>0. /\ input[s] \in Seq(Item) /\ output[s] \in Seq(Item)
      /\ received[s] \in Seq(0..(Chunks + 1)) /\ held[s] \in Item /\ held[s].k \in Nat
      /\ Len(input[s]) \in Nat /\ Len(output[s]) \in Nat /\ Len(received[s]) \in Nat
      /\ Chunks \in Nat /\ Chunks > 0 /\ LastItem(s) \in Nat
      /\ Sent(s) \in Nat /\ Sent(s) <= Chunks /\ Out(s) \in Nat /\ Taken(s) \in Nat
      /\ s \in DOMAIN input /\ s \in DOMAIN output /\ s \in DOMAIN received
      /\ s \in DOMAIN worker /\ s \in DOMAIN held
  BY StreamTypes
<1>1. /\ Len(output'[s]) = Len(output[s]) + 1
      /\ output'[s][Len(output[s]) + 1] = it
      /\ \A i \in 1..Len(output[s]) : output'[s][i] = output[s][i]
  BY <1>0
<1>2. Out(s)' = Out(s) + 1 /\ Out(s) \in Nat
  BY <1>0, <1>1 DEF Out
<1>3. LastItem(s)' = LastItem(s) /\ Terminated(s)' = Terminated(s)
  BY <1>0 DEF LastItem, Terminated
<1>4. ASSUME NEW i \in 1..Len(output'[s])
      PROVE  /\ output'[s][i].k =
                  IF Len(received[s]) + i <= Chunks THEN Len(received[s]) + i ELSE Chunks + 1
             /\ output'[s][i].last <=> Len(received[s]) + i >= LastItem(s)
  <2>1. CASE i = Len(output[s]) + 1
    <3>1. Len(received[s]) + i = Out(s) + 1
      BY <1>0, <2>1 DEF Out
    <3> QED BY <1>0, <1>1, <2>1, <3>1
  <2>2. CASE i # Len(output[s]) + 1
    <3>1. i \in 1..Len(output[s])
      BY <1>0, <1>1, <2>2
    <3> QED BY <1>0, <1>1, <3>1 DEF Numbered
  <2> QED BY <1>0, <2>1, <2>2
<1> QED BY <1>0, <1>2, <1>3, <1>4 DEF Numbered

LEMMA WorkPopFlow ==
  ASSUME IInv, NEW s \in Ids, WorkPop(s), Flow(s)
  PROVE  Flow(s)'
<1>0. /\ input[s] \in Seq(Item) /\ output[s] \in Seq(Item)
      /\ received[s] \in Seq(0..(Chunks + 1)) /\ held[s] \in Item /\ held[s].k \in Nat
      /\ Len(input[s]) \in Nat /\ Len(output[s]) \in Nat /\ Len(received[s]) \in Nat
      /\ Chunks \in Nat /\ Chunks > 0 /\ LastItem(s) \in Nat
      /\ Sent(s) \in Nat /\ Sent(s) <= Chunks /\ Out(s) \in Nat /\ Taken(s) \in Nat
      /\ s \in DOMAIN input /\ s \in DOMAIN output /\ s \in DOMAIN received
      /\ s \in DOMAIN worker /\ s \in DOMAIN held
  BY StreamTypes
<1>1. /\ held'[s] = input[s][1] /\ input'[s] = Tail(input[s]) /\ input[s] # <<>>
      /\ worker[s] = "pop" /\ worker'[s] = "push"
      /\ UNCHANGED <<kind, output, received, cur, pushed>>
  BY <1>0 DEF WorkPop, callers
<1>2. /\ Len(input'[s]) = Len(input[s]) - 1 /\ Len(input[s]) > 0
      /\ \A i \in 1..Len(input'[s]) : input'[s][i] = input[s][i + 1]
  BY <1>0, <1>1
<1>3. /\ LastItem(s)' = LastItem(s) /\ Out(s)' = Out(s) /\ Out(s) \in Nat
      /\ Terminated(s)' = Terminated(s) /\ Sent(s)' = Sent(s)
      /\ Taken(s) = Out(s) /\ Taken(s)' = Out(s) + 1
      /\ Feeding(s) /\ Feeding(s)'
  BY <1>0, <1>1 DEF LastItem, Out, Taken, Terminated, Feeding, Sent
<1>4. Numbered(s)'
  BY <1>0, <1>1, <1>3 DEF Flow, Numbered
<1>5. Ahead(s)'
  <2>1. Taken(s)' + Len(input'[s]) = Sent(s)'
    BY <1>0, <1>2, <1>3 DEF Flow, Ahead
  <2>2. ASSUME NEW i \in 1..Len(input'[s])
        PROVE  /\ input'[s][i].k = Taken(s)' + i
               /\ input'[s][i].last <=> Taken(s)' + i = Chunks
    <3>1. i + 1 \in 1..Len(input[s]) /\ Taken(s) + (i + 1) = Taken(s)' + i
      <4>1. i \in Nat /\ i >= 1 /\ i <= Len(input[s]) - 1 /\ Len(input[s]) \in Nat
        BY <1>0, <1>2
      <4> QED BY <1>3, <4>1
    <3>2. /\ input[s][i + 1].k = Taken(s) + (i + 1)
          /\ input[s][i + 1].last <=> Taken(s) + (i + 1) = Chunks
      BY <1>0, <1>3, <3>1 DEF Flow, Ahead
    <3> QED BY <1>0, <1>2, <3>1, <3>2
  <2> QED BY <1>0, <2>1, <2>2 DEF Ahead
<1>6. held'[s].k = Taken(s)' /\ (held'[s].last <=> Taken(s)' = Chunks)
  <2>1. 1 \in 1..Len(input[s])
    BY <1>0, <1>2
  <2> QED BY <1>0, <1>1, <1>3, <2>1 DEF Flow, Ahead
<1>7. AtWork(s)'
  BY <1>0, <1>1, <1>3, <1>6 DEF AtWork
<1> QED BY <1>0, <1>4, <1>5, <1>7 DEF Flow

LEMMA WorkPushFlow ==
  ASSUME IInv, NEW s \in Ids, WorkPush(s), Flow(s)
  PROVE  Flow(s)'
<1>0. /\ input[s] \in Seq(Item) /\ output[s] \in Seq(Item)
      /\ received[s] \in Seq(0..(Chunks + 1)) /\ held[s] \in Item /\ held[s].k \in Nat
      /\ Len(input[s]) \in Nat /\ Len(output[s]) \in Nat /\ Len(received[s]) \in Nat
      /\ Chunks \in Nat /\ Chunks > 0 /\ LastItem(s) \in Nat
      /\ Sent(s) \in Nat /\ Sent(s) <= Chunks /\ Out(s) \in Nat /\ Taken(s) \in Nat
      /\ s \in DOMAIN input /\ s \in DOMAIN output /\ s \in DOMAIN received
      /\ s \in DOMAIN worker /\ s \in DOMAIN held
  BY StreamTypes
<1>1. /\ output'[s] = Append(output[s], Result(s))
      /\ worker[s] = "push"
      /\ worker'[s] = IF ~held[s].last THEN "pop"
                      ELSE IF Terminated(s) THEN "terminate" ELSE "end"
      /\ UNCHANGED <<kind, input, held, received, cur, pushed>>
  BY <1>0 DEF WorkPush, callers
<1>2. /\ Taken(s) = Out(s) + 1 /\ Out(s) \in Nat /\ Feeding(s)
      /\ held[s].k = Out(s) + 1 /\ (held[s].last <=> Out(s) + 1 = Chunks)
      /\ Out(s) + 1 + Len(input[s]) = Sent(s) /\ Out(s) + 1 <= Chunks
  BY <1>0, <1>1 DEF Flow, AtWork, Ahead, Taken, Feeding, Out
<1>3. /\ Result(s) \in Item /\ Result(s).k = Out(s) + 1
      /\ Result(s).last <=> Out(s) + 1 >= LastItem(s)
  <2>1. Result(s) \in Item
    BY <1>0 DEF Item, Result
  <2>2. Result(s).k = Out(s) + 1
    BY <1>0, <1>2 DEF Result
  <2>3. Result(s).last <=> Out(s) + 1 = Chunks /\ ~Terminated(s)
    BY <1>0, <1>2 DEF Result
  <2>4. LastItem(s) = IF Terminated(s) THEN Chunks + 1 ELSE Chunks
    BY <1>0 DEF LastItem
  <2> QED BY <1>0, <1>2, <2>1, <2>2, <2>3, <2>4
<1>4. /\ Numbered(s)' /\ Out(s)' = Out(s) + 1
      /\ LastItem(s)' = LastItem(s) /\ Terminated(s)' = Terminated(s)
  BY <1>0, <1>1, <1>2, <1>3, AppendNumbered DEF Flow
<1>5. worker'[s] # "push" /\ Taken(s)' = Taken(s) /\ Sent(s)' = Sent(s)
  BY <1>0, <1>1, <1>2, <1>4 DEF Taken, Sent
<1>6. Ahead(s)'
  BY <1>0, <1>1, <1>2, <1>5 DEF Flow, Ahead
<1>7. AtWork(s)'
  <2>1. CASE ~held[s].last
    BY <1>0, <1>1, <1>2, <1>4, <2>1 DEF AtWork, Feeding
  <2>2. CASE held[s].last /\ Terminated(s)
    BY <1>0, <1>1, <1>2, <1>4, <2>2 DEF AtWork, Feeding
  <2>3. CASE held[s].last /\ ~Terminated(s)
    <3>1. LastItem(s) = Chunks
      BY <1>0, <2>3 DEF LastItem
    <3> QED BY <1>0, <1>1, <1>2, <1>4, <2>3, <3>1 DEF AtWork, Feeding
  <2> QED BY <1>0, <2>1, <2>2, <2>3
<1> QED BY <1>0, <1>4, <1>6, <1>7 DEF Flow

(* Both places that append a terminator. *)
LEMMA TerminatorFlow ==
  ASSUME IInv, NEW s \in Ids, Flow(s), UNCHANGED <<kind, received>>,
         output'[s] = Append(output[s], Terminator),
         Out(s) >= Chunks, Out(s) + 1 >= LastItem(s),
         worker'[s] \notin {"unborn", "pop", "push", "terminate"}
  PROVE  Flow(s)'
<1>0. /\ input[s] \in Seq(Item) /\ output[s] \in Seq(Item)
      /\ received[s] \in Seq(0..(Chunks + 1)) /\ held[s] \in Item /\ held[s].k \in Nat
      /\ Len(input[s]) \in Nat /\ Len(output[s]) \in Nat /\ Len(received[s]) \in Nat
      /\ Chunks \in Nat /\ Chunks > 0 /\ LastItem(s) \in Nat
      /\ Sent(s) \in Nat /\ Sent(s) <= Chunks /\ Out(s) \in Nat /\ Taken(s) \in Nat
      /\ s \in DOMAIN input /\ s \in DOMAIN output /\ s \in DOMAIN received
      /\ s \in DOMAIN worker /\ s \in DOMAIN held
  BY StreamTypes
<1>1. Terminator \in Item /\ Terminator.k = Chunks + 1 /\ Terminator.last
  BY <1>0 DEF Terminator, Item
<1>2. Out(s) \in Nat
  BY <1>0 DEF Out
<1>3. /\ Numbered(s)' /\ Out(s)' = Out(s) + 1
      /\ LastItem(s)' = LastItem(s)
  <2>1. Terminator.k = IF Out(s) + 1 <= Chunks THEN Out(s) + 1 ELSE Chunks + 1
    BY <1>0, <1>1
  <2>2. Terminator.last <=> Out(s) + 1 >= LastItem(s)
    BY <1>1
  <2> QED BY <1>1, <2>1, <2>2, AppendNumbered DEF Flow
<1>4. ~Feeding(s)' /\ AtWork(s)'
  BY <1>0, <1>2, <1>3 DEF Feeding, AtWork
<1> QED BY <1>0, <1>3, <1>4 DEF Flow

LEMMA ThreadsDeliver ==
  ASSUME IInv, Delivery, NEW s \in Ids, ProcessingThread(s) \/ WorkshopThread(s)
  PROVE  Delivery'
<1> USE DEF callers
<1>0. /\ input[s] \in Seq(Item) /\ output[s] \in Seq(Item)
      /\ received[s] \in Seq(0..(Chunks + 1)) /\ held[s] \in Item /\ held[s].k \in Nat
      /\ Len(input[s]) \in Nat /\ Len(output[s]) \in Nat /\ Len(received[s]) \in Nat
      /\ Chunks \in Nat /\ Chunks > 0 /\ LastItem(s) \in Nat
      /\ Sent(s) \in Nat /\ Sent(s) <= Chunks /\ Out(s) \in Nat /\ Taken(s) \in Nat
      /\ s \in DOMAIN input /\ s \in DOMAIN output /\ s \in DOMAIN received
      /\ s \in DOMAIN worker /\ s \in DOMAIN held
  BY StreamTypes
<1>1. CASE Construct(s)
  <2>1. /\ worker[s] = "unborn" /\ worker' = [worker EXCEPT ![s] = "pop"]
        /\ UNCHANGED <<kind, input, output, held, callers>>
    BY <1>0, <1>1 DEF Construct, IInv, ThreadsInStep
  <2>2. Flow(s) => Flow(s)'
    BY <1>0, <2>1 DEF Flow, Numbered, Ahead, AtWork, Feeding, Taken, Out, Sent, LastItem, Terminated
  <2> QED BY <1>0, <2>1, <2>2, WorkerKept DEF IInv, TypeOK
<1>2. CASE Publish(s)
  BY <1>0, <1>2, CallerKept DEF Publish, shops
<1>3. CASE Wait(s)
  <2>1. /\ worker[s] = "end" /\ worker' = [worker EXCEPT ![s] = "joined"]
        /\ UNCHANGED <<kind, input, output, held, callers>>
    BY <1>0, <1>3 DEF Wait
  <2>2. Flow(s) => Flow(s)'
    BY <1>0, <2>1 DEF Flow, Numbered, Ahead, AtWork, Feeding, Taken, Out, Sent, LastItem, Terminated
  <2> QED BY <1>0, <2>1, <2>2, WorkerKept DEF IInv, TypeOK
<1>4. CASE Flush(s)
  <2>1. /\ output' = [output EXCEPT ![s] = Append(@, Terminator)]
        /\ worker[s] = "joined"
        /\ UNCHANGED <<kind, input, worker, held, callers>>
    BY <1>0, <1>4 DEF Flush, IInv, ThreadsInStep
  <2>2. ASSUME Flow(s) PROVE Flow(s)'
    <3>1. Out(s) >= LastItem(s) /\ LastItem(s) >= Chunks /\ Out(s) \in Nat
      BY <1>0, <2>1, <2>2 DEF Flow, AtWork, Feeding, LastItem, Out
    <3>2. Out(s) >= Chunks /\ Out(s) + 1 >= LastItem(s)
      BY <1>0, <3>1
    <3>3. output'[s] = Append(output[s], Terminator) /\ worker'[s] = "joined"
      BY <1>0, <2>1
    <3> QED BY <2>1, <2>2, <3>2, <3>3, TerminatorFlow
  <2> QED BY <1>0, <2>1, <2>2, WorkerKept
<1>5. CASE WorkPop(s)
  <2>1. Flow(s) => Flow(s)'
    BY <1>0, <1>5, WorkPopFlow
  <2>2. \A t \in Ids \ {s} : /\ output'[t] = output[t] /\ input'[t] = input[t]
                              /\ worker'[t] = worker[t] /\ held'[t] = held[t]
    BY <1>5 DEF WorkPop
  <2>3. UNCHANGED <<kind, callers>>
    BY <1>5 DEF WorkPop
  <2> QED BY <2>1, <2>2, <2>3, WorkerKept
<1>6. CASE WorkPush(s)
  <2>1. Flow(s) => Flow(s)'
    BY <1>0, <1>6, WorkPushFlow
  <2>2. \A t \in Ids \ {s} : /\ output'[t] = output[t] /\ input'[t] = input[t]
                              /\ worker'[t] = worker[t] /\ held'[t] = held[t]
    BY <1>6 DEF WorkPush
  <2>3. UNCHANGED <<kind, callers>>
    BY <1>6 DEF WorkPush
  <2> QED BY <2>1, <2>2, <2>3, WorkerKept
<1>7. CASE WorkTerminate(s)
  <2>1. /\ output' = [output EXCEPT ![s] = Append(@, Terminator)]
        /\ worker[s] = "terminate"
        /\ worker' = [worker EXCEPT ![s] = IF kind = "deflate" THEN "checksum" ELSE "end"]
        /\ UNCHANGED <<kind, input, held, callers>>
    BY <1>0, <1>7 DEF WorkTerminate
  <2>2. ASSUME Flow(s) PROVE Flow(s)'
    <3>1. Out(s) = Chunks /\ LastItem(s) = Chunks + 1
      BY <1>0, <2>1, <2>2 DEF Flow, AtWork, LastItem
    <3>2. worker'[s] \in {"checksum", "end"}
      BY <1>0, <2>1
    <3>3. Out(s) >= Chunks /\ Out(s) + 1 >= LastItem(s)
      BY <1>0, <3>1
    <3>4. output'[s] = Append(output[s], Terminator)
      BY <1>0, <2>1
    <3> QED BY <2>1, <2>2, <3>2, <3>3, <3>4, TerminatorFlow
  <2>3. \A t \in Ids \ {s} : /\ output'[t] = output[t] /\ input'[t] = input[t]
                              /\ worker'[t] = worker[t] /\ held'[t] = held[t]
    BY <2>1
  <2> QED BY <2>1, <2>2, <2>3, WorkerKept
<1>8. CASE WorkChecksum(s)
  <2>1. /\ worker[s] = "checksum" /\ worker' = [worker EXCEPT ![s] = "end"]
        /\ UNCHANGED <<kind, input, output, held, callers>>
    BY <1>0, <1>8 DEF WorkChecksum
  <2>2. Flow(s) => Flow(s)'
    BY <1>0, <2>1 DEF Flow, Numbered, Ahead, AtWork, Feeding, Taken, Out, Sent, LastItem, Terminated
  <2> QED BY <1>0, <2>1, <2>2, WorkerKept DEF IInv, TypeOK
<1> QED BY <1>0, <1>1, <1>2, <1>3, <1>4, <1>5, <1>6, <1>7, <1>8 DEF ProcessingThread, WorkshopThread

LEMMA OneFurther ==
  ASSUME NEW a \in Nat, NEW r \in Nat, NEW i \in 1..(a - 1)
  PROVE  i + 1 \in 1..a /\ r + (i + 1) = (r + 1) + i
OBVIOUS

LEMMA CountsUp ==
  ASSUME NEW T, NEW q \in Seq(T), NEW n \in Nat, Len(q) = n, \A i \in 1..n : q[i] = i
  PROVE  q = [i \in 1..n |-> i]
<1>1. q = [i \in 1..Len(q) |-> q[i]]
  OBVIOUS
<1> QED BY <1>1

(* The input thread appends the chunk of the next number. *)
LEMMA PushDelivers ==
  ASSUME IInv, Delivery, Push
  PROVE  Delivery'
<1>1. Workshop = cur /\ cur \in Ids /\ pushed < Chunks /\ pushed \in Nat
  BY DEF IInv, TypeOK, CallersInStep, PointersInStep, Running, Unpublished, Ids, Push
<1>0. /\ input[cur] \in Seq(Item) /\ output[cur] \in Seq(Item)
      /\ received[cur] \in Seq(0..(Chunks + 1)) /\ held[cur] \in Item /\ held[cur].k \in Nat
      /\ Len(input[cur]) \in Nat /\ Len(output[cur]) \in Nat /\ Len(received[cur]) \in Nat
      /\ Chunks \in Nat /\ Chunks > 0 /\ LastItem(cur) \in Nat
      /\ Sent(cur) \in Nat /\ Sent(cur) <= Chunks /\ Out(cur) \in Nat /\ Taken(cur) \in Nat
      /\ cur \in DOMAIN input /\ cur \in DOMAIN output /\ cur \in DOMAIN received
      /\ cur \in DOMAIN worker /\ cur \in DOMAIN held
  BY <1>1, StreamTypes
<1> DEFINE it == [k |-> pushed + 1, last |-> pushed + 1 = Chunks]
<1>2. /\ input' = [input EXCEPT ![cur] = Append(@, it)] /\ pushed' = pushed + 1
      /\ UNCHANGED <<kind, output, worker, held, cur, popper, received>>
  BY <1>0, <1>1 DEF Push
<1>3. \A t \in Ids : (Over(t)' <=> Over(t)) /\ Expected(t)' = Expected(t)
  BY <1>0, <1>2 DEF Over, Expected
<1>4. ASSUME NEW t \in Ids, t # cur, Flow(t) PROVE Flow(t)'
  BY <1>0, <1>2, <1>4, FlowKept DEF Sent
<1>5. ASSUME Flow(cur) PROVE Flow(cur)'
  <2>1. /\ LastItem(cur)' = LastItem(cur) /\ Out(cur)' = Out(cur) /\ Taken(cur)' = Taken(cur)
        /\ Terminated(cur)' = Terminated(cur) /\ Feeding(cur)' = Feeding(cur)
        /\ Sent(cur) = pushed /\ Sent(cur)' = pushed + 1 /\ Taken(cur) \in Nat
    BY <1>0, <1>1, <1>2 DEF LastItem, Out, Taken, Terminated, Feeding, Sent
  <2>2. Numbered(cur)' /\ AtWork(cur)'
    BY <1>0, <1>2, <1>5, <2>1 DEF Flow, Numbered, AtWork
  <2>3. ASSUME Feeding(cur) PROVE Ahead(cur)'
    <3>1. it.k = pushed + 1 /\ (it.last <=> pushed + 1 = Chunks) /\ it \in Item
      <4>1. pushed + 1 \in 0..(Chunks + 1) /\ (pushed + 1 = Chunks) \in BOOLEAN
        BY <1>0, <1>1
      <4> QED BY <4>1 DEF Item
    <3> HIDE DEF it
    <3>2. /\ Len(input'[cur]) = Len(input[cur]) + 1
          /\ input'[cur][Len(input[cur]) + 1] = it
          /\ \A i \in 1..Len(input[cur]) : input'[cur][i] = input[cur][i]
      BY <1>0, <1>1, <1>2, <3>1
    <3>3. Taken(cur) + Len(input[cur]) = pushed
      BY <1>0, <1>5, <2>1, <2>3 DEF Flow, Ahead
    <3>4. Taken(cur)' + Len(input'[cur]) = Sent(cur)'
      <4>1. Len(input[cur]) \in Nat
        BY <1>0
      <4> QED BY <1>1, <2>1, <3>2, <3>3, <4>1
    <3>5. ASSUME NEW i \in 1..Len(input'[cur])
          PROVE  /\ input'[cur][i].k = Taken(cur) + i
                 /\ input'[cur][i].last <=> Taken(cur) + i = Chunks
      <4>1. CASE i = Len(input[cur]) + 1
        <5>1. Taken(cur) + i = pushed + 1
          BY <1>0, <1>1, <2>1, <3>3, <4>1
        <5> QED BY <1>0, <3>1, <3>2, <4>1, <5>1
      <4>2. CASE i # Len(input[cur]) + 1
        <5>1. i \in 1..Len(input[cur])
          BY <1>0, <1>1, <3>2, <4>2
        <5> QED BY <1>0, <1>5, <2>3, <3>2, <5>1 DEF Flow, Ahead
      <4> QED BY <1>0, <4>1, <4>2
    <3> QED BY <1>0, <1>2, <2>1, <3>4, <3>5 DEF Ahead
  <2> QED BY <1>0, <2>1, <2>2, <2>3 DEF Flow
<1> QED BY <1>0, <1>1, <1>2, <1>3, <1>4, <1>5 DEF Delivery

(* The output thread takes the item of the next number; the one that is last  *)
(* completes what the session delivers.                                       *)
LEMMA PopDelivers ==
  ASSUME IInv, Delivery, Pop
  PROVE  Delivery'
<1>1. /\ Workshop = cur /\ cur \in Ids /\ output[cur] # <<>> /\ popper = "pop"
      /\ ~Over(cur)
  <2>1. popper = "pop" /\ output[Workshop] # <<>>
    BY DEF Pop
  <2>2. Running /\ ~Unpublished(cur)
    BY <2>1 DEF IInv, CallersInStep
  <2>3. Workshop = cur
    BY <2>1, <2>2 DEF IInv, PointersInStep
  <2>4. cur \in Ids /\ ~(cur < cur)
    BY <2>2 DEF Running, Ids
  <2> QED BY <2>1, <2>3, <2>4 DEF Over
<1>c. PICK c \in Ids : c = cur /\ Workshop = c /\ output[c] # <<>> /\ ~Over(c)
  BY <1>1
<1>0. /\ input[c] \in Seq(Item) /\ output[c] \in Seq(Item)
      /\ received[c] \in Seq(0..(Chunks + 1)) /\ held[c] \in Item /\ held[c].k \in Nat
      /\ Len(input[c]) \in Nat /\ Len(output[c]) \in Nat /\ Len(received[c]) \in Nat
      /\ Chunks \in Nat /\ Chunks > 0 /\ LastItem(c) \in Nat
      /\ Sent(c) \in Nat /\ Sent(c) <= Chunks /\ Out(c) \in Nat /\ Taken(c) \in Nat
      /\ c \in DOMAIN input /\ c \in DOMAIN output /\ c \in DOMAIN received
      /\ c \in DOMAIN worker /\ c \in DOMAIN held
  BY <1>c, StreamTypes
<1> DEFINE it == Head(output[c])
           n == Len(received[c]) + 1
<1>2. /\ output' = [output EXCEPT ![c] = Tail(@)]
      /\ received' = [received EXCEPT ![c] = @ \o WithoutDummy(it)]
      /\ popper' = IF it.last THEN "join" ELSE "spin"
      /\ UNCHANGED <<kind, input, worker, held, cur, pushed>>
      /\ c = cur
  BY <1>0, <1>1, <1>c DEF Pop
<1>3. Flow(c)
  BY <1>0, <1>1, <1>c DEF Delivery
<1>4. /\ it \in Item /\ 1 \in 1..Len(output[c]) /\ it = output[c][1]
      /\ it.k = IF n <= Chunks THEN n ELSE Chunks + 1
      /\ it.last <=> n >= LastItem(c)
      /\ n <= LastItem(c) /\ n \in Nat
  <2>1. it \in Item /\ 1 \in 1..Len(output[c]) /\ it = output[c][1]
    BY <1>0, <1>1, <1>c
  <2>2. n \in Nat /\ n <= LastItem(c) /\ n = Len(received[c]) + 1
    BY <1>0, <1>3 DEF Flow, Numbered
  <2>3. /\ it.k = IF n <= Chunks THEN n ELSE Chunks + 1
        /\ it.last <=> n >= LastItem(c)
    BY <1>3, <2>1 DEF Flow, Numbered
  <2> QED BY <2>1, <2>2, <2>3
<1> HIDE DEF it
<1>5. \A t \in Ids \ {c} : /\ (Over(t)' <=> Over(t))
                              /\ received'[t] = received[t]
                              /\ (Flow(t) => Flow(t)')
  <2>1. ASSUME NEW t \in Ids \ {c}, Flow(t) PROVE Flow(t)'
    BY <1>0, <1>1, <1>2, <2>1, FlowKept DEF Sent
  <2>2. ASSUME NEW t \in Ids \ {c} PROVE (Over(t)' <=> Over(t)) /\ received'[t] = received[t]
    BY <1>0, <1>2, <2>2 DEF Over
  <2> QED BY <1>0, <2>1, <2>2
<1>6. \A t \in Ids : Expected(t)' = Expected(t)
  BY <1>0, <1>2 DEF Expected
<1>7. LastItem(c)' = LastItem(c) /\ Terminated(c)' = Terminated(c)
  BY <1>0, <1>2 DEF LastItem, Terminated
<1>8. CASE ~it.last
  <2>1. ~Over(c)'
    BY <1>0, <1>1, <1>c, <1>2, <1>8 DEF Over
  <2>2. n < LastItem(c) /\ n <= Chunks /\ it.k = n
    BY <1>0, <1>1, <1>c, <1>4, <1>8 DEF LastItem
  <2>3. received'[c] = Append(received[c], n)
    <3>1. WithoutDummy(it) = <<n>>
      BY <1>0, <1>8, <2>2 DEF WithoutDummy
    <3>2. received[c] \o <<n>> = Append(received[c], n)
      BY <1>0, <1>1, <1>c
    <3> QED BY <1>0, <1>1, <1>c, <1>2, <3>1, <3>2
  <2>4. /\ Len(received'[c]) = n /\ received'[c][n] = n
        /\ \A i \in 1..Len(received[c]) : received'[c][i] = received[c][i]
    BY <1>0, <1>1, <1>c, <2>3
  <2>5. /\ Len(output'[c]) = Len(output[c]) - 1
        /\ \A i \in 1..Len(output'[c]) : output'[c][i] = output[c][i + 1]
    BY <1>0, <1>1, <1>c, <1>2
  <2>6. /\ Out(c)' = Out(c) /\ Taken(c)' = Taken(c) /\ Feeding(c)' = Feeding(c)
        /\ Sent(c)' = Sent(c)
    <3>1. Out(c)' = Out(c)
      <4>1. /\ Out(c)' = Len(received'[c]) + Len(output'[c])
            /\ Out(c) = Len(received[c]) + Len(output[c])
        BY DEF Out
      <4> QED BY <1>0, <2>4, <2>5, <4>1
    <3> QED BY <1>2, <3>1 DEF Taken, Feeding, Sent
  <2>7. Numbered(c)'
    <3>1. ASSUME NEW i \in 1..n PROVE received'[c][i] = i
      <4>1. i = n \/ i \in 1..Len(received[c])
        BY <1>0
      <4> QED BY <1>3, <2>4, <4>1 DEF Flow, Numbered
    <3>2. ASSUME NEW i \in 1..Len(output'[c])
          PROVE  /\ output'[c][i].k = IF n + i <= Chunks THEN n + i ELSE Chunks + 1
                 /\ output'[c][i].last <=> n + i >= LastItem(c)
      <4>1. i + 1 \in 1..Len(output[c]) /\ Len(received[c]) + (i + 1) = n + i
        <5>1. Len(output[c]) \in Nat /\ Len(received[c]) \in Nat /\ i \in 1..(Len(output[c]) - 1)
          BY <1>0, <2>5
        <5> QED BY <5>1, OneFurther
      <4> QED BY <1>0, <1>3, <2>5, <4>1 DEF Flow, Numbered
    <3> HIDE DEF n
    <3> QED BY <1>7, <2>2, <2>4, <3>1, <3>2 DEF Numbered
  <2>8. Flow(c)'
    BY <1>0, <1>2, <1>3, <1>7, <2>6, <2>7 DEF Flow, Ahead, AtWork
  <2>9. ASSUME NEW t \in Ids PROVE IF Over(t)' THEN received'[t] = Expected(t)' ELSE Flow(t)'
    <3>1. CASE t = c
      BY <2>1, <2>8, <3>1
    <3>2. CASE t # c
      BY <1>5, <1>6, <3>2 DEF Delivery
    <3> QED BY <3>1, <3>2
  <2> QED BY <2>9 DEF Delivery
<1>9. CASE it.last
  <2>1. Over(c)'
    BY <1>0, <1>2, <1>9 DEF Over
  <2>2. n = LastItem(c)
    BY <1>0, <1>1, <1>c, <1>4, <1>9
  <2> DEFINE N == Chunks + IF kind = "deflate" /\ Sessions[c] = "compress" THEN 1 ELSE 0
  <2>3. /\ Len(received'[c]) = N /\ N \in Nat /\ received'[c] \in Seq(0..(Chunks + 1))
        /\ \A i \in 1..N : received'[c][i] = i
    <3>1. CASE kind = "lz4" /\ Sessions[c] = "decompress"
      <4>1. WithoutDummy(it) = <<>> /\ LastItem(c) = Chunks + 1 /\ N = Chunks
        BY <1>0, <1>2, <1>9, <3>1 DEF WithoutDummy, LastItem, Terminated, Dir
      <4>2. received'[c] = received[c]
        BY <1>0, <1>1, <1>c, <1>2, <4>1
      <4>3. Len(received[c]) = N
        BY <1>0, <1>1, <1>c, <2>2, <4>1
      <4> QED BY <1>0, <1>1, <1>c, <1>3, <4>1, <4>2, <4>3 DEF Flow, Numbered
    <3>2. CASE ~(kind = "lz4" /\ Sessions[c] = "decompress")
      <4>1. WithoutDummy(it) = <<it.k>> /\ N = n /\ it.k = n
        <5>1. WithoutDummy(it) = <<it.k>>
          BY <1>2, <3>2 DEF WithoutDummy, Dir
        <5>2. LastItem(c) = N
          BY <1>0, <3>2 DEF LastItem, Terminated
        <5>3. N \in {Chunks, Chunks + 1}
          BY <1>0
        <5> QED BY <1>0, <1>1, <1>c, <1>4, <2>2, <5>1, <5>2, <5>3
      <4>2. received'[c] = Append(received[c], n)
        <5>1. received[c] \o <<n>> = Append(received[c], n)
          BY <1>0, <1>1, <1>c
        <5> QED BY <1>0, <1>1, <1>c, <1>2, <4>1, <5>1
      <4>3. n \in 0..(Chunks + 1)
        BY <1>0, <1>4, <4>1 DEF Item
      <4>4. /\ Len(received'[c]) = n /\ received'[c][n] = n
            /\ received'[c] \in Seq(0..(Chunks + 1))
            /\ \A i \in 1..Len(received[c]) : received'[c][i] = received[c][i]
        BY <1>0, <1>1, <1>c, <4>2, <4>3
      <4>5. ASSUME NEW i \in 1..n PROVE received'[c][i] = i
        <5>1. i = n \/ i \in 1..Len(received[c])
          BY <1>0
        <5> QED BY <1>3, <4>4, <5>1 DEF Flow, Numbered
      <4> HIDE DEF N, n
      <4> QED BY <1>0, <1>4, <4>1, <4>4, <4>5
    <3> QED BY <1>0, <3>1, <3>2
  <2>4. received'[c] = [i \in 1..N |-> i]
    <3> HIDE DEF N
    <3> QED BY <2>3, CountsUp
  <2>5. received'[c] = Expected(c)
    BY <1>0, <2>4 DEF Expected
  <2>6. ASSUME NEW t \in Ids PROVE IF Over(t)' THEN received'[t] = Expected(t)' ELSE Flow(t)'
    <3>1. CASE t = c
      BY <1>1, <1>6, <2>1, <2>5, <3>1
    <3>2. CASE t # c
      BY <1>5, <1>6, <3>2 DEF Delivery
    <3> QED BY <3>1, <3>2
  <2> QED BY <2>6 DEF Delivery
<1> QED BY <1>0, <1>8, <1>9

LEMMA NextSessionDelivers ==
  ASSUME IInv, Delivery, NextSession
  PROVE  Delivery'
<1>1. /\ cur' = cur + 1 /\ pushed' = 0 /\ popper' = "spin" /\ popper = "done"
      /\ UNCHANGED <<kind, received, output, input, worker, held>>
      /\ cur \in Int
  BY DEF NextSession, IInv, TypeOK, shops
<1>2. \A t \in Ids : Over(t)' <=> Over(t)
  BY <1>1 DEF Over, Ids
<1>3. \A t \in Ids : ~Over(t) => Sent(t)' = Sent(t)
  BY <1>1 DEF Over, Sent, Ids
<1>4. \A t \in Ids : Expected(t)' = Expected(t)
  BY <1>1 DEF Expected
<1> QED BY <1>1, <1>2, <1>3, <1>4, FlowKept DEF Delivery

LEMMA DeliveryStep == IInv /\ Delivery /\ [Next]_vars => Delivery'
<1> SUFFICES ASSUME IInv, Delivery, [Next]_vars PROVE Delivery'
  OBVIOUS
<1> USE DEF pointers, shops, callers
<1>1. CASE StartSession \/ AssignThread \/ PushAgain \/ PushSpin
  BY <1>1, CallerKept DEF StartSession, AssignThread, PushAgain, PushSpin
<1>2. CASE Push
  BY <1>2, PushDelivers
<1>3. CASE PopSpin \/ Join \/ DeleteWorkshop \/ ClearPointers
  BY <1>3, CallerKept DEF PopSpin, Join, DeleteWorkshop, ClearPointers
<1>4. CASE Pop
  BY <1>4, PopDelivers
<1>5. CASE NextSession
  BY <1>5, NextSessionDelivers
<1>6. CASE \E s \in Ids : ProcessingThread(s) \/ WorkshopThread(s)
  BY <1>6, ThreadsDeliver
<1>7. CASE UNCHANGED vars
  BY <1>7, CallerKept DEF vars
<1>8. CASE Finished
  BY <1>7, <1>8 DEF Finished
<1> QED BY <1>1, <1>2, <1>3, <1>4, <1>5, <1>6, <1>7, <1>8 DEF Next, InputThread, OutputThread

(* When a session is over its pops have returned every chunk once, in order,  *)
(* with the one terminator that belongs to the output, whatever the depths of *)
(* the streams.                                                               *)
THEOREM SessionsDeliver == Spec => []Delivered
<1>1. Init => Delivery
  <2> SUFFICES ASSUME Init PROVE Delivery
    OBVIOUS
  <2>1. ASSUME NEW s \in Ids PROVE ~Over(s) /\ Flow(s)
    <3>1. /\ received[s] = <<>> /\ output[s] = <<>> /\ input[s] = <<>>
          /\ worker[s] = "unborn" /\ pushed = 0 /\ cur = 1 /\ popper = "spin"
      BY DEF Init
    <3>2. Out(s) = 0 /\ Taken(s) = 0 /\ Sent(s) = 0 /\ LastItem(s) > 0
      BY <3>1 DEF Out, Taken, Sent, LastItem
    <3>3. Numbered(s) /\ Ahead(s) /\ AtWork(s)
      BY <3>1, <3>2 DEF Numbered, Ahead, AtWork, Feeding
    <3> QED BY <3>1, <3>3 DEF Flow, Over, Ids
  <2> QED BY <2>1 DEF Delivery
<1>2. Delivery => Delivered
  BY DEF Delivery, Delivered, Over
<1> QED BY <1>1, <1>2, DeliveryStep, InvAlways, PTL DEF Spec
=============================================================================
