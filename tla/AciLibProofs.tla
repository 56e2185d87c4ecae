----------------------------- MODULE AciLibProofs -----------------------------
(***************************************************************************)
(* That every byte of a command or event is where both sides look for it,  *)
(* and that the library's view of the connection catches up with the link, *)
(* proved for all bytes in their fields, any peer, and every size of       *)
(* the queues.                                                             *)
(*                                                                         *)
(* ViewInv is about the second. What the program does not know yet is in   *)
(* the events that wait: of each kind that says something of the link, the *)
(* latest that waits says what is true, and with none the program knows.   *)
(*                                                                         *)
(* LibraryInv and the lemmas on layouts are about the first. The structs   *)
(* say where a field is, by the sizes of those before it; the encoders and *)
(* decoders have offsets written by hand. The two are compared for each of *)
(* the commands and events, and what follows from it for all the bytes of  *)
(* a packet, for all values, is then one proof for all of them.            *)
(***************************************************************************)
EXTENDS AciLib, SequenceTheorems, WellFoundedInduction, TLAPS

-----------------------------------------------------------------------------
(* Induction, by the least number for which something does not hold.       *)

LEMMA Least ==
    ASSUME NEW T \in SUBSET Nat, T # {}
    PROVE  \E m \in T : \A k \in T : m <= k
<1>1. PICK m \in T : \A k \in T : ~ (<<k, m>> \in OpToRel(<, Nat))
  BY NatLessThanWellFounded, WFMin, Zenon
<1>2. \A k \in T : ~ (k < m)
  BY <1>1 DEF OpToRel
<1> QED
  BY <1>2

(* What holds for 1 and is kept by each step up to n holds up to n.        *)
LEMMA UpTo ==
    ASSUME NEW n \in Nat, NEW T \in SUBSET (1..n),
           n > 0 => 1 \in T,
           \A m \in T : m < n => m + 1 \in T
    PROVE  T = 1..n
<1> DEFINE Bad == (1..n) \ T
<1> SUFFICES ASSUME Bad # {} PROVE FALSE
  OBVIOUS
<1>1. Bad \in SUBSET Nat
  OBVIOUS
<1> HIDE DEF Bad
<1>2. PICK m \in Bad : \A k \in Bad : m <= k
  BY <1>1, Least
<1>3. m \in 1..n /\ m \notin T
  BY <1>2 DEF Bad
<1>4. m # 1 /\ m - 1 \in 1..n
  BY <1>3
<1>5. m - 1 \notin Bad
  BY <1>2, <1>3
<1>6. m - 1 \in T /\ m - 1 < n /\ (m - 1) + 1 = m
  BY <1>3, <1>4, <1>5 DEF Bad
<1> QED
  BY <1>3, <1>6

-----------------------------------------------------------------------------
(* Packed fields.                                                          *)

(* The recursion of FlattenSeq has a solution.                             *)
FlattenStep(s, h, i) == IF i = 1 THEN s[i] ELSE h[i - 1] \o s[i]

LEMMA FlattenSolved ==
    ASSUME NEW n \in Nat, NEW s
    PROVE  \E h : h = [i \in 1..n |-> IF i = 1 THEN s[i] ELSE h[i - 1] \o s[i]]
<1> DEFINE Solves(h, m) == h = [i \in 1..m |-> FlattenStep(s, h, i)]
           T == {m \in 1..n : \E h : Solves(h, m)}
<1>1. n > 0 => 1 \in T
  <2> SUFFICES ASSUME n > 0 PROVE 1 \in T
    OBVIOUS
  <2>1. Solves([i \in 1..1 |-> s[1]], 1)
    BY DEF FlattenStep
  <2> QED
    BY <2>1
<1>2. ASSUME NEW m \in T, m < n PROVE m + 1 \in T
  <2>1. PICK h : Solves(h, m)
    OBVIOUS
  <2> DEFINE g == [i \in 1..m + 1 |-> IF i = m + 1 THEN h[m] \o s[m + 1] ELSE h[i]]
  <2>2. m \in Nat /\ m >= 1 /\ m + 1 \in 1..n
    BY <1>2
  <2>3. g[m + 1] = h[m] \o s[m + 1] /\ \A i \in 1..m : g[i] = h[i]
    <3>1. m + 1 \in 1..m + 1 /\ \A i \in 1..m : i \in 1..m + 1 /\ i # m + 1
      BY <2>2
    <3> QED
      BY <3>1
  <2>4. g = [i \in 1..m + 1 |-> g[i]]
    OBVIOUS
  <2> HIDE DEF g
  <2>5. ASSUME NEW i \in 1..m + 1 PROVE g[i] = FlattenStep(s, g, i)
    <3>1. CASE i = m + 1
      <4>1. i # 1 /\ i - 1 = m /\ m \in 1..m
        BY <2>2, <3>1
      <4> QED
        BY <2>3, <3>1, <4>1 DEF FlattenStep
    <3>2. CASE i # m + 1
      <4>1. i \in 1..m /\ (i # 1 => i - 1 \in 1..m)
        BY <2>2, <3>2
      <4> QED
        BY <2>1, <2>3, <4>1 DEF FlattenStep
    <3> QED
      BY <3>1, <3>2
  <2>6. Solves(g, m + 1)
    BY <2>4, <2>5
  <2> QED
    BY <2>2, <2>6
<1>3. T = 1..n
  <2>1. T \in SUBSET (1..n)
    OBVIOUS
  <2> HIDE DEF T
  <2> QED
    BY <1>1, <1>2, <2>1, UpTo
<1>4. CASE n = 0
  <2>1. <<>> = [i \in 1..n |-> IF i = 1 THEN s[i] ELSE <<>>[i - 1] \o s[i]]
    BY <1>4
  <2> QED
    BY <2>1
<1>5. CASE n # 0
  <2>1. n \in T
    BY <1>3, <1>5
  <2>2. PICK h : Solves(h, n)
    BY <2>1
  <2> QED
    BY <2>2 DEF FlattenStep
<1> QED
  BY <1>4, <1>5

(* Each of the sequences is in the whole, behind those before it.          *)
Places(s, at) ==
    /\ at \in [1..Len(s) -> Nat]
    /\ Len(s) > 0 => at[1] = 0
    /\ \A i \in 1..Len(s) : i < Len(s) => at[i + 1] = at[i] + Len(s[i])

Concatenated(c, a, b, S) ==
    /\ c \in Seq(S) /\ Len(c) = Len(a) + Len(b)
    /\ \A k \in 1..Len(a) : k \in 1..Len(c) /\ c[k] = a[k]
    /\ \A k \in 1..Len(b) : Len(a) + k \in 1..Len(c) /\ c[Len(a) + k] = b[k]

LEMMA Concat ==
    ASSUME NEW S, NEW a \in Seq(S), NEW b \in Seq(S)
    PROVE  Concatenated(a \o b, a, b, S)
<1>1. Len(a) \in Nat /\ Len(b) \in Nat
  BY LenProperties
<1>2. /\ a \o b \in Seq(S)
      /\ Len(a \o b) = Len(a) + Len(b)
      /\ \A k \in 1..Len(a) + Len(b) : (a \o b)[k] = IF k <= Len(a) THEN a[k] ELSE b[k - Len(a)]
  BY ConcatProperties
<1>3. ASSUME NEW k \in 1..Len(b)
      PROVE  Len(a) + k \in 1..Len(a \o b) /\ (a \o b)[Len(a) + k] = b[k]
  <2>1. /\ Len(a) + k \in 1..Len(a) + Len(b) /\ ~ (Len(a) + k <= Len(a))
        /\ Len(a) + k - Len(a) = k
    BY <1>1
  <2> QED
    BY <1>2, <2>1
<1>4. ASSUME NEW k \in 1..Len(a) PROVE k \in 1..Len(a \o b) /\ (a \o b)[k] = a[k]
  BY <1>1, <1>2
<1> QED
  BY <1>2, <1>3, <1>4, Zenon DEF Concatenated

LEMMA FlattenPlaces ==
    ASSUME NEW S, NEW s \in Seq(Seq(S)), NEW at, Places(s, at), Len(s) > 0
    PROVE  /\ FlattenSeq(s) \in Seq(S)
           /\ Len(FlattenSeq(s)) = at[Len(s)] + Len(s[Len(s)])
           /\ \A i \in 1..Len(s) : \A k \in 1..Len(s[i]) :
                /\ at[i] + k \in 1..Len(FlattenSeq(s))
                /\ FlattenSeq(s)[at[i] + k] = s[i][k]
<1> DEFINE n == Len(s)
<1>1. n \in Nat /\ n > 0 /\ n \in 1..n /\ \A i \in 1..n : s[i] \in Seq(S) /\ at[i] \in Nat
  BY LenProperties, ElementOfSeq DEF Places
<1>2. PICK h : h = [i \in 1..n |-> IF i = 1 THEN s[i] ELSE h[i - 1] \o s[i]]
  <2> HIDE DEF n
  <2> QED
    BY <1>1, FlattenSolved
<1>3. PICK f : /\ f = [i \in 1..n |-> IF i = 1 THEN s[i] ELSE f[i - 1] \o s[i]]
               /\ FlattenSeq(s) = f[n]
  <2> DEFINE c == CHOOSE h1 : h1 = [i \in 1..Len(s) |-> IF i = 1 THEN s[i] ELSE h1[i - 1] \o s[i]]
  <2>1. FlattenSeq(s) = c[n]
    <3>1. Len(s) # 0
      BY <1>1
    <3> QED
      BY <3>1, Zenon DEF FlattenSeq
  <2>2. c = [i \in 1..n |-> IF i = 1 THEN s[i] ELSE c[i - 1] \o s[i]]
    BY <1>2, Zenon
  <2> HIDE DEF c, n
  <2> QED
    BY <2>1, <2>2
<1> DEFINE Fits(m) ==
      /\ f[m] \in Seq(S) /\ Len(f[m]) = at[m] + Len(s[m])
      /\ \A i \in 1..m : \A k \in 1..Len(s[i]) :
            at[i] + k \in 1..Len(f[m]) /\ f[m][at[i] + k] = s[i][k]
           T == {m \in 1..n : Fits(m)}
<1>4. 1 \in T
  <2>1. 1 \in 1..n /\ f[1] = s[1] /\ at[1] = 0
    BY <1>1, <1>3 DEF Places
  <2>2. Fits(1)
    <3>1. Len(s[1]) \in Nat /\ \A i \in 1..1 : i = 1
      BY <1>1, <2>1, LenProperties
    <3>2. \A k \in 1..Len(s[1]) : 0 + k = k
      BY <3>1
    <3> QED
      BY <1>1, <2>1, <3>1, <3>2
  <2> QED
    BY <2>1, <2>2
<1>5. ASSUME NEW m \in T, m < n PROVE m + 1 \in T
  <2>1. m \in 1..n /\ m + 1 \in 1..n /\ m + 1 # 1 /\ (m + 1) - 1 = m /\ m \in Nat
    BY <1>1, <1>5
  <2>2. f[m + 1] = f[m] \o s[m + 1]
    BY <1>3, <2>1
  <2>3. Fits(m)
    BY <1>5
  <2>4. at[m + 1] = Len(f[m]) /\ s[m + 1] \in Seq(S) /\ f[m] \in Seq(S)
    <3>1. at[m + 1] = at[m] + Len(s[m])
      BY <1>5, <2>1 DEF Places
    <3> QED
      BY <1>1, <2>1, <2>3, <3>1
  <2>5. /\ f[m + 1] \in Seq(S) /\ Len(f[m + 1]) = Len(f[m]) + Len(s[m + 1])
        /\ \A k \in 1..Len(f[m]) : k \in 1..Len(f[m + 1]) /\ f[m + 1][k] = f[m][k]
        /\ \A k \in 1..Len(s[m + 1]) :
             Len(f[m]) + k \in 1..Len(f[m + 1]) /\ f[m + 1][Len(f[m]) + k] = s[m + 1][k]
    <3> DEFINE a == f[m]
               b == s[m + 1]
    <3>1. a \in Seq(S) /\ b \in Seq(S) /\ f[m + 1] = a \o b
      BY <2>2, <2>4
    <3> HIDE DEF a, b
    <3>2. Concatenated(a \o b, a, b, S)
      BY <3>1, Concat
    <3>3. Concatenated(f[m + 1], a, b, S)
      BY <3>1, <3>2, Zenon
    <3> QED
      BY <3>3, Zenon DEF a, b, Concatenated
  <2>6. ASSUME NEW i \in 1..m + 1, NEW k \in 1..Len(s[i])
        PROVE  at[i] + k \in 1..Len(f[m + 1]) /\ f[m + 1][at[i] + k] = s[i][k]
    <3>1. CASE i = m + 1
      BY <2>4, <2>5, <3>1
    <3>2. CASE i # m + 1
      <4>1. i \in 1..m
        BY <2>1, <3>2
      <4>2. at[i] + k \in 1..Len(f[m]) /\ f[m][at[i] + k] = s[i][k]
        BY <2>3, <4>1
      <4> QED
        BY <2>5, <4>2
    <3> QED
      BY <3>1, <3>2
  <2>7. Fits(m + 1)
    BY <2>4, <2>5, <2>6
  <2> QED
    BY <2>1, <2>7
<1>6. T = 1..n
  <2>1. T \in SUBSET (1..n)
    OBVIOUS
  <2> HIDE DEF T, n
  <2> QED
    BY <1>1, <1>4, <1>5, <2>1, UpTo
<1>7. Fits(n)
  <2>1. n \in T
    <3> HIDE DEF T, n
    <3> QED
      BY <1>1, <1>6
  <2> QED
    BY <2>1
<1> QED
  BY <1>3, <1>7

-----------------------------------------------------------------------------
(* Structs.                                                                *)

(* Fields with different names, each with its size.                        *)
IsStruct(struct) ==
    /\ Len(struct) \in Nat \ {0} /\ struct = [i \in 1..Len(struct) |-> struct[i]]
    /\ \A i \in 1..Len(struct) : struct[i][2] \in Nat
    /\ \A i, j \in 1..Len(struct) : struct[i][1] = struct[j][1] => i = j

LEMMA StructFields ==
    ASSUME NEW struct, IsStruct(struct)
    PROVE  /\ Len(struct) \in Nat /\ Len(struct) > 0 /\ Len(struct) \in 1..Len(struct)
           /\ \A i \in 1..Len(struct) : struct[i][2] \in Nat
<1> DEFINE n == Len(struct)
<1>1. n \in Nat \ {0} /\ \A i \in 1..n : struct[i][2] \in Nat
  BY DEF IsStruct
<1> HIDE DEF n
<1>2. n \in Nat /\ n > 0 /\ n \in 1..n
  BY <1>1
<1> QED
  BY <1>1, <1>2 DEF n

(* The offsets are those of fields that follow one another.                *)
LEMMA OffsetsFollow ==
    ASSUME NEW struct, IsStruct(struct)
    PROVE  /\ Offsets(struct) \in [1..Len(struct) -> Nat]
           /\ Offsets(struct)[1] = OFFSET_PARAMS
           /\ \A i \in 1..Len(struct) : Offsets(struct)[i] >= OFFSET_PARAMS
           /\ \A i \in 1..Len(struct) : i < Len(struct) =>
                Offsets(struct)[i + 1] = Offsets(struct)[i] + struct[i][2]
<1> DEFINE n == Len(struct)
           Step(h, i) == IF i = 1 THEN OFFSET_PARAMS ELSE h[i - 1] + struct[i - 1][2]
           Solves(h, m) == h = [i \in 1..m |-> Step(h, i)]
           T == {m \in 1..n : \E h : Solves(h, m)}
<1>1. n \in Nat /\ n > 0 /\ n \in 1..n /\ \A i \in 1..n : struct[i][2] \in Nat
  BY StructFields
<1> HIDE DEF n
<1>2. 1 \in T
  <2>1. Solves([i \in 1..1 |-> OFFSET_PARAMS], 1)
    OBVIOUS
  <2>2. 1 \in 1..n
    BY <1>1
  <2> HIDE DEF Solves
  <2> QED
    BY <2>1, <2>2
<1>3. ASSUME NEW m \in T, m < n PROVE m + 1 \in T
  <2>1. PICK h : Solves(h, m)
    OBVIOUS
  <2> DEFINE g == [i \in 1..m + 1 |-> IF i = m + 1 THEN h[m] + struct[m][2] ELSE h[i]]
  <2>2. m \in Nat /\ m >= 1 /\ m + 1 \in 1..n
    <3>1. m \in 1..n
      BY Zenon
    <3> QED
      BY <1>1, <1>3, <3>1
  <2>3. g[m + 1] = h[m] + struct[m][2] /\ \A i \in 1..m : g[i] = h[i]
    <3>1. m + 1 \in 1..m + 1 /\ \A i \in 1..m : i \in 1..m + 1 /\ i # m + 1
      BY <2>2
    <3> QED
      BY <3>1
  <2>4. g = [i \in 1..m + 1 |-> g[i]]
    OBVIOUS
  <2> HIDE DEF g
  <2>5. ASSUME NEW i \in 1..m + 1 PROVE g[i] = Step(g, i)
    <3>1. CASE i = m + 1
      <4>1. i # 1 /\ i - 1 = m /\ m \in 1..m
        BY <2>2, <3>1
      <4> QED
        BY <2>3, <3>1, <4>1
    <3>2. CASE i # m + 1
      <4>1. i \in 1..m /\ (i # 1 => i - 1 \in 1..m)
        BY <2>2, <3>2
      <4> QED
        BY <2>1, <2>3, <4>1
    <3> QED
      BY <3>1, <3>2
  <2>6. Solves(g, m + 1)
    BY <2>4, <2>5
  <2> QED
    BY <2>2, <2>6
<1>4. T = 1..n
  <2>1. T \in SUBSET (1..n)
    OBVIOUS
  <2> HIDE DEF T
  <2> QED
    BY <1>1, <1>2, <1>3, <2>1, UpTo
<1>5. PICK h : Solves(h, n)
  <2>1. n \in T
    BY <1>1, <1>4
  <2> QED
    BY <2>1
<1> DEFINE f == Offsets(struct)
<1>6. Solves(f, n)
  <2>1. f = CHOOSE h1 : h1 = [i \in 1..Len(struct) |->
                IF i = 1 THEN OFFSET_PARAMS ELSE h1[i - 1] + struct[i - 1][2]]
    BY Zenon DEF Offsets
  <2> QED
    BY <1>5, <2>1, Zenon DEF n
<1> HIDE DEF f
<1>7. DOMAIN f = 1..n /\ f = [i \in 1..n |-> f[i]] /\ f[1] = 2
      /\ \A i \in 1..n : i < n => f[i + 1] = f[i] + struct[i][2]
  <2>1. DOMAIN f = 1..n /\ f = [i \in 1..n |-> f[i]] /\ \A i \in 1..n : f[i] = Step(f, i)
    BY <1>6
  <2>2. ASSUME NEW i \in 1..n, i < n PROVE f[i + 1] = f[i] + struct[i][2]
    <3>1. i + 1 \in 1..n /\ i + 1 # 1 /\ (i + 1) - 1 = i
      BY <1>1, <2>2
    <3> QED
      BY <2>1, <3>1
  <2>3. f[1] = OFFSET_PARAMS
    <3>1. 1 \in 1..n
      BY <1>1
    <3> QED
      BY <2>1, <3>1
  <2> HIDE DEF Step
  <2> QED
    BY <2>1, <2>2, <2>3 DEF OFFSET_PARAMS
<1> DEFINE U == {i \in 1..n : f[i] \in Nat /\ f[i] >= 2}
<1>8. U = 1..n
  <2>1. 1 \in U /\ U \in SUBSET (1..n)
    BY <1>1, <1>7
  <2>2. ASSUME NEW m \in U, m < n PROVE m + 1 \in U
    <3>1. m \in 1..n /\ m + 1 \in 1..n /\ f[m] \in Nat /\ f[m] >= 2
      BY <1>1, <2>2
    <3>2. f[m + 1] = f[m] + struct[m][2] /\ struct[m][2] \in Nat
      BY <1>1, <1>7, <2>2, <3>1
    <3>3. f[m + 1] \in Nat /\ f[m + 1] >= 2
      BY <3>1, <3>2
    <3> QED
      BY <3>1, <3>3
  <2> HIDE DEF U
  <2> QED
    BY <1>1, <2>1, <2>2, UpTo
<1>9. \A i \in 1..n : f[i] \in Nat /\ f[i] >= 2
  BY <1>8
<1> QED
  BY <1>7, <1>9 DEF f, n, OFFSET_PARAMS

(* Fields of bytes of which all but the last have the size that the struct *)
(* says, and how many bytes there are up to the end of the last.           *)
Fit(struct, fields, S) ==
    \A i \in 1..Len(struct) :
        /\ struct[i][1] \in DOMAIN fields
        /\ fields[struct[i][1]] \in Seq(S)
        /\ i < Len(struct) => Len(fields[struct[i][1]]) = struct[i][2]

SizeOf(struct, fields) ==
    Offsets(struct)[Len(struct)] - OFFSET_PARAMS + Len(fields[struct[Len(struct)][1]])

LEMMA PackedFields ==
    ASSUME NEW struct, IsStruct(struct), NEW fields, NEW S, Fit(struct, fields, S)
    PROVE  /\ Packed(struct, fields) \in Seq(S)
           /\ Len(Packed(struct, fields)) = SizeOf(struct, fields)
           /\ \A i \in 1..Len(struct) : \A k \in 1..Len(fields[struct[i][1]]) :
                LET j == Offsets(struct)[i] - OFFSET_PARAMS + k
                IN  /\ j \in 1..SizeOf(struct, fields)
                    /\ Packed(struct, fields)[j] = fields[struct[i][1]][k]
<1> DEFINE n == Len(struct)
           s == [i \in 1..n |-> IF struct[i][1] \in DOMAIN fields THEN fields[struct[i][1]]
                                                                  ELSE <<>>]
           f == Offsets(struct)
           at == [i \in 1..n |-> f[i] - OFFSET_PARAMS]
<1>1. n \in Nat /\ n > 0 /\ n \in 1..n
  BY StructFields
<1>2. /\ f \in [1..n -> Nat] /\ f[1] = OFFSET_PARAMS
      /\ \A i \in 1..n : f[i] >= OFFSET_PARAMS
      /\ \A i \in 1..n : i < n => f[i + 1] = f[i] + struct[i][2]
  BY OffsetsFollow
<1>3. \A i \in 1..n : s[i] = fields[struct[i][1]] /\ s[i] \in Seq(S)
  BY DEF Fit
<1>4. s \in Seq(Seq(S)) /\ Len(s) = n
  <2>1. s \in [1..n -> Seq(S)]
    BY DEF Fit
  <2> HIDE DEF s, n
  <2> QED
    BY <1>1, <2>1
<1>5. Packed(struct, fields) = FlattenSeq(s)
  BY Zenon DEF Packed
<1>6. \A i \in 1..n : i < n => Len(s[i]) = struct[i][2]
  BY <1>3 DEF Fit
<1> HIDE DEF s, n, f
<1>7. /\ at \in [1..n -> Nat] /\ at[1] = 0
      /\ \A i \in 1..n : i < n => at[i + 1] = at[i] + Len(s[i])
  <2>1. ASSUME NEW i \in 1..n, i < n PROVE at[i + 1] = at[i] + Len(s[i])
    <3>1. i + 1 \in 1..n
      BY <1>1, <2>1
    <3>2. at[i + 1] = f[i + 1] - OFFSET_PARAMS /\ at[i] = f[i] - OFFSET_PARAMS
      BY <3>1
    <3>3. f[i + 1] = f[i] + struct[i][2] /\ Len(s[i]) = struct[i][2] /\ Len(s[i]) \in Nat
      BY <1>2, <1>3, <1>6, <2>1, LenProperties
    <3> HIDE DEF at
    <3> QED
      BY <1>2, <3>1, <3>2, <3>3 DEF OFFSET_PARAMS
  <2> QED
    BY <1>1, <1>2, <2>1 DEF OFFSET_PARAMS
<1>8. Places(s, at)
  BY <1>4, <1>7 DEF Places
<1>9. \A i \in 1..n : at[i] = f[i] - OFFSET_PARAMS
  OBVIOUS
<1> HIDE DEF at
<1>10. /\ FlattenSeq(s) \in Seq(S)
       /\ Len(FlattenSeq(s)) = at[n] + Len(s[n])
       /\ \A i \in 1..n : \A k \in 1..Len(s[i]) :
            /\ at[i] + k \in 1..Len(FlattenSeq(s))
            /\ FlattenSeq(s)[at[i] + k] = s[i][k]
  <2>1. Len(s) > 0
    BY <1>1, <1>4
  <2>2. /\ FlattenSeq(s) \in Seq(S)
        /\ Len(FlattenSeq(s)) = at[Len(s)] + Len(s[Len(s)])
        /\ \A i \in 1..Len(s) : \A k \in 1..Len(s[i]) :
             /\ at[i] + k \in 1..Len(FlattenSeq(s))
             /\ FlattenSeq(s)[at[i] + k] = s[i][k]
    BY <1>4, <1>8, <2>1, FlattenPlaces
  <2> QED
    BY <1>4, <2>2, Zenon
<1>11. SizeOf(struct, fields) = at[n] + Len(s[n])
  BY <1>1, <1>3, <1>9, Zenon DEF SizeOf, n, f
<1>12. \A i \in 1..n : \A k \in 1..Len(s[i]) :
          LET j == f[i] - OFFSET_PARAMS + k
          IN  j \in 1..SizeOf(struct, fields) /\ FlattenSeq(s)[j] = s[i][k]
  BY <1>9, <1>10, <1>11, Zenon
<1>13. n = Len(struct) /\ f = Offsets(struct)
  BY DEF n, f
<1>14. Packed(struct, fields) \in Seq(S)
       /\ Len(Packed(struct, fields)) = SizeOf(struct, fields)
  BY <1>5, <1>10, <1>11
<1>15. ASSUME NEW i \in 1..Len(struct), NEW k \in 1..Len(fields[struct[i][1]])
       PROVE  LET j == Offsets(struct)[i] - OFFSET_PARAMS + k
              IN  /\ j \in 1..SizeOf(struct, fields)
                  /\ Packed(struct, fields)[j] = fields[struct[i][1]][k]
  <2>1. i \in 1..n /\ s[i] = fields[struct[i][1]] /\ k \in 1..Len(s[i])
    BY <1>3, <1>13
  <2> QED
    BY <1>5, <1>12, <1>13, <2>1
<1> QED
  BY <1>14, <1>15

-----------------------------------------------------------------------------
(* Packets of events.                                                      *)

Bytes == 0..255
Packets == [0..HAL_ACI_MAX_LENGTH -> Bytes \cup {Stale}]

StructOf(r) == EvtParams(r.evt, r.cmd)

(* The chip's packet for a report has its length, the opcode, and then the *)
(* fields, at the offsets of the struct.                                   *)
LEMMA PacketFields ==
    ASSUME NEW r, IsStruct(StructOf(r)), Fit(StructOf(r), r.fields, Bytes),
           SizeOf(StructOf(r), r.fields) < HAL_ACI_MAX_LENGTH,
           aci_evt_opcode_t[r.evt] \in Bytes
    PROVE  /\ PacketOf(r) \in Packets
           /\ SizeOf(StructOf(r), r.fields) \in 0..HAL_ACI_MAX_LENGTH - 1
           /\ PacketOf(r)[0] = 1 + SizeOf(StructOf(r), r.fields)
           /\ PacketOf(r)[1] = aci_evt_opcode_t[r.evt]
           /\ \A i \in 1..Len(StructOf(r)) : \A k \in 1..Len(r.fields[StructOf(r)[i][1]]) :
                LET j == Offsets(StructOf(r))[i] + k - 1
                IN  /\ j \in 2..PacketOf(r)[0]
                    /\ PacketOf(r)[j] = r.fields[StructOf(r)[i][1]][k]
<1> DEFINE struct == StructOf(r)
<1> HIDE DEF struct
<1>0. /\ IsStruct(struct) /\ Fit(struct, r.fields, Bytes)
      /\ SizeOf(struct, r.fields) < HAL_ACI_MAX_LENGTH
      /\ struct = EvtParams(r.evt, r.cmd)
  BY DEF struct, StructOf
<1> DEFINE params == Packed(struct, r.fields)
           size == SizeOf(struct, r.fields)
           opcode == aci_evt_opcode_t[r.evt]
           front == <<1 + Len(params), opcode>>
           bytes == front \o params
           packet == [i \in 0..HAL_ACI_MAX_LENGTH |-> IF i < Len(bytes) THEN bytes[i + 1]
                                                                        ELSE Stale]
<1>1. PacketOf(r) = packet
  BY <1>0, Zenon DEF PacketOf
<1>2. /\ params \in Seq(Bytes) /\ Len(params) = size /\ size \in Nat
      /\ \A i \in 1..Len(struct) : \A k \in 1..Len(r.fields[struct[i][1]]) :
           LET j == Offsets(struct)[i] - OFFSET_PARAMS + k
           IN  j \in 1..size /\ params[j] = r.fields[struct[i][1]][k]
  <2>1. /\ params \in Seq(Bytes) /\ Len(params) = size
        /\ \A i \in 1..Len(struct) : \A k \in 1..Len(r.fields[struct[i][1]]) :
             LET j == Offsets(struct)[i] - OFFSET_PARAMS + k
             IN  j \in 1..size /\ params[j] = r.fields[struct[i][1]][k]
    BY <1>0, PackedFields
  <2>2. Len(params) \in Nat
    BY <2>1, LenProperties
  <2> QED
    BY <2>1, <2>2
<1>3. opcode \in Bytes /\ size < 31
  BY <1>0 DEF HAL_ACI_MAX_LENGTH
<1> HIDE DEF params, size, opcode
<1>4. front \in Seq(Bytes) /\ Len(front) = 2 /\ front[1] = 1 + size /\ front[2] = opcode
  BY <1>2, <1>3 DEF Bytes
<1> HIDE DEF front
<1>5. /\ bytes \in Seq(Bytes) /\ Len(bytes) = 2 + size
      /\ \A k \in 1..2 : bytes[k] = front[k]
      /\ \A k \in 1..size : bytes[2 + k] = params[k]
  <2>1. /\ bytes \in Seq(Bytes) /\ Len(bytes) = Len(front) + Len(params)
        /\ \A k \in 1..Len(front) : k \in 1..Len(bytes) /\ bytes[k] = front[k]
        /\ \A k \in 1..Len(params) :
             Len(front) + k \in 1..Len(bytes) /\ bytes[Len(front) + k] = params[k]
    <3>1. params \in Seq(Bytes) /\ front \in Seq(Bytes)
      BY <1>2, <1>4
    <3>2. Concatenated(front \o params, front, params, Bytes)
      BY <3>1, Concat, Zenon
    <3> QED
      BY <3>2, Zenon DEF Concatenated
  <2> HIDE DEF bytes
  <2> QED
    BY <1>2, <1>4, <2>1, Zenon
<1>6. \A k \in 1..2 + size : bytes[k] \in Bytes
  BY <1>5, ElementOfSeq
<1> HIDE DEF bytes
<1>7. /\ \A i \in 0..31 : i < 2 + size => packet[i] = bytes[i + 1]
      /\ \A i \in 0..31 : ~ (i < 2 + size) => packet[i] = Stale
  BY <1>5 DEF HAL_ACI_MAX_LENGTH
<1>8. packet \in Packets
  <2>1. ASSUME NEW i \in 0..31 PROVE packet[i] \in Bytes \cup {Stale}
    <3>1. CASE i < 2 + size
      <4>1. i + 1 \in 1..2 + size
        BY <1>2, <3>1
      <4> HIDE DEF packet
      <4> QED
        BY <1>6, <1>7, <3>1, <4>1
    <3>2. CASE ~ (i < 2 + size)
      <4> HIDE DEF packet
      <4> QED
        BY <1>7, <3>2
    <3> QED
      BY <3>1, <3>2
  <2> QED
    BY <2>1 DEF Packets, HAL_ACI_MAX_LENGTH
<1> HIDE DEF packet
<1>9. packet[0] = 1 + size /\ packet[1] = opcode
  <2>1. 0 < 2 + size /\ 1 < 2 + size /\ 0 + 1 = 1 /\ 1 + 1 = 2
    BY <1>2
  <2>2. packet[0] = bytes[1] /\ packet[1] = bytes[2]
    BY <1>7, <2>1
  <2> QED
    BY <1>4, <1>5, <2>2
<1>10. ASSUME NEW i \in 1..Len(struct), NEW k \in 1..Len(r.fields[struct[i][1]])
       PROVE  LET j == Offsets(struct)[i] + k - 1
              IN  j \in 2..1 + size /\ packet[j] = r.fields[struct[i][1]][k]
  <2> DEFINE m == Offsets(struct)[i] - OFFSET_PARAMS + k
             j == Offsets(struct)[i] + k - 1
  <2>1. m \in 1..size /\ params[m] = r.fields[struct[i][1]][k]
    BY <1>2
  <2>2. j = m + 1
    <3>1. Offsets(struct)[i] \in Nat /\ k \in Int
      BY <1>0, OffsetsFollow
    <3> QED
      BY <3>1 DEF OFFSET_PARAMS
  <2> HIDE DEF m, j
  <2>3. j \in 2..1 + size /\ j \in 0..31 /\ j < 2 + size /\ j + 1 = 2 + m
    BY <1>2, <1>3, <2>1, <2>2
  <2>4. packet[j] = params[m]
    BY <1>5, <1>7, <2>1, <2>3, Zenon
  <2> QED
    BY <2>1, <2>3, <2>4 DEF j
<1>11. size \in 0..HAL_ACI_MAX_LENGTH - 1
  <2>1. size \in Nat /\ size < 31
    BY <1>2, <1>3
  <2> QED
    BY <2>1 DEF HAL_ACI_MAX_LENGTH
<1> QED
  BY <1>1, <1>8, <1>9, <1>10, <1>11 DEF size, opcode, struct

(* The library's way to a field, by the struct of the event, finds what    *)
(* the chip has reported.                                                  *)
LEMMA FieldAsReported ==
    ASSUME NEW r, IsStruct(StructOf(r)), Fit(StructOf(r), r.fields, Bytes),
           SizeOf(StructOf(r), r.fields) < HAL_ACI_MAX_LENGTH,
           aci_evt_opcode_t[r.evt] \in Bytes,
           StructOf(r) = aci_evt_params[r.evt],
           NEW i \in 1..Len(StructOf(r)),
           Len(r.fields[StructOf(r)[i][1]]) = StructOf(r)[i][2]
    PROVE  LET f == StructOf(r)[i][1]
           IN  Field(r.evt, PacketOf(r), f) = r.fields[f]
<1> DEFINE struct == StructOf(r)
           f == struct[i][1]
           c == CHOOSE j \in 1..Len(struct) : struct[j][1] = f
           packet == PacketOf(r)
           size == struct[i][2]
<1>1. c = i
  <2>1. c \in 1..Len(struct) /\ struct[c][1] = struct[i][1]
    OBVIOUS
  <2> HIDE DEF c
  <2> QED
    BY <2>1 DEF IsStruct
<1>2. Field(r.evt, packet, f) = [k \in 1..struct[c][2] |-> packet[Offsets(struct)[c] + k - 1]]
  BY Zenon DEF Field
<1>4. \A k \in 1..Len(r.fields[f]) : packet[Offsets(struct)[i] + k - 1] = r.fields[f][k]
  BY PacketFields, Zenon
<1>5. Len(r.fields[f]) = size /\ r.fields[f] \in Seq(Bytes)
  BY DEF Fit
<1> HIDE DEF c, f, packet, size
<1>6. Field(r.evt, packet, f) = [k \in 1..size |-> packet[Offsets(struct)[i] + k - 1]]
  BY <1>1, <1>2 DEF size
<1>7. [k \in 1..size |-> packet[Offsets(struct)[i] + k - 1]] = [k \in 1..size |-> r.fields[f][k]]
  BY <1>4, <1>5
<1>8. [k \in 1..size |-> r.fields[f][k]] = r.fields[f]
  BY <1>5, LenProperties
<1> QED
  BY <1>6, <1>7, <1>8, Zenon DEF f, packet

-----------------------------------------------------------------------------
(* The structs of the events: that they are, at which offset each field    *)
(* is, and that the offsets written for the decoders are the same ones.    *)

(* The offset of each field is where the one before it ends.               *)
Layout(struct, at) ==
    /\ at[1] = OFFSET_PARAMS
    /\ \A i \in 1..Len(struct) : i < Len(struct) => at[i + 1] = at[i] + struct[i][2]

LEMMA LayoutOffsets ==
    ASSUME NEW struct, IsStruct(struct), NEW at, Layout(struct, at)
    PROVE  \A i \in 1..Len(struct) : Offsets(struct)[i] = at[i]
<1> DEFINE n == Len(struct)
           f == Offsets(struct)
           T == {i \in 1..n : f[i] = at[i]}
<1>1. n \in Nat /\ n > 0
  BY StructFields
<1>2. f[1] = OFFSET_PARAMS /\ \A i \in 1..n : i < n => f[i + 1] = f[i] + struct[i][2]
  BY OffsetsFollow
<1>3. at[1] = OFFSET_PARAMS /\ \A i \in 1..n : i < n => at[i + 1] = at[i] + struct[i][2]
  BY DEF Layout
<1> HIDE DEF n, f
<1>4. T = 1..n
  <2>1. 1 \in T
    BY <1>1, <1>2, <1>3
  <2>2. ASSUME NEW m \in T, m < n PROVE m + 1 \in T
    <3>1. m \in 1..n /\ m + 1 \in 1..n /\ f[m] = at[m]
      BY <1>1, <2>2
    <3> QED
      BY <1>2, <1>3, <2>2, <3>1
  <2>3. T \in SUBSET (1..n)
    OBVIOUS
  <2> HIDE DEF T
  <2> QED
    BY <1>1, <2>1, <2>2, <2>3, UpTo
<1>5. \A i \in 1..n : f[i] = at[i]
  BY <1>4
<1> QED
  BY <1>5 DEF n, f

(* Data is as long as it is, up to a limit. The struct of a response has a *)
(* byte of dynamic data, for what may be more.                             *)
ArrayFields == {"aci_data", "echo_data", "file_name", "dynamic_data"}
DYNAMIC_DATA_MAX_LEN == 26
MaxOf(field) == IF field[1] = "dynamic_data" THEN DYNAMIC_DATA_MAX_LEN ELSE field[2]

(* The fields of a struct are at the offsets written, byte by byte, only   *)
(* the last is an array, and with it there are fewer bytes than n.         *)
LaidOut(struct, at, offsets, n) ==
    /\ IsStruct(struct) /\ Layout(struct, at) /\ Len(struct) < 10
    /\ \A i \in 1..Len(struct) :
        /\ struct[i][1] \in ArrayFields => i = Len(struct)
        /\ MaxOf(struct[i]) \in Nat /\ struct[i][2] < 30 /\ struct[i][2] <= MaxOf(struct[i])
    /\ at[Len(struct)] - OFFSET_PARAMS + MaxOf(struct[Len(struct)]) < n
    /\ DOMAIN offsets = {struct[i][1] : i \in 1..Len(struct)}
    /\ \A i \in 1..Len(struct) : \A k \in 1..MaxOf(struct[i]) :
        Place(offsets[struct[i][1]], k) = at[i] + k - 1

EvtOffsets ==
    [device_started |-> <<2, 3, 4>>,
     echo |-> <<2>>,
     hw_error |-> <<2, 4>>,
     cmd_rsp |-> <<2, 3>>,
     connected |-> <<2, 3, 9, 11, 13, 15>>,
     disconnected |-> <<2, 3>>,
     bond_status |-> <<2, 3, 4, 5, 6, 7>>,
     pipe_status |-> <<2, 10>>,
     timing |-> <<2, 4, 6>>,
     data_credit |-> <<2>>,
     data_ack |-> <<2>>,
     data_received |-> <<2, 3>>,
     pipe_error |-> <<2, 3, 4>>,
     display_passkey |-> <<2>>,
     key_request |-> <<2>>]

LEMMA EventsLaidOut ==
    ASSUME NEW evt \in DOMAIN aci_evt_params
    PROVE  LaidOut(aci_evt_params[evt], EvtOffsets[evt], OFFSET_ACI_EVT_PARAMS[evt],
                   HAL_ACI_MAX_LENGTH)
<1> USE DEF aci_evt_params, OFFSET_ACI_EVT_PARAMS, EvtOffsets, LaidOut, IsStruct, Layout,
    ArrayFields, MaxOf, DYNAMIC_DATA_MAX_LEN, Place, Last, OFFSET_PARAMS, HAL_ACI_MAX_LENGTH,
    PipeNumber, PIPE_NUMBER, TX_DATA, ConnectionTiming, aci_rx_data_t,
    BTLE_DEVICE_ADDRESS_SIZE, ACI_ECHO_DATA_MAX_LEN, ACI_PACKET_MAX_LEN,
    ACI_PIPE_RX_DATA_MAX_LEN
<1>1. CASE evt = "device_started"
  BY <1>1, SMTT(40)
<1>2. CASE evt = "echo"
  BY <1>2
<1>3. CASE evt = "hw_error"
  <2>1. /\ \A k \in 1..2 : Place(<<0, 1>>, k) = 2 + k - 1
        /\ \A k \in 1..20 : Place(<<2>>, k) = 4 + k - 1
    BY SMTT(40)
  <2> HIDE DEF Place, Last
  <2> QED
    BY <1>3, <2>1, SMTT(40)
<1>4. CASE evt = "cmd_rsp"
  BY <1>4, SMTT(40)
<1>5. CASE evt = "connected"
  <2>1. /\ \A k \in 1..1 : Place(<<0>>, k) = 2 + k - 1
        /\ \A k \in 1..6 : Place(<<1>>, k) = 3 + k - 1
        /\ \A k \in 1..2 : Place(<<7, 8>>, k) = 9 + k - 1
        /\ \A k \in 1..2 : Place(<<9, 10>>, k) = 11 + k - 1
        /\ \A k \in 1..2 : Place(<<11, 12>>, k) = 13 + k - 1
        /\ \A k \in 1..1 : Place(<<13>>, k) = 15 + k - 1
    OBVIOUS
  <2> HIDE DEF Place, Last
  <2> QED
    BY <1>5, <2>1, SMTT(40)
<1>6. CASE evt = "disconnected"
  BY <1>6, SMTT(40)
<1>7. CASE evt = "bond_status"
  <2>1. /\ Place(<<0>>, 1) = 2
        /\ Place(<<1>>, 1) = 3
        /\ Place(<<2>>, 1) = 4
        /\ Place(<<3>>, 1) = 5
        /\ Place(<<4>>, 1) = 6
        /\ Place(<<5>>, 1) = 7
    OBVIOUS
  <2> HIDE DEF Place, Last
  <2> QED
    BY <1>7, <2>1, SMTT(40)
<1>8. CASE evt = "pipe_status"
  BY <1>8, SMTT(40)
<1>9. CASE evt = "timing"
  BY <1>9, SMTT(40)
<1>10. CASE evt = "data_credit"
  BY <1>10, SMTT(40)
<1>11. CASE evt = "data_ack"
  BY <1>11, SMTT(40)
<1>12. CASE evt = "data_received"
  BY <1>12, SMTT(40)
<1>13. CASE evt = "pipe_error"
  BY <1>13, SMTT(40)
<1>14. CASE evt = "display_passkey"
  BY <1>14, SMTT(40)
<1>15. CASE evt = "key_request"
  BY <1>15, SMTT(40)
<1> QED
  BY <1>1, <1>2, <1>3, <1>4, <1>5, <1>6, <1>7, <1>8, <1>9, <1>10, <1>11, <1>12, <1>13, <1>14, <1>15, ZenonT(60)

(* Two sequences, and the one that they make together.                     *)
IsTuple(s) == Len(s) \in Nat /\ s = [i \in 1..Len(s) |-> s[i]]

LEMMA TupleSeq ==
    ASSUME NEW s, IsTuple(s), NEW S, \A i \in 1..Len(s) : s[i] \in S
    PROVE  s \in Seq(S)
<1> DEFINE n == Len(s)
<1>1. n \in Nat /\ s = [i \in 1..n |-> s[i]] /\ \A i \in 1..n : s[i] \in S
  BY DEF IsTuple
<1> HIDE DEF n
<1> QED
  BY <1>1

LEMMA Joined ==
    ASSUME NEW a, NEW b, NEW c, IsTuple(a), IsTuple(b), IsTuple(c),
           Len(c) = Len(a) + Len(b),
           \A i \in 1..Len(a) : c[i] = a[i],
           \A i \in 1..Len(b) : c[Len(a) + i] = b[i]
    PROVE  a \o b = c
<1> DEFINE S == {a[i] : i \in 1..Len(a)} \cup {b[i] : i \in 1..Len(b)}
           m == Len(a)
           n == Len(b)
           d == a \o b
<1>1. m \in Nat /\ n \in Nat /\ Len(c) = m + n
  BY DEF IsTuple
<1>2. a \in Seq(S) /\ b \in Seq(S)
  <2>1. (\A i \in 1..Len(a) : a[i] \in S) /\ (\A i \in 1..Len(b) : b[i] \in S)
    OBVIOUS
  <2> HIDE DEF S
  <2> QED
    BY <2>1, TupleSeq
<1>3. /\ d \in Seq(S) /\ Len(d) = m + n
      /\ \A k \in 1..m : d[k] = a[k]
      /\ \A k \in 1..n : d[m + k] = b[k]
  <2> HIDE DEF S
  <2>1. Concatenated(d, a, b, S)
    BY <1>2, Concat, Zenon
  <2> QED
    BY <1>2, <2>1 DEF Concatenated
<1> HIDE DEF S, d, m, n
<1>4. ASSUME NEW i \in 1..m + n PROVE d[i] = c[i]
  <2>1. CASE i <= m
    BY <1>1, <1>3, <2>1 DEF m
  <2>2. CASE i > m
    <3>1. i - m \in 1..n /\ m + (i - m) = i
      BY <1>1, <2>2
    <3>2. d[m + (i - m)] = b[i - m] /\ c[m + (i - m)] = b[i - m]
      BY <1>3, <3>1 DEF m, n
    <3> QED
      BY <3>1, <3>2
  <2> QED
    BY <1>1, <2>1, <2>2
<1>5. c = [i \in 1..m + n |-> c[i]]
  BY <1>1 DEF IsTuple
<1>6. d = [i \in 1..m + n |-> d[i]]
  BY <1>1, <1>3, LenProperties
<1>7. d = c
  BY <1>4, <1>5, <1>6
<1> QED
  BY <1>7 DEF d


(* A response: its own fields come after the two that all have.            *)
RspStructs ==
    [dtm_cmd |->
        << <<"cmd_opcode", 1>>, <<"cmd_status", 1>>, <<"evt_msb", 1>>, <<"evt_lsb", 1>> >>,
     read_dynamic_data |->
        << <<"cmd_opcode", 1>>, <<"cmd_status", 1>>, <<"seq_no", 1>>, <<"dynamic_data", 1>> >>,
     get_device_version |->
        << <<"cmd_opcode", 1>>, <<"cmd_status", 1>>, <<"configuration_id", 2>>, <<"aci_version", 1>>, <<"setup_format", 1>>, <<"setup_id", 4>>, <<"setup_status", 1>> >>,
     get_device_address |->
        << <<"cmd_opcode", 1>>, <<"cmd_status", 1>>, <<"bd_addr_own", 6>>, <<"bd_addr_type", 1>> >>,
     get_battery_level |->
        << <<"cmd_opcode", 1>>, <<"cmd_status", 1>>, <<"battery_level", 2>> >>,
     get_temperature |->
        << <<"cmd_opcode", 1>>, <<"cmd_status", 1>>, <<"temperature_value", 2>> >>]

RspOffsets ==
    [dtm_cmd |-> <<2, 3, 4, 5>>,
     read_dynamic_data |-> <<2, 3, 4, 5>>,
     get_device_version |-> <<2, 3, 4, 6, 7, 8, 12>>,
     get_device_address |-> <<2, 3, 4, 10>>,
     get_battery_level |-> <<2, 3, 4>>,
     get_temperature |-> <<2, 3, 4>>]

RspDecoded(cmd) == Over(OFFSET_ACI_EVT_CMD_RSP[cmd], OFFSET_ACI_EVT_PARAMS.cmd_rsp)

LEMMA ResponseStructs ==
    ASSUME NEW cmd \in DOMAIN aci_evt_params_cmd_rsp_t
    PROVE  EvtParams("cmd_rsp", cmd) = RspStructs[cmd]
<1> DEFINE a == << <<"cmd_opcode", 1>>, <<"cmd_status", 1>> >>
           b == aci_evt_params_cmd_rsp_t[cmd]
           c == RspStructs[cmd]
<1>1. EvtParams("cmd_rsp", cmd) = a \o b
  BY DEF EvtParams, aci_evt_params
<1>2. /\ IsTuple(a) /\ IsTuple(b) /\ IsTuple(c) /\ Len(c) = Len(a) + Len(b)
      /\ \A i \in 1..Len(a) : c[i] = a[i]
      /\ \A i \in 1..Len(b) : c[Len(a) + i] = b[i]
  <2> USE DEF IsTuple, aci_evt_params_cmd_rsp_t, RspStructs, BTLE_DEVICE_ADDRESS_SIZE
  <2>1. CASE cmd = "dtm_cmd"
    BY <2>1
  <2>2. CASE cmd = "read_dynamic_data"
    BY <2>2
  <2>3. CASE cmd = "get_device_version"
    BY <2>3
  <2>4. CASE cmd = "get_device_address"
    BY <2>4
  <2>5. CASE cmd = "get_battery_level"
    BY <2>5
  <2>6. CASE cmd = "get_temperature"
    BY <2>6
  <2> QED
    BY <2>1, <2>2, <2>3, <2>4, <2>5, <2>6
<1> HIDE DEF a, b, c
<1>3. a \o b = c
  BY <1>2, Joined, SMTT(40)
<1> QED
  BY <1>1, <1>3 DEF c

LEMMA ResponsesLaidOut ==
    ASSUME NEW cmd \in DOMAIN aci_evt_params_cmd_rsp_t
    PROVE  LaidOut(RspStructs[cmd], RspOffsets[cmd], RspDecoded(cmd), HAL_ACI_MAX_LENGTH)
<1> USE DEF aci_evt_params_cmd_rsp_t, RspStructs, RspOffsets, RspDecoded, Over,
    OFFSET_ACI_EVT_PARAMS, OFFSET_ACI_EVT_CMD_RSP, LaidOut, IsStruct, Layout,
    ArrayFields, MaxOf, DYNAMIC_DATA_MAX_LEN, Place, Last, OFFSET_PARAMS, HAL_ACI_MAX_LENGTH,
    BTLE_DEVICE_ADDRESS_SIZE
<1>1. CASE cmd = "dtm_cmd"
  <2>1. /\ Place(<<0>>, 1) = 2
        /\ Place(<<1>>, 1) = 3
        /\ Place(<<2>>, 1) = 4
        /\ Place(<<3>>, 1) = 5
    OBVIOUS
  <2> HIDE DEF Place, Last
  <2> QED
    BY <1>1, <2>1, SMTT(40)
<1>2. CASE cmd = "read_dynamic_data"
  <2>1. /\ \A k \in 1..1 : Place(<<0>>, k) = 2 + k - 1
        /\ \A k \in 1..1 : Place(<<1>>, k) = 3 + k - 1
        /\ \A k \in 1..1 : Place(<<2>>, k) = 4 + k - 1
        /\ \A k \in 1..26 : Place(<<3>>, k) = 5 + k - 1
    OBVIOUS
  <2> HIDE DEF Place, Last
  <2> QED
    BY <1>2, <2>1, SMTT(40)
<1>3. CASE cmd = "get_device_version"
  <2>1. /\ \A k \in 1..1 : Place(<<0>>, k) = 2 + k - 1
        /\ \A k \in 1..1 : Place(<<1>>, k) = 3 + k - 1
        /\ \A k \in 1..2 : Place(<<2, 3>>, k) = 4 + k - 1
        /\ \A k \in 1..1 : Place(<<4>>, k) = 6 + k - 1
        /\ \A k \in 1..1 : Place(<<5>>, k) = 7 + k - 1
        /\ \A k \in 1..4 : Place(<<6, 7, 8, 9>>, k) = 8 + k - 1
        /\ \A k \in 1..1 : Place(<<10>>, k) = 12 + k - 1
    OBVIOUS
  <2> HIDE DEF Place, Last
  <2> DEFINE struct == RspStructs[cmd]
             at == RspOffsets[cmd]
             offsets == RspDecoded(cmd)
  <2>2. IsStruct(struct) /\ Layout(struct, at) /\ Len(struct) < 10
    BY <1>3
  <2>3. \A i \in 1..Len(struct) :
          /\ struct[i][1] \in ArrayFields => i = Len(struct)
          /\ MaxOf(struct[i]) \in Nat /\ struct[i][2] < 30 /\ struct[i][2] <= MaxOf(struct[i])
    BY <1>3
  <2>4. at[Len(struct)] - OFFSET_PARAMS + MaxOf(struct[Len(struct)]) < HAL_ACI_MAX_LENGTH
    BY <1>3
  <2>5. DOMAIN offsets = {struct[i][1] : i \in 1..Len(struct)}
    BY <1>3
  <2>6. ASSUME NEW i \in 1..Len(struct), NEW k \in 1..MaxOf(struct[i])
        PROVE  Place(offsets[struct[i][1]], k) = at[i] + k - 1
    <3>1. i \in 1..7
      BY <1>3
    <3>2. CASE i = 1
      BY <1>3, <2>1, <3>2
    <3>3. CASE i = 2
      BY <1>3, <2>1, <3>3
    <3>4. CASE i = 3
      BY <1>3, <2>1, <3>4
    <3>5. CASE i = 4
      BY <1>3, <2>1, <3>5
    <3>6. CASE i = 5
      BY <1>3, <2>1, <3>6
    <3>7. CASE i = 6
      BY <1>3, <2>1, <3>7
    <3>8. CASE i = 7
      BY <1>3, <2>1, <3>8
    <3> HIDE DEF struct, at, offsets
    <3> QED
      BY <3>1, <3>2, <3>3, <3>4, <3>5, <3>6, <3>7, <3>8
  <2> QED
    BY <2>2, <2>3, <2>4, <2>5, <2>6, Zenon
<1>4. CASE cmd = "get_device_address"
  <2>1. /\ \A k \in 1..1 : Place(<<0>>, k) = 2 + k - 1
        /\ \A k \in 1..1 : Place(<<1>>, k) = 3 + k - 1
        /\ \A k \in 1..6 : Place(<<2>>, k) = 4 + k - 1
        /\ \A k \in 1..1 : Place(<<8>>, k) = 10 + k - 1
    OBVIOUS
  <2> HIDE DEF Place, Last
  <2> QED
    BY <1>4, <2>1, SMTT(40)
<1>5. CASE cmd = "get_battery_level"
  <2>1. /\ \A k \in 1..1 : Place(<<0>>, k) = 2 + k - 1
        /\ \A k \in 1..1 : Place(<<1>>, k) = 3 + k - 1
        /\ \A k \in 1..2 : Place(<<2, 3>>, k) = 4 + k - 1
    OBVIOUS
  <2> HIDE DEF Place, Last
  <2> DEFINE struct == RspStructs[cmd]
             at == RspOffsets[cmd]
             offsets == RspDecoded(cmd)
  <2>2. IsStruct(struct) /\ Layout(struct, at) /\ Len(struct) < 10
    BY <1>5
  <2>3. \A i \in 1..Len(struct) :
          /\ struct[i][1] \in ArrayFields => i = Len(struct)
          /\ MaxOf(struct[i]) \in Nat /\ struct[i][2] < 30 /\ struct[i][2] <= MaxOf(struct[i])
    BY <1>5
  <2>4. at[Len(struct)] - OFFSET_PARAMS + MaxOf(struct[Len(struct)]) < HAL_ACI_MAX_LENGTH
    BY <1>5
  <2>5. DOMAIN offsets = {struct[i][1] : i \in 1..Len(struct)}
    BY <1>5
  <2>6. ASSUME NEW i \in 1..Len(struct), NEW k \in 1..MaxOf(struct[i])
        PROVE  Place(offsets[struct[i][1]], k) = at[i] + k - 1
    <3>1. i \in 1..3
      BY <1>5
    <3>2. CASE i = 1
      BY <1>5, <2>1, <3>2
    <3>3. CASE i = 2
      BY <1>5, <2>1, <3>3
    <3>4. CASE i = 3
      BY <1>5, <2>1, <3>4
    <3> HIDE DEF struct, at, offsets
    <3> QED
      BY <3>1, <3>2, <3>3, <3>4
  <2> QED
    BY <2>2, <2>3, <2>4, <2>5, <2>6, Zenon
<1>6. CASE cmd = "get_temperature"
  <2>1. /\ \A k \in 1..1 : Place(<<0>>, k) = 2 + k - 1
        /\ \A k \in 1..1 : Place(<<1>>, k) = 3 + k - 1
        /\ \A k \in 1..2 : Place(<<2, 3>>, k) = 4 + k - 1
    OBVIOUS
  <2> HIDE DEF Place, Last
  <2> DEFINE struct == RspStructs[cmd]
             at == RspOffsets[cmd]
             offsets == RspDecoded(cmd)
  <2>2. IsStruct(struct) /\ Layout(struct, at) /\ Len(struct) < 10
    BY <1>6
  <2>3. \A i \in 1..Len(struct) :
          /\ struct[i][1] \in ArrayFields => i = Len(struct)
          /\ MaxOf(struct[i]) \in Nat /\ struct[i][2] < 30 /\ struct[i][2] <= MaxOf(struct[i])
    BY <1>6
  <2>4. at[Len(struct)] - OFFSET_PARAMS + MaxOf(struct[Len(struct)]) < HAL_ACI_MAX_LENGTH
    BY <1>6
  <2>5. DOMAIN offsets = {struct[i][1] : i \in 1..Len(struct)}
    BY <1>6
  <2>6. ASSUME NEW i \in 1..Len(struct), NEW k \in 1..MaxOf(struct[i])
        PROVE  Place(offsets[struct[i][1]], k) = at[i] + k - 1
    <3>1. i \in 1..3
      BY <1>6
    <3>2. CASE i = 1
      BY <1>6, <2>1, <3>2
    <3>3. CASE i = 2
      BY <1>6, <2>1, <3>3
    <3>4. CASE i = 3
      BY <1>6, <2>1, <3>4
    <3> HIDE DEF struct, at, offsets
    <3> QED
      BY <3>1, <3>2, <3>3, <3>4
  <2> QED
    BY <2>2, <2>3, <2>4, <2>5, <2>6, Zenon
<1> QED
  BY <1>1, <1>2, <1>3, <1>4, <1>5, <1>6, Zenon

-----------------------------------------------------------------------------
(* Reports: each field of the event's struct has bytes, as many as fit.    *)

IsValue(field, v) ==
    /\ v \in Seq(Bytes)
    /\ IF field[1] \in ArrayFields THEN Len(v) <= MaxOf(field) ELSE Len(v) = field[2]

HasRsp(r) == r.evt = "cmd_rsp" /\ r.cmd \in DOMAIN aci_evt_params_cmd_rsp_t
LayoutOf(r) == IF HasRsp(r) THEN RspOffsets[r.cmd] ELSE EvtOffsets[r.evt]
DecodedOf(r) == IF HasRsp(r) THEN RspDecoded(r.cmd) ELSE OFFSET_ACI_EVT_PARAMS[r.evt]

IsReport(r) ==
    /\ r.evt \in DOMAIN aci_evt_opcode_t
    /\ DOMAIN r.fields = {StructOf(r)[i][1] : i \in 1..Len(StructOf(r))}
    /\ \A i \in 1..Len(StructOf(r)) : IsValue(StructOf(r)[i], r.fields[StructOf(r)[i][1]])
    /\ r.evt = "cmd_rsp" =>
        /\ r.cmd \in DOMAIN aci_cmd_opcode_t
        /\ r.fields["cmd_opcode"] = Byte(aci_cmd_opcode_t[r.cmd])

(* An opcode is a byte, and tells what event it is of.                     *)
LEMMA EventOpcodes ==
    /\ DOMAIN aci_evt_opcode_t = DOMAIN aci_evt_params
    /\ \A evt \in DOMAIN aci_evt_opcode_t :
        /\ aci_evt_opcode_t[evt] \in Bytes
        /\ OpcodeName(aci_evt_opcode_t, aci_evt_opcode_t[evt]) = evt
<1>1. DOMAIN aci_evt_opcode_t = DOMAIN aci_evt_params
  BY DEF aci_evt_opcode_t, aci_evt_params
<1>2. \A evt \in DOMAIN aci_evt_opcode_t : aci_evt_opcode_t[evt] \in Bytes
  BY DEF aci_evt_opcode_t, Bytes
<1>3. \A e, f \in DOMAIN aci_evt_opcode_t : aci_evt_opcode_t[e] = aci_evt_opcode_t[f] => e = f
  BY DEF aci_evt_opcode_t
<1>4. ASSUME NEW evt \in DOMAIN aci_evt_opcode_t
      PROVE  OpcodeName(aci_evt_opcode_t, aci_evt_opcode_t[evt]) = evt
  <2> DEFINE codes == aci_evt_opcode_t
             name == CHOOSE n \in DOMAIN codes : codes[n] = codes[evt]
  <2> HIDE DEF codes
  <2>1. name \in DOMAIN codes /\ codes[name] = codes[evt]
    BY <1>4 DEF codes
  <2>2. OpcodeName(aci_evt_opcode_t, aci_evt_opcode_t[evt]) = name
    BY Zenon DEF OpcodeName, codes
  <2> HIDE DEF name
  <2> QED
    BY <1>3, <2>1, <2>2 DEF codes
<1> QED
  BY <1>1, <1>2, <1>4

LEMMA ReportStructs ==
    ASSUME NEW r, r.evt \in DOMAIN aci_evt_opcode_t
    PROVE  /\ LaidOut(StructOf(r), LayoutOf(r), DecodedOf(r), HAL_ACI_MAX_LENGTH)
           /\ ~ HasRsp(r) => StructOf(r) = aci_evt_params[r.evt]
<1>1. CASE HasRsp(r)
  <2>1. StructOf(r) = RspStructs[r.cmd]
    BY <1>1, ResponseStructs DEF HasRsp, StructOf
  <2> QED
    BY <1>1, <2>1, ResponsesLaidOut DEF HasRsp, LayoutOf, DecodedOf
<1>2. CASE ~ HasRsp(r)
  <2> DEFINE a == aci_evt_params[r.evt]
  <2>1. LaidOut(a, EvtOffsets[r.evt], OFFSET_ACI_EVT_PARAMS[r.evt], HAL_ACI_MAX_LENGTH)
    BY EventOpcodes, EventsLaidOut
  <2>2. StructOf(r) = a \o <<>>
    BY <1>2, Zenon DEF HasRsp, StructOf, EvtParams
  <2>3. IsTuple(a)
    BY <2>1 DEF LaidOut, IsStruct, IsTuple
  <2> HIDE DEF a
  <2>4. IsTuple(<<>>) /\ Len(a) = Len(a) + Len(<<>>) /\ \A i \in 1..Len(<<>>) : a[Len(a) + i] = <<>>[i]
    BY <2>3 DEF IsTuple
  <2>5. a \o <<>> = a
    BY <2>3, <2>4, Joined
  <2> QED
    BY <1>2, <2>1, <2>2, <2>5 DEF a, LayoutOf, DecodedOf
<1> QED
  BY <1>1, <1>2

(* Values of the fields of a struct that is laid out fit.                  *)
LEMMA ValuesFit ==
    ASSUME NEW struct, NEW at, NEW offsets, NEW n \in Nat, LaidOut(struct, at, offsets, n),
           NEW fields, DOMAIN fields = {struct[i][1] : i \in 1..Len(struct)},
           \A i \in 1..Len(struct) : IsValue(struct[i], fields[struct[i][1]])
    PROVE  /\ IsStruct(struct) /\ Fit(struct, fields, Bytes)
           /\ SizeOf(struct, fields) < n
           /\ \A i \in 1..Len(struct) : Offsets(struct)[i] = at[i] /\ at[i] \in Nat
<1> DEFINE m == Len(struct)
<1>1. IsStruct(struct) /\ Layout(struct, at) /\ m \in 1..m
  BY StructFields DEF LaidOut
<1>2. \A i \in 1..m : Offsets(struct)[i] = at[i] /\ at[i] \in Nat
  BY <1>1, LayoutOffsets, OffsetsFollow
<1>3. ASSUME NEW i \in 1..m, i < m
      PROVE  Len(fields[struct[i][1]]) = struct[i][2]
  <2>1. struct[i][1] \notin ArrayFields
    BY <1>3 DEF LaidOut
  <2> QED
    BY <2>1 DEF IsValue
<1>4. Fit(struct, fields, Bytes)
  BY <1>3 DEF Fit, IsValue
<1>5. SizeOf(struct, fields) < n
  <2> DEFINE field == struct[m]
             v == fields[field[1]]
  <2>1. Len(v) \in Nat /\ MaxOf(field) \in Nat /\ Len(v) <= MaxOf(field)
    <3>1. IsValue(field, v) /\ MaxOf(field) \in Nat
      BY <1>1 DEF LaidOut
    <3> HIDE DEF field, v
    <3>2. Len(v) \in Nat
      BY <3>1, LenProperties DEF IsValue
    <3>3. CASE field[1] \in ArrayFields
      BY <3>1, <3>2, <3>3 DEF IsValue
    <3>4. CASE field[1] \notin ArrayFields
      BY <3>1, <3>2, <3>4 DEF IsValue, MaxOf, ArrayFields
    <3> QED
      BY <3>1, <3>2, <3>3, <3>4
  <2>2. at[m] - OFFSET_PARAMS + MaxOf(field) < n
    BY DEF LaidOut
  <2>3. SizeOf(struct, fields) = at[m] - OFFSET_PARAMS + Len(v) /\ at[m] \in Nat
    BY <1>1, <1>2 DEF SizeOf
  <2> HIDE DEF m, field, v
  <2> QED
    BY <2>1, <2>2, <2>3 DEF OFFSET_PARAMS
<1> QED
  BY <1>1, <1>2, <1>4, <1>5

(* The packet of a report, ...                                             *)
LEMMA ReportPacket ==
    ASSUME NEW r, IsReport(r)
    PROVE  /\ PacketOf(r) \in Packets
           /\ SizeOf(StructOf(r), r.fields) \in 0..HAL_ACI_MAX_LENGTH - 1
           /\ PacketOf(r)[0] = 1 + SizeOf(StructOf(r), r.fields)
           /\ PacketOf(r)[1] = aci_evt_opcode_t[r.evt]
           /\ OpcodeName(aci_evt_opcode_t, PacketOf(r)[1]) = r.evt
           /\ \A i \in 1..Len(StructOf(r)) : \A k \in 1..Len(r.fields[StructOf(r)[i][1]]) :
                LET j == Offsets(StructOf(r))[i] + k - 1
                IN  /\ j \in 2..PacketOf(r)[0]
                    /\ PacketOf(r)[j] = r.fields[StructOf(r)[i][1]][k]
<1>1. LaidOut(StructOf(r), LayoutOf(r), DecodedOf(r), HAL_ACI_MAX_LENGTH)
  BY ReportStructs DEF IsReport
<1>2. /\ IsStruct(StructOf(r)) /\ Fit(StructOf(r), r.fields, Bytes)
      /\ SizeOf(StructOf(r), r.fields) < HAL_ACI_MAX_LENGTH
  BY <1>1, ValuesFit DEF IsReport, HAL_ACI_MAX_LENGTH
<1>3. /\ aci_evt_opcode_t[r.evt] \in Bytes
      /\ OpcodeName(aci_evt_opcode_t, aci_evt_opcode_t[r.evt]) = r.evt
  BY EventOpcodes DEF IsReport
<1> QED
  BY <1>2, <1>3, PacketFields

(* ... and what lib_aci_event_get finds in it.                             *)
LEMMA ReportField ==
    ASSUME NEW r, IsReport(r), ~ HasRsp(r),
           NEW i \in 1..Len(StructOf(r)), StructOf(r)[i][1] \notin ArrayFields
    PROVE  LET f == StructOf(r)[i][1]
           IN  Field(r.evt, PacketOf(r), f) = r.fields[f]
<1>1. LaidOut(StructOf(r), LayoutOf(r), DecodedOf(r), HAL_ACI_MAX_LENGTH)
      /\ StructOf(r) = aci_evt_params[r.evt]
  BY ReportStructs DEF IsReport
<1>2. /\ IsStruct(StructOf(r)) /\ Fit(StructOf(r), r.fields, Bytes)
      /\ SizeOf(StructOf(r), r.fields) < HAL_ACI_MAX_LENGTH
  BY <1>1, ValuesFit DEF IsReport, HAL_ACI_MAX_LENGTH
<1>3. aci_evt_opcode_t[r.evt] \in Bytes
  BY EventOpcodes DEF IsReport
<1>4. Len(r.fields[StructOf(r)[i][1]]) = StructOf(r)[i][2]
  BY DEF IsReport, IsValue
<1> QED
  BY <1>1, <1>2, <1>3, <1>4, FieldAsReported

-----------------------------------------------------------------------------
(* Bitmaps.                                                                *)

Bitmaps == [1..PIPES_ARRAY_SIZE -> Bytes]

(* A bit of a byte, of the sum of eight.                                   *)
LEMMA BitOfSum ==
    ASSUME NEW x0 \in {0, 1}, NEW x1 \in {0, 1}, NEW x2 \in {0, 1}, NEW x3 \in {0, 1},
           NEW x4 \in {0, 1}, NEW x5 \in {0, 1}, NEW x6 \in {0, 1}, NEW x7 \in {0, 1},
           NEW sum, sum = x0 + 2 * x1 + 4 * x2 + 8 * x3 + 16 * x4 + 32 * x5 + 64 * x6 + 128 * x7
    PROVE  /\ sum \in Bytes
           /\ (sum \div 1) % 2 = x0 /\ (sum \div 2) % 2 = x1
           /\ (sum \div 4) % 2 = x2 /\ (sum \div 8) % 2 = x3
           /\ (sum \div 16) % 2 = x4 /\ (sum \div 32) % 2 = x5
           /\ (sum \div 64) % 2 = x6 /\ (sum \div 128) % 2 = x7
  BY DEF Bytes

LEMMA ByteAndBit ==
    ASSUME NEW p \in 0..63
    PROVE  /\ p \div 8 + 1 \in 1..PIPES_ARRAY_SIZE /\ p % 8 \in 0..7
           /\ p = 8 * (p \div 8) + (p % 8)
  BY DEF PIPES_ARRAY_SIZE

LEMMA BitmapBits ==
    ASSUME NEW pipes
    PROVE  /\ Bitmap(pipes) \in Bitmaps
           /\ \A p \in 0..63 : HasBit(Bitmap(pipes), p) <=> p \in pipes
<1> DEFINE In(i, n) == IF 8 * (i - 1) + n \in pipes THEN 1 ELSE 0
           Sum(i) == In(i, 0) + 2 * In(i, 1) + 4 * In(i, 2) + 8 * In(i, 3)
                        + 16 * In(i, 4) + 32 * In(i, 5) + 64 * In(i, 6) + 128 * In(i, 7)
<1>1. ASSUME NEW i \in 1..PIPES_ARRAY_SIZE
      PROVE  /\ Bitmap(pipes)[i] = Sum(i)
             /\ Sum(i) \in Bytes
             /\ \A n \in 0..7 : (Sum(i) \div Bit(n)) % 2 = In(i, n)
  <2>1. \A n \in 0..7 : In(i, n) \in {0, 1}
    OBVIOUS
  <2>2. \A n \in 0..7 : (IF 8 * (i - 1) + n \in pipes THEN Bit(n) ELSE 0) = Bit(n) * In(i, n)
    <3>1. \A n \in 0..7 : Bit(n) \in Int
      BY DEF Bit
    <3> QED
      BY <3>1
  <2>3. Bitmap(pipes)[i] =
            LET bit(n) == IF 8 * (i - 1) + n \in pipes THEN Bit(n) ELSE 0
            IN  bit(0) + bit(1) + bit(2) + bit(3) + bit(4) + bit(5) + bit(6) + bit(7)
    BY DEF Bitmap
  <2>4. /\ Bit(0) = 1 /\ Bit(1) = 2 /\ Bit(2) = 4 /\ Bit(3) = 8 /\ Bit(4) = 16
        /\ Bit(5) = 32 /\ Bit(6) = 64 /\ Bit(7) = 128
    BY DEF Bit
  <2> HIDE DEF In
  <2>5. Bitmap(pipes)[i] = Sum(i)
    BY <2>1, <2>2, <2>3, <2>4
  <2>6. /\ Sum(i) \in Bytes
        /\ (Sum(i) \div 1) % 2 = In(i, 0) /\ (Sum(i) \div 2) % 2 = In(i, 1)
        /\ (Sum(i) \div 4) % 2 = In(i, 2) /\ (Sum(i) \div 8) % 2 = In(i, 3)
        /\ (Sum(i) \div 16) % 2 = In(i, 4) /\ (Sum(i) \div 32) % 2 = In(i, 5)
        /\ (Sum(i) \div 64) % 2 = In(i, 6) /\ (Sum(i) \div 128) % 2 = In(i, 7)
    <3> DEFINE s == Sum(i)
    <3>1. /\ In(i, 0) \in {0, 1} /\ In(i, 1) \in {0, 1} /\ In(i, 2) \in {0, 1}
          /\ In(i, 3) \in {0, 1} /\ In(i, 4) \in {0, 1} /\ In(i, 5) \in {0, 1}
          /\ In(i, 6) \in {0, 1} /\ In(i, 7) \in {0, 1}
      BY <2>1
    <3> QED
      BY <3>1, BitOfSum
  <2> HIDE DEF Sum
  <2>7. ASSUME NEW n \in 0..7 PROVE (Sum(i) \div Bit(n)) % 2 = In(i, n)
    <3>1. n \in {0, 1, 2, 3, 4, 5, 6, 7}
      OBVIOUS
    <3> QED
      BY <2>4, <2>6, <3>1
  <2> QED
    BY <2>5, <2>6, <2>7
<1> HIDE DEF Sum
<1>2. Bitmap(pipes) \in Bitmaps
  <2>1. Bitmap(pipes) = [i \in 1..PIPES_ARRAY_SIZE |-> Bitmap(pipes)[i]]
    BY DEF Bitmap
  <2> QED
    BY <1>1, <2>1 DEF Bitmaps
<1>3. ASSUME NEW p \in 0..63 PROVE HasBit(Bitmap(pipes), p) <=> p \in pipes
  <2> DEFINE i == p \div 8 + 1
             n == p % 8
  <2>1. i \in 1..PIPES_ARRAY_SIZE /\ n \in 0..7 /\ 8 * (i - 1) + n = p
    BY ByteAndBit
  <2>2. HasBit(Bitmap(pipes), p) <=> (Bitmap(pipes)[i] \div Bit(n)) % 2 = 1
    BY Zenon DEF HasBit
  <2> HIDE DEF i, n
  <2>3. (Bitmap(pipes)[i] \div Bit(n)) % 2 = In(i, n)
    BY <1>1, <2>1
  <2>4. In(i, n) = 1 <=> p \in pipes
    BY <2>1
  <2> QED
    BY <2>2, <2>3, <2>4
<1> QED
  BY <1>2, <1>3

LEMMA NoPipesBits ==
    NoPipes \in Bitmaps /\ \A p \in 0..63 : ~ HasBit(NoPipes, p)
<1>1. NoPipes \in Bitmaps
  BY DEF NoPipes, Bitmaps, Bytes
<1>2. ASSUME NEW p \in 0..63 PROVE ~ HasBit(NoPipes, p)
  <2> DEFINE i == p \div 8 + 1
             n == p % 8
  <2>1. i \in 1..PIPES_ARRAY_SIZE /\ n \in 0..7
    BY ByteAndBit
  <2>2. HasBit(NoPipes, p) <=> (NoPipes[i] \div Bit(n)) % 2 = 1
    BY Zenon DEF HasBit
  <2> HIDE DEF i, n
  <2>3. NoPipes[i] = 0
    BY <2>1 DEF NoPipes
  <2>4. (0 \div Bit(n)) % 2 = 0
    BY <2>1 DEF Bit
  <2> QED
    BY <2>2, <2>3, <2>4
<1> QED
  BY <1>1, <1>2

LEMMA WithBitBitmap ==
    ASSUME NEW bitmap \in Bitmaps, NEW p \in 0..63
    PROVE  WithBit(bitmap, p) \in Bitmaps
<1> DEFINE i == p \div 8 + 1
           n == p % 8
<1>1. i \in 1..PIPES_ARRAY_SIZE /\ n \in 0..7
  BY ByteAndBit
<1>2. /\ HasBit(bitmap, p) <=> (bitmap[i] \div Bit(n)) % 2 = 1
      /\ WithBit(bitmap, p) = IF HasBit(bitmap, p) THEN bitmap
                              ELSE [bitmap EXCEPT ![i] = bitmap[i] + Bit(n)]
  BY Zenon DEF HasBit, WithBit
<1> HIDE DEF i, n
<1>3. ASSUME (bitmap[i] \div Bit(n)) % 2 # 1 PROVE bitmap[i] + Bit(n) \in Bytes
  <2> DEFINE v == bitmap[i]
  <2>1. v \in Bytes
    BY <1>1 DEF Bitmaps
  <2> HIDE DEF v
  <2>2. n \in {0, 1, 2, 3, 4, 5, 6, 7}
    BY <1>1
  <2>3. /\ Bit(0) = 1 /\ Bit(1) = 2 /\ Bit(2) = 4 /\ Bit(3) = 8 /\ Bit(4) = 16
        /\ Bit(5) = 32 /\ Bit(6) = 64 /\ Bit(7) = 128
    BY DEF Bit
  <2>4. (v \div Bit(n)) % 2 # 1
    BY <1>3 DEF v
  <2>5. v + Bit(n) \in Bytes
    BY <2>1, <2>2, <2>3, <2>4 DEF Bytes
  <2> QED
    BY <2>5 DEF v
<1> QED
  BY <1>1, <1>2, <1>3 DEF Bitmaps

-----------------------------------------------------------------------------
(* The reports of the model.                                               *)

LEMMA FunctionSeq ==
    ASSUME NEW n \in Nat, NEW S, NEW a \in [1..n -> S]
    PROVE  a \in Seq(S) /\ Len(a) = n
  OBVIOUS

LEMMA BytesOfValues ==
    /\ \A x \in Nat : Byte(x) \in Seq(Bytes) /\ Len(Byte(x)) = 1
    /\ \A x \in Nat : Word(x) \in Seq(Bytes) /\ Len(Word(x)) = 2
    /\ \A n \in 0..99 : Data(n) \in Seq(Bytes) /\ Len(Data(n)) = n
    /\ \A b \in Bitmaps : b \in Seq(Bytes) /\ Len(b) = 8
<1>1. ASSUME NEW x \in Nat PROVE Byte(x) \in Seq(Bytes) /\ Len(Byte(x)) = 1
  <2>1. x % 256 \in Bytes
    BY DEF Bytes
  <2> QED
    BY <2>1 DEF Byte
<1>2. ASSUME NEW x \in Nat PROVE Word(x) \in Seq(Bytes) /\ Len(Word(x)) = 2
  <2>1. x % 256 \in Bytes /\ (x \div 256) % 256 \in Bytes
    BY DEF Bytes
  <2> QED
    BY <2>1 DEF Word
<1>3. ASSUME NEW n \in 0..99 PROVE Data(n) \in Seq(Bytes) /\ Len(Data(n)) = n
  <2> DEFINE d == Data(n)
  <2>1. d \in [1..n -> Bytes] /\ n \in Nat
    BY DEF Data, Bytes
  <2> HIDE DEF d
  <2>2. d \in Seq(Bytes) /\ Len(d) = n
    BY <2>1, FunctionSeq
  <2> QED
    BY <2>2 DEF d
<1>4. ASSUME NEW b \in Bitmaps PROVE b \in Seq(Bytes) /\ Len(b) = 8
  <2>1. b \in [1..8 -> Bytes]
    BY DEF Bitmaps, PIPES_ARRAY_SIZE
  <2> QED
    BY <2>1, FunctionSeq
<1> QED
  BY <1>1, <1>2, <1>3, <1>4

(* The fields of a struct have the bytes of the other events.              *)
LEMMA FieldsAreValues ==
    ASSUME NEW struct, NEW at, NEW offsets, NEW n, LaidOut(struct, at, offsets, n)
    PROVE  /\ DOMAIN Fields(struct) = {struct[i][1] : i \in 1..Len(struct)}
           /\ \A i \in 1..Len(struct) : IsValue(struct[i], Fields(struct)[struct[i][1]])
<1>1. DOMAIN Fields(struct) = {struct[i][1] : i \in 1..Len(struct)}
  BY DEF Fields
<1>2. ASSUME NEW i \in 1..Len(struct)
      PROVE  IsValue(struct[i], Fields(struct)[struct[i][1]])
  <2> DEFINE c == CHOOSE j \in 1..Len(struct) : struct[j][1] = struct[i][1]
             size == struct[i][2]
             v == [k \in 1..size |-> 10 * i + k]
  <2>1. c = i
    <3>1. c \in 1..Len(struct) /\ struct[c][1] = struct[i][1]
      OBVIOUS
    <3> HIDE DEF c
    <3> QED
      BY <3>1 DEF IsStruct, LaidOut
  <2>2. Fields(struct)[struct[i][1]] = [k \in 1..struct[c][2] |-> 10 * c + k]
    BY Zenon DEF Fields
  <2>3. /\ size \in Nat /\ size < 30 /\ i \in Nat /\ i < 10
        /\ MaxOf(struct[i]) \in Nat /\ size <= MaxOf(struct[i])
    <3>1. Len(struct) \in Nat /\ Len(struct) < 10 /\ i \in 1..Len(struct)
      BY DEF LaidOut, IsStruct
    <3> QED
      BY <3>1 DEF LaidOut, IsStruct
  <2> HIDE DEF c, size
  <2>4. v \in Seq(Bytes) /\ Len(v) = size
    <3>1. v \in [1..size -> Bytes]
      BY <2>3 DEF Bytes
    <3> HIDE DEF v
    <3> QED
      BY <2>3, <3>1
  <2>5. Fields(struct)[struct[i][1]] = v
    BY <2>1, <2>2 DEF size
  <2> HIDE DEF v
  <2>6. IsValue(struct[i], v)
    BY <2>3, <2>4 DEF IsValue, size
  <2> QED
    BY <2>5, <2>6
<1> QED
  BY <1>1, <1>2

LinkReports ==
    {Disconnected} \cup {Connected(interval) : interval \in Intervals}
        \cup {Timing(interval) : interval \in Intervals}
        \cup {PipeStatus(open) : open \in OpenSets}
Reports == LinkReports \cup OtherReports

(* A report whose values are of the sizes in the struct.                   *)
LEMMA ReportOf ==
    ASSUME NEW evt \in DOMAIN aci_evt_opcode_t, evt # "cmd_rsp", NEW fields,
           DOMAIN fields = {aci_evt_params[evt][i][1] : i \in 1..Len(aci_evt_params[evt])},
           \A i \in 1..Len(aci_evt_params[evt]) :
                IsValue(aci_evt_params[evt][i], fields[aci_evt_params[evt][i][1]])
    PROVE  IsReport(Report(evt, fields))
<1> DEFINE r == Report(evt, fields)
<1>1. r.evt = evt /\ r.fields = fields
  BY DEF Report
<1> HIDE DEF r
<1>2. StructOf(r) = aci_evt_params[evt]
  BY <1>1, ReportStructs DEF HasRsp
<1>3. IsReport(r)
  BY <1>1, <1>2 DEF IsReport
<1> QED
  BY <1>3 DEF r

LEMMA ScalarValue ==
    ASSUME NEW f, NEW n, NEW v, v \in Seq(Bytes) /\ Len(v) = n, f \notin ArrayFields
    PROVE  IsValue(<<f, n>>, v)
  BY DEF IsValue

LEMMA EachLinkReport ==
    /\ IsReport(Disconnected)
    /\ \A interval \in Intervals : IsReport(Connected(interval)) /\ IsReport(Timing(interval))
    /\ \A open \in OpenSets : IsReport(PipeStatus(open))
<1>1. /\ "conn_rf_interval" \notin ArrayFields /\ "conn_slave_rf_latency" \notin ArrayFields
      /\ "conn_rf_timeout" \notin ArrayFields /\ "master_clock_accuracy" \notin ArrayFields
      /\ "dev_addr_type" \notin ArrayFields /\ "dev_addr" \notin ArrayFields
      /\ "aci_status" \notin ArrayFields /\ "btle_status" \notin ArrayFields
      /\ "pipes_open_bitmap" \notin ArrayFields /\ "pipes_closed_bitmap" \notin ArrayFields
  BY DEF ArrayFields
<1>2. /\ "disconnected" \in DOMAIN aci_evt_opcode_t /\ "connected" \in DOMAIN aci_evt_opcode_t
      /\ "timing" \in DOMAIN aci_evt_opcode_t /\ "pipe_status" \in DOMAIN aci_evt_opcode_t
  BY DEF aci_evt_opcode_t
<1>3. IsReport(Disconnected)
  <2> DEFINE struct == aci_evt_params["disconnected"]
             fields == [aci_status |-> Byte(3), btle_status |-> Byte(\h13)]
  <2>1. struct = << <<"aci_status", 1>>, <<"btle_status", 1>> >>
    BY DEF aci_evt_params
  <2>2. /\ IsValue(<<"aci_status", 1>>, fields["aci_status"])
        /\ IsValue(<<"btle_status", 1>>, fields["btle_status"])
    BY <1>1, BytesOfValues, ScalarValue, ZenonT(60)
  <2>3. DOMAIN fields = {"aci_status", "btle_status"}
    OBVIOUS
  <2> HIDE DEF fields, struct
  <2>4. /\ DOMAIN fields = {struct[i][1] : i \in 1..Len(struct)}
        /\ \A i \in 1..Len(struct) : IsValue(struct[i], fields[struct[i][1]])
    BY <2>1, <2>2, <2>3
  <2>5. IsReport(Report("disconnected", fields))
    BY <1>2, <2>4, ReportOf DEF struct
  <2> QED
    BY <2>5 DEF Disconnected, fields
<1>0. \A interval \in Intervals : interval \in Nat
  BY LibraryAssumption
<1>8. \A x \in Nat : Word(x) \in Seq(Bytes) /\ Len(Word(x)) = 2
  BY BytesOfValues
<1>4. ASSUME NEW interval \in Intervals PROVE IsReport(Connected(interval))
  <2> DEFINE struct == aci_evt_params["connected"]
             fields == [dev_addr_type |-> Byte(1),
                        dev_addr |-> Data(6),
                        conn_rf_interval |-> Word(interval),
                        conn_slave_rf_latency |-> Word(PeerLatency),
                        conn_rf_timeout |-> Word(PeerTimeout),
                        master_clock_accuracy |-> Byte(2)]
  <2>0. /\ Word(interval) \in Seq(Bytes) /\ Len(Word(interval)) = 2
        /\ Word(PeerLatency) \in Seq(Bytes) /\ Len(Word(PeerLatency)) = 2
        /\ Word(PeerTimeout) \in Seq(Bytes) /\ Len(Word(PeerTimeout)) = 2
    <3>1. interval \in Nat /\ PeerLatency \in Nat /\ PeerTimeout \in Nat
      BY <1>0 DEF PeerLatency, PeerTimeout
    <3> QED
      BY <1>8, <3>1
  <2>1. struct = << <<"dev_addr_type", 1>>, <<"dev_addr", 6>>, <<"conn_rf_interval", 2>>, <<"conn_slave_rf_latency", 2>>, <<"conn_rf_timeout", 2>>, <<"master_clock_accuracy", 1>> >>
    BY DEF aci_evt_params, BTLE_DEVICE_ADDRESS_SIZE
  <2>2. /\ IsValue(<<"dev_addr_type", 1>>, fields["dev_addr_type"])
        /\ IsValue(<<"dev_addr", 6>>, fields["dev_addr"])
        /\ IsValue(<<"conn_rf_interval", 2>>, fields["conn_rf_interval"])
        /\ IsValue(<<"conn_slave_rf_latency", 2>>, fields["conn_slave_rf_latency"])
        /\ IsValue(<<"conn_rf_timeout", 2>>, fields["conn_rf_timeout"])
        /\ IsValue(<<"master_clock_accuracy", 1>>, fields["master_clock_accuracy"])
    <3>1. /\ fields["dev_addr_type"] = Byte(1)
          /\ fields["dev_addr"] = Data(6)
          /\ fields["conn_rf_interval"] = Word(interval)
          /\ fields["conn_slave_rf_latency"] = Word(PeerLatency)
          /\ fields["conn_rf_timeout"] = Word(PeerTimeout)
          /\ fields["master_clock_accuracy"] = Byte(2)
      OBVIOUS
    <3>2. /\ Byte(1) \in Seq(Bytes) /\ Len(Byte(1)) = 1
          /\ Data(6) \in Seq(Bytes) /\ Len(Data(6)) = 6
          /\ Byte(2) \in Seq(Bytes) /\ Len(Byte(2)) = 1
      BY BytesOfValues
    <3> HIDE DEF fields
    <3>3. IsValue(<<"dev_addr_type", 1>>, fields["dev_addr_type"])
      BY <1>1, <2>0, <3>1, <3>2, ScalarValue, Zenon
    <3>4. IsValue(<<"dev_addr", 6>>, fields["dev_addr"])
      BY <1>1, <2>0, <3>1, <3>2, ScalarValue, Zenon
    <3>5. IsValue(<<"conn_rf_interval", 2>>, fields["conn_rf_interval"])
      BY <1>1, <2>0, <3>1, <3>2, ScalarValue, Zenon
    <3>6. IsValue(<<"conn_slave_rf_latency", 2>>, fields["conn_slave_rf_latency"])
      BY <1>1, <2>0, <3>1, <3>2, ScalarValue, Zenon
    <3>7. IsValue(<<"conn_rf_timeout", 2>>, fields["conn_rf_timeout"])
      BY <1>1, <2>0, <3>1, <3>2, ScalarValue, Zenon
    <3>8. IsValue(<<"master_clock_accuracy", 1>>, fields["master_clock_accuracy"])
      BY <1>1, <2>0, <3>1, <3>2, ScalarValue, Zenon
    <3> QED
      BY <3>3, <3>4, <3>5, <3>6, <3>7, <3>8
  <2>3. DOMAIN fields = {"dev_addr_type", "dev_addr", "conn_rf_interval", "conn_slave_rf_latency", "conn_rf_timeout", "master_clock_accuracy"}
    OBVIOUS
  <2> HIDE DEF fields, struct
  <2>4. /\ DOMAIN fields = {struct[i][1] : i \in 1..Len(struct)}
        /\ \A i \in 1..Len(struct) : IsValue(struct[i], fields[struct[i][1]])
    BY <2>1, <2>2, <2>3
  <2>5. IsReport(Report("connected", fields))
    BY <1>2, <2>4, ReportOf DEF struct
  <2> QED
    BY <2>5 DEF Connected, fields
<1>5. ASSUME NEW interval \in Intervals PROVE IsReport(Timing(interval))
  <2> DEFINE struct == aci_evt_params["timing"]
             fields == [conn_rf_interval |-> Word(interval),
                        conn_slave_rf_latency |-> Word(PeerLatency),
                        conn_rf_timeout |-> Word(PeerTimeout)]
  <2>0. /\ Word(interval) \in Seq(Bytes) /\ Len(Word(interval)) = 2
        /\ Word(PeerLatency) \in Seq(Bytes) /\ Len(Word(PeerLatency)) = 2
        /\ Word(PeerTimeout) \in Seq(Bytes) /\ Len(Word(PeerTimeout)) = 2
    <3>1. interval \in Nat /\ PeerLatency \in Nat /\ PeerTimeout \in Nat
      BY <1>0 DEF PeerLatency, PeerTimeout
    <3> QED
      BY <1>8, <3>1
  <2>1. struct = << <<"conn_rf_interval", 2>>, <<"conn_slave_rf_latency", 2>>, <<"conn_rf_timeout", 2>> >>
    BY DEF aci_evt_params, ConnectionTiming
  <2>2. /\ IsValue(<<"conn_rf_interval", 2>>, fields["conn_rf_interval"])
        /\ IsValue(<<"conn_slave_rf_latency", 2>>, fields["conn_slave_rf_latency"])
        /\ IsValue(<<"conn_rf_timeout", 2>>, fields["conn_rf_timeout"])
    <3>1. /\ fields["conn_rf_interval"] = Word(interval)
          /\ fields["conn_slave_rf_latency"] = Word(PeerLatency)
          /\ fields["conn_rf_timeout"] = Word(PeerTimeout)
      OBVIOUS
    <3> HIDE DEF fields
    <3>3. IsValue(<<"conn_rf_interval", 2>>, fields["conn_rf_interval"])
      BY <1>1, <2>0, <3>1, ScalarValue, Zenon
    <3>4. IsValue(<<"conn_slave_rf_latency", 2>>, fields["conn_slave_rf_latency"])
      BY <1>1, <2>0, <3>1, ScalarValue, Zenon
    <3>5. IsValue(<<"conn_rf_timeout", 2>>, fields["conn_rf_timeout"])
      BY <1>1, <2>0, <3>1, ScalarValue, Zenon
    <3> QED
      BY <3>3, <3>4, <3>5
  <2>3. DOMAIN fields = {"conn_rf_interval", "conn_slave_rf_latency", "conn_rf_timeout"}
    OBVIOUS
  <2> HIDE DEF fields, struct
  <2>4. /\ DOMAIN fields = {struct[i][1] : i \in 1..Len(struct)}
        /\ \A i \in 1..Len(struct) : IsValue(struct[i], fields[struct[i][1]])
    BY <2>1, <2>2, <2>3
  <2>5. IsReport(Report("timing", fields))
    BY <1>2, <2>4, ReportOf DEF struct
  <2> QED
    BY <2>5 DEF Timing, fields
<1>6. ASSUME NEW open \in OpenSets PROVE IsReport(PipeStatus(open))
  <2> DEFINE struct == aci_evt_params["pipe_status"]
             fields == [pipes_open_bitmap |-> Bitmap(open),
                        pipes_closed_bitmap |-> Bitmap(Pipes \ open)]
  <2>0. Bitmap(open) \in Bitmaps /\ Bitmap(Pipes \ open) \in Bitmaps
    BY BitmapBits
  <2>1. struct = << <<"pipes_open_bitmap", 8>>, <<"pipes_closed_bitmap", 8>> >>
    BY DEF aci_evt_params
  <2>2. /\ IsValue(<<"pipes_open_bitmap", 8>>, fields["pipes_open_bitmap"])
        /\ IsValue(<<"pipes_closed_bitmap", 8>>, fields["pipes_closed_bitmap"])
    BY <1>1, <2>0, BytesOfValues, ScalarValue
  <2>3. DOMAIN fields = {"pipes_open_bitmap", "pipes_closed_bitmap"}
    OBVIOUS
  <2> HIDE DEF fields, struct
  <2>4. /\ DOMAIN fields = {struct[i][1] : i \in 1..Len(struct)}
        /\ \A i \in 1..Len(struct) : IsValue(struct[i], fields[struct[i][1]])
    BY <2>1, <2>2, <2>3
  <2>5. IsReport(Report("pipe_status", fields))
    BY <1>2, <2>4, ReportOf DEF struct
  <2> QED
    BY <2>5 DEF PipeStatus, fields
<1> QED
  BY <1>3, <1>4, <1>5, <1>6

LEMMA EachOtherReport ==
    ASSUME NEW r \in OtherReports
    PROVE  IsReport(r) /\ r.evt \notin {"connected", "disconnected", "pipe_status", "timing"}
<1>1. ASSUME NEW evt \in DOMAIN aci_evt_params \
                            {"connected", "disconnected", "pipe_status", "timing", "cmd_rsp"},
             r = Report(evt, Fields(aci_evt_params[evt]))
      PROVE  IsReport(r) /\ r.evt \notin {"connected", "disconnected", "pipe_status", "timing"}
  <2>1. r.evt = evt /\ r.fields = Fields(aci_evt_params[evt])
    BY <1>1 DEF Report
  <2>2. r.evt \in DOMAIN aci_evt_opcode_t
    BY <2>1, EventOpcodes
  <2>3. /\ LaidOut(StructOf(r), LayoutOf(r), DecodedOf(r), HAL_ACI_MAX_LENGTH)
        /\ StructOf(r) = aci_evt_params[evt]
    BY <2>1, <2>2, ReportStructs DEF HasRsp
  <2>4. /\ DOMAIN r.fields = {StructOf(r)[i][1] : i \in 1..Len(StructOf(r))}
        /\ \A i \in 1..Len(StructOf(r)) : IsValue(StructOf(r)[i], r.fields[StructOf(r)[i][1]])
    BY <2>1, <2>3, FieldsAreValues
  <2> QED
    BY <2>1, <2>2, <2>4 DEF IsReport
<1>2. ASSUME NEW cmd \in DOMAIN aci_cmd_opcode_t,
             r = [evt |-> "cmd_rsp", cmd |-> cmd,
                  fields |-> [Fields(EvtParams("cmd_rsp", cmd)) EXCEPT
                                !.cmd_opcode = Byte(aci_cmd_opcode_t[cmd])]]
      PROVE  IsReport(r) /\ r.evt \notin {"connected", "disconnected", "pipe_status", "timing"}
  <2> DEFINE struct == StructOf(r)
             code == Byte(aci_cmd_opcode_t[cmd])
  <2>1. /\ r.evt = "cmd_rsp" /\ r.cmd = cmd
        /\ r.fields = [Fields(struct) EXCEPT !["cmd_opcode"] = code]
    BY <1>2 DEF StructOf
  <2>2. r.evt \in DOMAIN aci_evt_opcode_t
    BY <2>1 DEF aci_evt_opcode_t
  <2>3. LaidOut(struct, LayoutOf(r), DecodedOf(r), HAL_ACI_MAX_LENGTH)
    BY <2>2, ReportStructs
  <2>4. struct[1] = <<"cmd_opcode", 1>>
    <3>1. CASE HasRsp(r)
      <4>1. struct = RspStructs[cmd] /\ cmd \in DOMAIN aci_evt_params_cmd_rsp_t
        BY <2>1, <3>1, ResponseStructs DEF HasRsp, StructOf
      <4> HIDE DEF struct
      <4> QED
        BY <4>1 DEF RspStructs, aci_evt_params_cmd_rsp_t
    <3>2. CASE ~ HasRsp(r)
      <4>1. struct = aci_evt_params["cmd_rsp"]
        BY <2>1, <2>2, <3>2, ReportStructs
      <4> HIDE DEF struct
      <4> QED
        BY <4>1 DEF aci_evt_params
    <3> QED
      BY <3>1, <3>2
  <2>5. code \in Seq(Bytes) /\ Len(code) = 1
    <3>1. aci_cmd_opcode_t[cmd] \in Nat
      BY <1>2 DEF aci_cmd_opcode_t
    <3> QED
      BY <3>1, BytesOfValues
  <2>6. /\ DOMAIN Fields(struct) = {struct[i][1] : i \in 1..Len(struct)}
        /\ \A i \in 1..Len(struct) : IsValue(struct[i], Fields(struct)[struct[i][1]])
    BY <2>3, FieldsAreValues
  <2>7. /\ \A i, j \in 1..Len(struct) : struct[i][1] = struct[j][1] => i = j
        /\ 1 \in 1..Len(struct)
    <3>1. IsStruct(struct)
      BY <2>3 DEF LaidOut
    <3> HIDE DEF struct
    <3>2. Len(struct) \in Nat /\ Len(struct) > 0
      BY <3>1, StructFields
    <3> QED
      BY <3>1, <3>2 DEF IsStruct
  <2> HIDE DEF struct, code
  <2>8. struct[1][1] = "cmd_opcode" /\ struct[1][2] = 1
    BY <2>4
  <2>9. r.fields["cmd_opcode"] = code /\ DOMAIN r.fields = DOMAIN Fields(struct)
    <3>1. "cmd_opcode" \in DOMAIN Fields(struct)
      BY <2>6, <2>7, <2>8
    <3> QED
      BY <2>1, <3>1
  <2>10. ASSUME NEW i \in 1..Len(struct) PROVE IsValue(struct[i], r.fields[struct[i][1]])
    <3>1. CASE i = 1
      BY <2>5, <2>8, <2>9, <3>1 DEF IsValue, ArrayFields
    <3>2. CASE i # 1
      <4>1. struct[i][1] # "cmd_opcode"
        BY <2>7, <2>8, <3>2
      <4>2. r.fields[struct[i][1]] = Fields(struct)[struct[i][1]]
        BY <2>1, <2>6, <4>1
      <4> QED
        BY <2>6, <4>2
    <3> QED
      BY <3>1, <3>2
  <2> QED
    BY <1>2, <2>1, <2>2, <2>6, <2>9, <2>10 DEF IsReport, struct, code
<1> QED
  BY <1>1, <1>2 DEF OtherReports

-----------------------------------------------------------------------------
(* The events that wait to be read.                                        *)

Queued(r) == [packet |-> PacketOf(r), report |-> r]
QueuedReports == {Queued(r) : r \in Reports}

(* None of a kind waits; the latest one of a kind that does.               *)
NoneOf(q, kind) == \A i \in 1..Len(q) : q[i].report.evt \notin kind
Latest(q, kind, r) ==
    \E i \in 1..Len(q) :
        /\ q[i].report = r /\ r.evt \in kind
        /\ \A j \in 1..Len(q) : j > i => q[j].report.evt \notin kind

LEMMA AppendToQueue ==
    ASSUME NEW S, NEW q \in Seq(S), NEW x \in S, NEW kind
    PROVE  /\ Append(q, x) \in Seq(S) /\ Append(q, x) # <<>> /\ Len(Append(q, x)) = Len(q) + 1
           /\ x.report.evt \in kind =>
                /\ ~ NoneOf(Append(q, x), kind)
                /\ \A r : Latest(Append(q, x), kind, r) => r = x.report
           /\ x.report.evt \notin kind =>
                /\ NoneOf(Append(q, x), kind) => NoneOf(q, kind)
                /\ \A r : Latest(Append(q, x), kind, r) => Latest(q, kind, r)
<1> DEFINE a == Append(q, x)
           n == Len(q)
<1>1. /\ n \in Nat /\ a \in Seq(S) /\ Len(a) = n + 1 /\ a # <<>>
      /\ a[n + 1] = x /\ \A i \in 1..n : a[i] = q[i]
  BY AppendProperties, LenProperties
<1>2. n + 1 \in 1..n + 1 /\ \A i \in 1..n + 1 : i # n + 1 => i \in 1..n /\ n + 1 > i
  BY <1>1
<1>3. \A i \in 1..n : i \in 1..n + 1
  BY <1>1
<1> HIDE DEF a, n
<1>4. ASSUME x.report.evt \in kind
      PROVE  ~ NoneOf(a, kind) /\ \A r : Latest(a, kind, r) => r = x.report
  <2>1. ~ NoneOf(a, kind)
    BY <1>1, <1>2, <1>4 DEF NoneOf
  <2>2. ASSUME NEW r, Latest(a, kind, r) PROVE r = x.report
    <3>1. PICK i \in 1..n + 1 : a[i].report = r /\ \A j \in 1..n + 1 : j > i => a[j].report.evt \notin kind
      BY <1>1, <2>2, Zenon DEF Latest
    <3>2. i = n + 1
      BY <1>1, <1>2, <1>4, <3>1
    <3> QED
      BY <1>1, <3>1, <3>2
  <2> QED
    BY <2>1, <2>2
<1>5. ASSUME x.report.evt \notin kind
      PROVE  /\ NoneOf(a, kind) => NoneOf(q, kind)
             /\ \A r : Latest(a, kind, r) => Latest(q, kind, r)
  <2>1. NoneOf(a, kind) => NoneOf(q, kind)
    BY <1>1, <1>3 DEF NoneOf, n
  <2>2. ASSUME NEW r, Latest(a, kind, r) PROVE Latest(q, kind, r)
    <3>1. PICK i \in 1..n + 1 : /\ a[i].report = r /\ r.evt \in kind
                                /\ \A j \in 1..n + 1 : j > i => a[j].report.evt \notin kind
      BY <1>1, <2>2, Zenon DEF Latest
    <3>2. i \in 1..n
      BY <1>1, <1>2, <1>5, <3>1
    <3>3. q[i].report = r /\ \A j \in 1..n : j > i => q[j].report.evt \notin kind
      BY <1>1, <1>3, <3>1, <3>2
    <3> QED
      BY <3>1, <3>2, <3>3, Zenon DEF Latest, n
  <2> QED
    BY <2>1, <2>2
<1> QED
  BY <1>1, <1>4, <1>5 DEF a, n

LEMMA TailOfQueue ==
    ASSUME NEW S, NEW q \in Seq(S), q # <<>>, NEW kind
    PROVE  /\ Tail(q) \in Seq(S) /\ Head(q) \in S /\ Len(Tail(q)) = Len(q) - 1
           /\ \A r : Latest(Tail(q), kind, r) => Latest(q, kind, r)
           /\ NoneOf(Tail(q), kind) =>
                IF Head(q).report.evt \in kind THEN Latest(q, kind, Head(q).report)
                                               ELSE NoneOf(q, kind)
<1> DEFINE t == Tail(q)
           n == Len(q)
<1>1. /\ n \in Nat /\ n > 0 /\ t \in Seq(S) /\ Head(q) \in S /\ Head(q) = q[1] /\ Len(t) = n - 1
      /\ \A i \in 1..n - 1 : t[i] = q[i + 1]
  <2>1. n \in Nat /\ n # 0
    BY LenProperties, EmptySeq
  <2>2. Head(q) = q[1] /\ q[1] \in S
    BY <2>1, ElementOfSeq
  <2> QED
    BY <2>1, <2>2, HeadTailProperties
<1> HIDE DEF t, n
<1>2. /\ \A i \in 1..n - 1 : i + 1 \in 1..n
      /\ \A i \in 1..n : i # 1 => i - 1 \in 1..n - 1 /\ (i - 1) + 1 = i
      /\ 1 \in 1..n
  BY <1>1
<1>3. \A i \in 1..n : i # 1 => t[i - 1] = q[i]
  BY <1>1, <1>2
<1>4. ASSUME NEW r, Latest(t, kind, r) PROVE Latest(q, kind, r)
  <2>1. PICK i \in 1..n - 1 : /\ t[i].report = r /\ r.evt \in kind
                              /\ \A j \in 1..n - 1 : j > i => t[j].report.evt \notin kind
    BY <1>1, <1>4, Zenon DEF Latest
  <2>2. i + 1 \in 1..n /\ q[i + 1].report = r
    BY <1>1, <1>2, <2>1
  <2>3. ASSUME NEW j \in 1..n, j > i + 1 PROVE q[j].report.evt \notin kind
    <3>1. j # 1 /\ j - 1 \in 1..n - 1 /\ j - 1 > i
      BY <1>1, <2>1, <2>3
    <3> QED
      BY <1>3, <2>1, <3>1
  <2> QED
    BY <2>1, <2>2, <2>3, Zenon DEF Latest, n
<1>5. ASSUME NoneOf(t, kind)
      PROVE  IF q[1].report.evt \in kind THEN Latest(q, kind, q[1].report) ELSE NoneOf(q, kind)
  <2>1. ASSUME NEW j \in 1..n, j # 1 PROVE q[j].report.evt \notin kind
    <3>1. t[j - 1].report.evt \notin kind
      BY <1>1, <1>2, <1>5, <2>1 DEF NoneOf
    <3> QED
      BY <1>3, <2>1, <3>1
  <2>2. CASE q[1].report.evt \in kind
    <3>1. \A j \in 1..n : j > 1 => q[j].report.evt \notin kind
      BY <2>1
    <3>2. Latest(q, kind, q[1].report)
      BY <1>2, <2>2, <3>1, Zenon DEF Latest, n
    <3> QED
      BY <2>2, <3>2
  <2>3. CASE q[1].report.evt \notin kind
    BY <2>1, <2>3 DEF NoneOf, n
  <2> QED
    BY <2>2, <2>3
<1> QED
  BY <1>1, <1>4, <1>5 DEF t, n

-----------------------------------------------------------------------------
(* The view of the connection.                                             *)

OfConnection == {"connected", "disconnected"}
OfTiming == {"connected", "timing"}
OfPipes == {"pipe_status", "disconnected"}

EventsInv == events \in Seq(QueuedReports)

LinkInv ==
    /\ link \in [up : BOOLEAN, open : {{}} \cup OpenSets, interval : {0} \cup Intervals]
    /\ ~ link.up => link.open = {}

(* The latest event that says whether there is a link says what is true of *)
(* it, and with none of these the program knows; alike for the interval,   *)
(* and for the pipes.                                                      *)
StatusInv ==
    /\ \A r \in Reports : Latest(events, OfConnection, r) => (r.evt = "connected" <=> link.up)
    /\ NoneOf(events, OfConnection) => (status = "CONNECTED" <=> link.up)

TimingInv ==
    link.up =>
        /\ \A r \in Reports :
            Latest(events, OfTiming, r) => r.fields["conn_rf_interval"] = Word(link.interval)
        /\ NoneOf(events, OfTiming) => timing.conn_rf_interval = Word(link.interval)

PipesInv ==
    /\ \A r \in Reports : Latest(events, OfPipes, r) =>
        IF r.evt = "pipe_status" THEN r = PipeStatus(link.open) ELSE link.open = {}
    /\ NoneOf(events, OfPipes) =>
        /\ ~ disconnecting => \A p \in Pipes : lib_aci_is_pipe_available(p) <=> p \in link.open
        /\ \A p \in Pipes : lib_aci_is_pipe_closed(p) => p \notin link.open

ViewInv == EventsInv /\ LinkInv /\ StatusInv /\ TimingInv /\ PipesInv

LEMMA PipesAreBits == \A p \in Pipes : p \in 0..63
<1> DEFINE n == Len(p_services_pipe_type_map)
<1>1. n \in Nat /\ n <= 62
  <2>1. n <= 62
    BY LibraryAssumption DEF p_services_pipe_type_map, ACI_DEVICE_MAX_PIPES
  <2> QED
    BY <2>1
<1> HIDE DEF n
<1> QED
  BY <1>1 DEF Pipes, n

LEMMA EachReport ==
    ASSUME NEW r \in Reports
    PROVE  /\ IsReport(r)
           /\ r.evt \in {"connected", "disconnected", "pipe_status", "timing"} =>
                r \in LinkReports
<1>1. CASE r \in LinkReports
  BY <1>1, EachLinkReport DEF LinkReports
<1>2. CASE r \in OtherReports
  BY <1>2, EachOtherReport
<1> QED
  BY <1>1, <1>2 DEF Reports

LEMMA ReportNames ==
    /\ Disconnected \in Reports /\ Disconnected.evt = "disconnected"
    /\ \A interval \in Intervals :
        /\ Connected(interval) \in Reports /\ Connected(interval).evt = "connected"
        /\ Connected(interval).fields["conn_rf_interval"] = Word(interval)
        /\ Timing(interval) \in Reports /\ Timing(interval).evt = "timing"
        /\ Timing(interval).fields["conn_rf_interval"] = Word(interval)
    /\ \A open \in OpenSets :
        /\ PipeStatus(open) \in Reports /\ PipeStatus(open).evt = "pipe_status"
        /\ PipeStatus(open).fields["pipes_open_bitmap"] = Bitmap(open)
        /\ PipeStatus(open).fields["pipes_closed_bitmap"] = Bitmap(Pipes \ open)
    /\ \A r \in OtherReports :
        r.evt \notin {"connected", "disconnected", "pipe_status", "timing"}
<1>1. LinkReports \subseteq Reports
  BY DEF Reports
<1>2. /\ Disconnected \in LinkReports
      /\ \A interval \in Intervals : Connected(interval) \in LinkReports /\ Timing(interval) \in LinkReports
      /\ \A open \in OpenSets : PipeStatus(open) \in LinkReports
  BY DEF LinkReports
<1>3. Disconnected.evt = "disconnected"
  BY DEF Disconnected, Report
<1>4. \A interval \in Intervals :
        /\ Connected(interval).evt = "connected"
        /\ Connected(interval).fields["conn_rf_interval"] = Word(interval)
  BY DEF Connected, Report
<1>5. \A interval \in Intervals :
        /\ Timing(interval).evt = "timing"
        /\ Timing(interval).fields["conn_rf_interval"] = Word(interval)
  BY DEF Timing, Report
<1>6. \A open \in OpenSets :
        /\ PipeStatus(open).evt = "pipe_status"
        /\ PipeStatus(open).fields["pipes_open_bitmap"] = Bitmap(open)
        /\ PipeStatus(open).fields["pipes_closed_bitmap"] = Bitmap(Pipes \ open)
  BY DEF PipeStatus, Report
<1>7. \A r \in OtherReports :
        r.evt \notin {"connected", "disconnected", "pipe_status", "timing"}
  BY EachOtherReport
<1> QED
  BY <1>1, <1>2, <1>3, <1>4, <1>5, <1>6, <1>7

(* A report joins those that wait.                                         *)
LEMMA ReportJoins ==
    ASSUME EventsInv, NEW r \in Reports, Reported(r)
    PROVE  /\ EventsInv'
           /\ \A kind :
                /\ r.evt \in kind => ~ NoneOf(events', kind)
                /\ \A s : (r.evt \in kind /\ Latest(events', kind, s)) => s = r
                /\ (r.evt \notin kind /\ NoneOf(events', kind)) => NoneOf(events, kind)
                /\ \A s : (r.evt \notin kind /\ Latest(events', kind, s)) => Latest(events, kind, s)
<1> DEFINE x == Queued(r)
           a == Append(events, x)
<1>1. events' = a /\ x \in QueuedReports /\ x.report = r /\ events \in Seq(QueuedReports)
  BY DEF Reported, Queued, QueuedReports, EventsInv
<1> HIDE DEF x
<1>2. a \in Seq(QueuedReports)
  BY <1>1, AppendProperties
<1>3. ASSUME NEW kind
      PROVE  /\ r.evt \in kind => ~ NoneOf(a, kind)
             /\ \A s : (r.evt \in kind /\ Latest(a, kind, s)) => s = r
             /\ (r.evt \notin kind /\ NoneOf(a, kind)) => NoneOf(events, kind)
             /\ \A s : (r.evt \notin kind /\ Latest(a, kind, s)) => Latest(events, kind, s)
  <2>1. /\ x.report.evt \in kind =>
            /\ ~ NoneOf(Append(events, x), kind)
            /\ \A s : Latest(Append(events, x), kind, s) => s = x.report
        /\ x.report.evt \notin kind =>
            /\ NoneOf(Append(events, x), kind) => NoneOf(events, kind)
            /\ \A s : Latest(Append(events, x), kind, s) => Latest(events, kind, s)
    BY <1>1, AppendToQueue, Zenon
  <2> HIDE DEF a
  <2> QED
    BY <1>1, <2>1, Zenon DEF a
<1> HIDE DEF a
<1> QED
  BY <1>1, <1>2, <1>3, Zenon DEF EventsInv

(* The first of those that wait is read.                                   *)
LEMMA ReportLeaves ==
    ASSUME EventsInv, events # <<>>, events' = Tail(events)
    PROVE  /\ EventsInv'
           /\ \E r \in Reports :
                /\ Head(events).packet = PacketOf(r)
                /\ \A kind :
                    /\ \A s : Latest(events', kind, s) => Latest(events, kind, s)
                    /\ (NoneOf(events', kind) /\ r.evt \in kind) => Latest(events, kind, r)
                    /\ (NoneOf(events', kind) /\ r.evt \notin kind) => NoneOf(events, kind)
<1> DEFINE t == Tail(events)
           h == Head(events)
<1>1. events \in Seq(QueuedReports)
  BY DEF EventsInv
<1>2. t \in Seq(QueuedReports) /\ h \in QueuedReports
  BY <1>1, HeadTailProperties, EmptySeq, ElementOfSeq
<1>3. PICK r \in Reports : h.packet = PacketOf(r) /\ h.report = r
  BY <1>2 DEF QueuedReports, Queued
<1>4. ASSUME NEW kind
      PROVE  /\ \A s : Latest(t, kind, s) => Latest(events, kind, s)
             /\ (NoneOf(t, kind) /\ r.evt \in kind) => Latest(events, kind, r)
             /\ (NoneOf(t, kind) /\ r.evt \notin kind) => NoneOf(events, kind)
  <2>1. /\ \A s : Latest(Tail(events), kind, s) => Latest(events, kind, s)
        /\ NoneOf(Tail(events), kind) =>
            IF Head(events).report.evt \in kind THEN Latest(events, kind, Head(events).report)
                                                ELSE NoneOf(events, kind)
    BY <1>1, TailOfQueue, Zenon
  <2> QED
    BY <1>3, <2>1, Zenon
<1> HIDE DEF t, h
<1>5. events' = t
  BY DEF t
<1> QED
  BY <1>2, <1>3, <1>4, <1>5, Zenon DEF EventsInv, h

(* What lib_aci_event_get takes from the packets about the connection.     *)
LEMMA PipesRead ==
    ASSUME NEW r \in Reports, r.evt = "pipe_status"
    PROVE  /\ BothOf(r.evt, PacketOf(r)).open = r.fields["pipes_open_bitmap"]
           /\ BothOf(r.evt, PacketOf(r)).closed = r.fields["pipes_closed_bitmap"]
<1>1. IsReport(r) /\ ~ HasRsp(r)
  BY EachReport DEF HasRsp
<1>2. StructOf(r) = << <<"pipes_open_bitmap", 8>>, <<"pipes_closed_bitmap", 8>> >>
  <2>1. StructOf(r) = aci_evt_params["pipe_status"]
    BY <1>1, ReportStructs DEF IsReport
  <2> QED
    BY <2>1 DEF aci_evt_params
<1>3. \A i \in 1..Len(StructOf(r)) : StructOf(r)[i][1] \notin ArrayFields =>
        Field(r.evt, PacketOf(r), StructOf(r)[i][1]) = r.fields[StructOf(r)[i][1]]
  BY <1>1, ReportField, Zenon
<1>4. /\ 1 \in 1..Len(StructOf(r)) /\ StructOf(r)[1][1] = "pipes_open_bitmap"
      /\ 2 \in 1..Len(StructOf(r)) /\ StructOf(r)[2][1] = "pipes_closed_bitmap"
      /\ "pipes_open_bitmap" \notin ArrayFields /\ "pipes_closed_bitmap" \notin ArrayFields
  BY <1>2 DEF ArrayFields
<1>5. /\ Field(r.evt, PacketOf(r), "pipes_open_bitmap") = r.fields["pipes_open_bitmap"]
      /\ Field(r.evt, PacketOf(r), "pipes_closed_bitmap") = r.fields["pipes_closed_bitmap"]
  BY <1>3, <1>4, Zenon
<1> QED
  BY <1>5 DEF BothOf

(* The timing is at one place in an event of its own, and at another in    *)
(* that of a new connection.                                               *)
LEMMA TimingRead ==
    ASSUME NEW r \in Reports, r.evt \in OfTiming, NEW f \in TimingFields
    PROVE  Field(r.evt, PacketOf(r), f) = r.fields[f] /\ r.fields[f] \in Seq(Bytes)
<1>1. IsReport(r) /\ ~ HasRsp(r)
  BY EachReport DEF HasRsp, OfTiming
<1>2. StructOf(r) = aci_evt_params[r.evt]
  BY <1>1, ReportStructs DEF IsReport
<1>3. \A i \in 1..Len(StructOf(r)) : StructOf(r)[i][1] \notin ArrayFields =>
        Field(r.evt, PacketOf(r), StructOf(r)[i][1]) = r.fields[StructOf(r)[i][1]]
  BY <1>1, ReportField, Zenon
<1>4. f \in {"conn_rf_interval", "conn_slave_rf_latency", "conn_rf_timeout"} /\ f \notin ArrayFields
  BY DEF TimingFields, ConnectionTiming, ArrayFields
<1>5. \E i \in 1..Len(StructOf(r)) : StructOf(r)[i][1] = f
  <2>1. CASE r.evt = "timing"
    BY <1>2, <1>4, <2>1 DEF aci_evt_params, ConnectionTiming
  <2>2. CASE r.evt = "connected"
    <3>1. StructOf(r) = << <<"dev_addr_type", 1>>, <<"dev_addr", 6>>,
             <<"conn_rf_interval", 2>>, <<"conn_slave_rf_latency", 2>>,
             <<"conn_rf_timeout", 2>>, <<"master_clock_accuracy", 1>> >>
      BY <1>2, <2>2 DEF aci_evt_params, BTLE_DEVICE_ADDRESS_SIZE
    <3>2. /\ 3 \in 1..Len(StructOf(r)) /\ 4 \in 1..Len(StructOf(r)) /\ 5 \in 1..Len(StructOf(r))
          /\ StructOf(r)[3][1] = "conn_rf_interval" /\ StructOf(r)[4][1] = "conn_slave_rf_latency"
          /\ StructOf(r)[5][1] = "conn_rf_timeout"
      BY <3>1
    <3> QED
      BY <1>4, <3>2
  <2> QED
    BY <2>1, <2>2 DEF OfTiming
<1>6. \A i \in 1..Len(StructOf(r)) : r.fields[StructOf(r)[i][1]] \in Seq(Bytes)
  BY <1>1 DEF IsReport, IsValue
<1> QED
  BY <1>3, <1>4, <1>5, <1>6, Zenon

LEMMA ReportKinds ==
    ASSUME NEW r \in Reports
    PROVE  /\ OpcodeName(aci_evt_opcode_t, PacketOf(r)[1]) = r.evt
           /\ PacketOf(r) \in Packets
           /\ r.evt = "pipe_status" => \E open \in OpenSets : r = PipeStatus(open)
<1>1. IsReport(r)
  BY EachReport
<1>2. OpcodeName(aci_evt_opcode_t, PacketOf(r)[1]) = r.evt /\ PacketOf(r) \in Packets
  BY <1>1, ReportPacket
<1>3. ASSUME r.evt = "pipe_status" PROVE \E open \in OpenSets : r = PipeStatus(open)
  <2>1. r \in LinkReports
    BY <1>3, EachReport
  <2>2. r # Disconnected /\ \A interval \in Intervals : r # Connected(interval) /\ r # Timing(interval)
    BY <1>3, ReportNames
  <2> QED
    BY <2>1, <2>2 DEF LinkReports
<1> QED
  BY <1>2, <1>3

-----------------------------------------------------------------------------
(* Each action keeps the view.                                             *)

LEMMA ViewInit == Init => ViewInv
<1> SUFFICES ASSUME Init PROVE ViewInv
  OBVIOUS
<1>1. events = <<>> /\ link = NoLink /\ status = "STANDBY" /\ bitmaps = BothEmpty
  BY DEF Init
<1>2. EventsInv
  BY <1>1 DEF EventsInv
<1>3. LinkInv /\ ~ link.up /\ link.open = {}
  BY <1>1 DEF LinkInv, NoLink
<1>4. \A kind : NoneOf(events, kind) /\ \A r : ~ Latest(events, kind, r)
  BY <1>1 DEF NoneOf, Latest
<1>5. StatusInv
  BY <1>1, <1>3, <1>4 DEF StatusInv
<1>6. TimingInv
  BY <1>3 DEF TimingInv
<1>7. PipesInv
  <2>1. \A p \in Pipes : ~ lib_aci_is_pipe_available(p) /\ ~ lib_aci_is_pipe_closed(p)
    BY <1>1, PipesAreBits, NoPipesBits DEF BothEmpty, lib_aci_is_pipe_available, lib_aci_is_pipe_closed
  <2> QED
    BY <1>3, <1>4, <2>1 DEF PipesInv
<1> QED
  BY <1>2, <1>3, <1>5, <1>6, <1>7 DEF ViewInv

(* The link is lost, by the program's command or by the peer.              *)
LEMMA LinkEnds ==
    ASSUME ViewInv, link' = NoLink, Reported(Disconnected),
           UNCHANGED <<status, bitmaps, timing, disconnecting>>
    PROVE  ViewInv'
<1>1. Disconnected \in Reports /\ Disconnected.evt = "disconnected"
  BY ReportNames
<1>2. /\ EventsInv'
      /\ \A kind :
            /\ Disconnected.evt \in kind => ~ NoneOf(events', kind)
            /\ \A s : (Disconnected.evt \in kind /\ Latest(events', kind, s)) => s = Disconnected
  BY <1>1, ReportJoins DEF ViewInv
<1>3. LinkInv' /\ ~ link'.up /\ link'.open = {}
  BY DEF LinkInv, NoLink
<1>4. StatusInv'
  BY <1>1, <1>2, <1>3 DEF StatusInv, OfConnection
<1>5. TimingInv'
  BY <1>3 DEF TimingInv
<1>6. PipesInv'
  BY <1>1, <1>2, <1>3 DEF PipesInv, OfPipes
<1> QED
  BY <1>2, <1>3, <1>4, <1>5, <1>6 DEF ViewInv

(* A link begins.                                                          *)
LEMMA LinkBegins ==
    ASSUME ViewInv, ~ link.up, NEW interval \in Intervals,
           link' = [up |-> TRUE, open |-> {}, interval |-> interval],
           Reported(Connected(interval)),
           UNCHANGED <<status, bitmaps, timing, disconnecting>>
    PROVE  ViewInv'
<1> DEFINE r == Connected(interval)
<1>1. r \in Reports /\ r.evt = "connected" /\ r.fields["conn_rf_interval"] = Word(interval)
  BY ReportNames
<1> HIDE DEF r
<1>2. /\ EventsInv'
      /\ \A kind :
            /\ r.evt \in kind => ~ NoneOf(events', kind)
            /\ \A s : (r.evt \in kind /\ Latest(events', kind, s)) => s = r
            /\ (r.evt \notin kind /\ NoneOf(events', kind)) => NoneOf(events, kind)
            /\ \A s : (r.evt \notin kind /\ Latest(events', kind, s)) => Latest(events, kind, s)
  BY <1>1, ReportJoins DEF ViewInv, r
<1>3. LinkInv' /\ link'.up /\ link'.open = {} /\ link'.interval = interval /\ link.open = {}
  BY DEF ViewInv, LinkInv
<1>4. StatusInv'
  BY <1>1, <1>2, <1>3 DEF StatusInv, OfConnection
<1>5. TimingInv'
  BY <1>1, <1>2, <1>3 DEF TimingInv, OfTiming
<1>6. PipesInv'
  <2>1. r.evt \notin OfPipes
    BY <1>1 DEF OfPipes
  <2>2. ASSUME NEW s \in Reports, Latest(events', OfPipes, s)
        PROVE  IF s.evt = "pipe_status" THEN s = PipeStatus(link'.open) ELSE link'.open = {}
    BY <1>2, <1>3, <2>1, <2>2 DEF ViewInv, PipesInv
  <2>3. NoneOf(events', OfPipes) =>
            /\ ~ disconnecting' =>
                \A p \in Pipes : lib_aci_is_pipe_available(p)' <=> p \in link'.open
            /\ \A p \in Pipes : lib_aci_is_pipe_closed(p)' => p \notin link'.open
    BY <1>2, <1>3, <2>1
       DEF ViewInv, PipesInv, lib_aci_is_pipe_available, lib_aci_is_pipe_closed
  <2> QED
    BY <2>2, <2>3 DEF PipesInv
<1> QED
  BY <1>2, <1>3, <1>4, <1>5, <1>6 DEF ViewInv

LEMMA PipesChangeView == ViewInv /\ PipesChange => ViewInv'
<1> SUFFICES ASSUME ViewInv, PipesChange PROVE ViewInv'
  OBVIOUS
<1>1. PICK open \in OpenSets : link' = [link EXCEPT !.open = open] /\ Reported(PipeStatus(open))
  BY DEF PipesChange
<1> DEFINE r == PipeStatus(open)
<1>2. r \in Reports /\ r.evt = "pipe_status"
  BY ReportNames
<1>3. /\ EventsInv'
      /\ \A kind :
            /\ r.evt \in kind => ~ NoneOf(events', kind)
            /\ \A s : (r.evt \in kind /\ Latest(events', kind, s)) => s = r
            /\ (r.evt \notin kind /\ NoneOf(events', kind)) => NoneOf(events, kind)
            /\ \A s : (r.evt \notin kind /\ Latest(events', kind, s)) => Latest(events, kind, s)
  BY <1>1, <1>2, ReportJoins DEF ViewInv
<1>4. LinkInv' /\ link.up /\ link'.up /\ link'.open = open /\ link'.interval = link.interval
  BY <1>1 DEF PipesChange, ViewInv, LinkInv
<1>5. UNCHANGED <<status, bitmaps, timing, disconnecting>>
  BY DEF PipesChange, library
<1>6. StatusInv'
  <2>1. r.evt \notin OfConnection
    BY <1>2 DEF OfConnection
  <2> QED
    BY <1>3, <1>4, <1>5, <2>1 DEF ViewInv, StatusInv
<1>7. TimingInv'
  <2>1. r.evt \notin OfTiming
    BY <1>2 DEF OfTiming
  <2> QED
    BY <1>3, <1>4, <1>5, <2>1 DEF ViewInv, TimingInv
<1>8. PipesInv'
  <2>1. r.evt \in OfPipes
    BY <1>2 DEF OfPipes
  <2> QED
    BY <1>2, <1>3, <1>4, <2>1 DEF PipesInv
<1> QED
  BY <1>3, <1>4, <1>6, <1>7, <1>8 DEF ViewInv

LEMMA TimingChangesView == ViewInv /\ TimingChanges => ViewInv'
<1> SUFFICES ASSUME ViewInv, TimingChanges PROVE ViewInv'
  OBVIOUS
<1>1. PICK interval \in Intervals :
        link' = [link EXCEPT !.interval = interval] /\ Reported(Timing(interval))
  BY DEF TimingChanges
<1> DEFINE r == Timing(interval)
<1>2. r \in Reports /\ r.evt = "timing" /\ r.fields["conn_rf_interval"] = Word(interval)
  BY ReportNames
<1> HIDE DEF r
<1>3. /\ EventsInv'
      /\ \A kind :
            /\ r.evt \in kind => ~ NoneOf(events', kind)
            /\ \A s : (r.evt \in kind /\ Latest(events', kind, s)) => s = r
            /\ (r.evt \notin kind /\ NoneOf(events', kind)) => NoneOf(events, kind)
            /\ \A s : (r.evt \notin kind /\ Latest(events', kind, s)) => Latest(events, kind, s)
  BY <1>1, <1>2, ReportJoins DEF ViewInv, r
<1>4. LinkInv' /\ link.up /\ link'.up /\ link'.open = link.open /\ link'.interval = interval
  BY <1>1 DEF TimingChanges, ViewInv, LinkInv
<1>5. UNCHANGED <<status, bitmaps, timing, disconnecting>>
  BY DEF TimingChanges, library
<1>6. StatusInv'
  <2>1. r.evt \notin OfConnection
    BY <1>2 DEF OfConnection
  <2> QED
    BY <1>3, <1>4, <1>5, <2>1 DEF ViewInv, StatusInv
<1>7. TimingInv'
  <2>1. r.evt \in OfTiming
    BY <1>2 DEF OfTiming
  <2> QED
    BY <1>2, <1>3, <1>4, <2>1 DEF TimingInv
<1>8. PipesInv'
  <2>1. r.evt \notin OfPipes
    BY <1>2 DEF OfPipes
  <2> QED
    BY <1>3, <1>4, <1>5, <2>1
       DEF ViewInv, PipesInv, lib_aci_is_pipe_available, lib_aci_is_pipe_closed
<1> QED
  BY <1>3, <1>4, <1>6, <1>7, <1>8 DEF ViewInv

LEMMA OtherEventView == ViewInv /\ OtherEvent => ViewInv'
<1> SUFFICES ASSUME ViewInv, OtherEvent PROVE ViewInv'
  OBVIOUS
<1>1. PICK r \in OtherReports : Reported(r)
  BY DEF OtherEvent
<1>2. r \in Reports /\ r.evt \notin OfConnection /\ r.evt \notin OfTiming /\ r.evt \notin OfPipes
  BY ReportNames DEF Reports, OfConnection, OfTiming, OfPipes
<1>3. /\ EventsInv'
      /\ \A kind :
            /\ (r.evt \notin kind /\ NoneOf(events', kind)) => NoneOf(events, kind)
            /\ \A s : (r.evt \notin kind /\ Latest(events', kind, s)) => Latest(events, kind, s)
  BY <1>1, <1>2, ReportJoins DEF ViewInv
<1>4. UNCHANGED <<status, bitmaps, timing, disconnecting, link>>
  BY DEF OtherEvent, library
<1>5. LinkInv'
  BY <1>4 DEF ViewInv, LinkInv
<1>6. StatusInv'
  BY <1>2, <1>3, <1>4 DEF ViewInv, StatusInv
<1>7. TimingInv'
  BY <1>2, <1>3, <1>4 DEF ViewInv, TimingInv
<1>8. PipesInv'
  BY <1>2, <1>3, <1>4
     DEF ViewInv, PipesInv, lib_aci_is_pipe_available, lib_aci_is_pipe_closed
<1> QED
  BY <1>3, <1>5, <1>6, <1>7, <1>8 DEF ViewInv

LEMMA DisconnectView == ViewInv /\ Disconnect => ViewInv'
<1> SUFFICES ASSUME ViewInv, Disconnect PROVE ViewInv'
  OBVIOUS
<1> DEFINE sends == Sends(Call("disconnect", [reason |-> Byte(1)]))
<1>1. /\ UNCHANGED <<events, status, timing, link>>
      /\ IF sends THEN bitmaps' = BothEmpty ELSE UNCHANGED bitmaps
      /\ disconnecting' = (disconnecting \/ sends)
  BY DEF Disconnect
<1> HIDE DEF sends
<1>2. EventsInv' /\ LinkInv' /\ StatusInv' /\ TimingInv'
  BY <1>1 DEF ViewInv, EventsInv, LinkInv, StatusInv, TimingInv
<1>3. CASE sends
  <2>1. bitmaps' = BothEmpty /\ disconnecting'
    BY <1>1, <1>3
  <2>2. \A p \in Pipes : ~ lib_aci_is_pipe_closed(p)'
    BY <2>1, PipesAreBits, NoPipesBits DEF BothEmpty, lib_aci_is_pipe_closed
  <2>3. PipesInv'
    BY <1>1, <2>1, <2>2 DEF ViewInv, PipesInv
  <2> QED
    BY <1>2, <2>3 DEF ViewInv
<1>4. CASE ~ sends
  <2>1. bitmaps' = bitmaps /\ (disconnecting' <=> disconnecting)
    BY <1>1, <1>4
  <2>2. PipesInv'
    BY <1>1, <2>1 DEF ViewInv, PipesInv, lib_aci_is_pipe_available, lib_aci_is_pipe_closed
  <2> QED
    BY <1>2, <2>2 DEF ViewInv
<1> QED
  BY <1>3, <1>4

(* An event is read: what was true of the latest one of its kind is now    *)
(* what the program has, unless a later one of the kind waits.             *)
LEMMA EventGetView == ViewInv /\ EventGet => ViewInv'
<1> SUFFICES ASSUME ViewInv, EventGet PROVE ViewInv'
  OBVIOUS
<1>1. events # <<>> /\ events' = Tail(events) /\ UNCHANGED link
  BY DEF EventGet
<1>2. EventsInv'
  BY <1>1, ReportLeaves DEF ViewInv
<1>3. PICK r \in Reports :
        /\ Head(events).packet = PacketOf(r)
        /\ \A kind :
            /\ \A s : Latest(events', kind, s) => Latest(events, kind, s)
            /\ (NoneOf(events', kind) /\ r.evt \in kind) => Latest(events, kind, r)
            /\ (NoneOf(events', kind) /\ r.evt \notin kind) => NoneOf(events, kind)
  BY <1>1, ReportLeaves DEF ViewInv
<1> DEFINE packet == PacketOf(r)
<1>4. /\ bitmaps' = bitmaps_after(r.evt, packet)
      /\ timing' = timing_after(r.evt, packet)
      /\ status' = CASE r.evt = "connected" -> "CONNECTED"
                     [] r.evt = "disconnected" -> "STANDBY"
                     [] OTHER -> status
      /\ disconnecting' = (disconnecting /\ r.evt # "disconnected")
  BY <1>3, ReportKinds DEF EventGet
<1> HIDE DEF packet
<1>5. LinkInv'
  BY <1>1 DEF ViewInv, LinkInv
<1>6. StatusInv'
  <2>1. ASSUME NEW s \in Reports, Latest(events', OfConnection, s)
        PROVE  s.evt = "connected" <=> link'.up
    BY <1>1, <1>3, <2>1 DEF ViewInv, StatusInv
  <2>2. ASSUME NoneOf(events', OfConnection) PROVE status' = "CONNECTED" <=> link'.up
    <3>1. CASE r.evt \in OfConnection
      <4>1. r.evt = "connected" <=> link.up
        BY <1>3, <2>2, <3>1 DEF ViewInv, StatusInv
      <4>2. status' = "CONNECTED" <=> r.evt = "connected"
        BY <1>4, <3>1 DEF OfConnection
      <4> QED
        BY <1>1, <4>1, <4>2
    <3>2. CASE r.evt \notin OfConnection
      <4>1. status = "CONNECTED" <=> link.up
        BY <1>3, <2>2, <3>2 DEF ViewInv, StatusInv
      <4>2. status' = status
        BY <1>4, <3>2 DEF OfConnection
      <4> QED
        BY <1>1, <4>1, <4>2
    <3> QED
      BY <3>1, <3>2
  <2> QED
    BY <2>1, <2>2 DEF StatusInv
<1>7. TimingInv'
  <2> SUFFICES ASSUME link.up
               PROVE  /\ \A s \in Reports : Latest(events', OfTiming, s) =>
                            s.fields["conn_rf_interval"] = Word(link.interval)
                      /\ NoneOf(events', OfTiming) =>
                            timing'.conn_rf_interval = Word(link.interval)
    BY <1>1 DEF TimingInv
  <2>1. \A s \in Reports : Latest(events', OfTiming, s) =>
            s.fields["conn_rf_interval"] = Word(link.interval)
    BY <1>3 DEF ViewInv, TimingInv
  <2>2. ASSUME NoneOf(events', OfTiming)
        PROVE  timing'.conn_rf_interval = Word(link.interval)
    <3>1. CASE r.evt \in OfTiming
      <4>1. "conn_rf_interval" \in TimingFields
        BY DEF TimingFields, ConnectionTiming
      <4>2. timing' = [f \in TimingFields |-> Field(r.evt, packet, f)]
        BY <1>4, <3>1 DEF timing_after, OfTiming
      <4>3. timing'["conn_rf_interval"] = r.fields["conn_rf_interval"]
        BY <3>1, <4>1, <4>2, TimingRead DEF packet
      <4>4. r.fields["conn_rf_interval"] = Word(link.interval)
        BY <1>3, <2>2, <3>1 DEF ViewInv, TimingInv
      <4> QED
        BY <4>3, <4>4
    <3>2. CASE r.evt \notin OfTiming
      <4>1. timing' = timing
        BY <1>4, <3>2 DEF timing_after, OfTiming
      <4> QED
        BY <1>3, <2>2, <3>2, <4>1 DEF ViewInv, TimingInv
    <3> QED
      BY <3>1, <3>2
  <2> QED
    BY <2>1, <2>2
<1>8. PipesInv'
  <2>1. ASSUME NEW s \in Reports, Latest(events', OfPipes, s)
        PROVE  IF s.evt = "pipe_status" THEN s = PipeStatus(link'.open) ELSE link'.open = {}
    BY <1>1, <1>3, <2>1 DEF ViewInv, PipesInv
  <2>2. ASSUME NoneOf(events', OfPipes)
        PROVE  /\ ~ disconnecting' => \A p \in Pipes : HasBit(bitmaps'.open, p) <=> p \in link.open
               /\ \A p \in Pipes : HasBit(bitmaps'.closed, p) => p \notin link.open
    <3>1. CASE r.evt = "pipe_status"
      <4>1. r = PipeStatus(link.open)
        BY <1>3, <2>2, <3>1 DEF ViewInv, PipesInv, OfPipes
      <4>2. bitmaps' = BothOf(r.evt, packet)
        BY <1>4, <3>1 DEF bitmaps_after
      <4>3. bitmaps'.open = r.fields["pipes_open_bitmap"] /\ bitmaps'.closed = r.fields["pipes_closed_bitmap"]
        BY <3>1, <4>2, PipesRead DEF packet
      <4>4. bitmaps'.open = Bitmap(link.open) /\ bitmaps'.closed = Bitmap(Pipes \ link.open)
        BY <4>1, <4>3 DEF PipeStatus, Report
      <4>5. \A p \in Pipes : /\ HasBit(bitmaps'.open, p) <=> p \in link.open
                             /\ HasBit(bitmaps'.closed, p) <=> p \in Pipes \ link.open
        BY <4>4, BitmapBits, PipesAreBits
      <4> QED
        BY <4>5
    <3>2. CASE r.evt = "disconnected"
      <4>1. link.open = {}
        BY <1>3, <2>2, <3>2 DEF ViewInv, PipesInv, OfPipes
      <4>2. bitmaps' = BothEmpty
        BY <1>4, <3>2 DEF bitmaps_after
      <4>3. \A p \in Pipes : ~ HasBit(bitmaps'.open, p) /\ ~ HasBit(bitmaps'.closed, p)
        BY <4>2, PipesAreBits, NoPipesBits DEF BothEmpty
      <4> QED
        BY <4>1, <4>3
    <3>3. CASE r.evt \notin OfPipes
      <4>1. bitmaps' = bitmaps /\ (disconnecting' <=> disconnecting)
        BY <1>4, <3>3 DEF bitmaps_after, OfPipes
      <4>2. NoneOf(events, OfPipes)
        BY <1>3, <2>2, <3>3
      <4> QED
        BY <4>1, <4>2 DEF ViewInv, PipesInv, lib_aci_is_pipe_available, lib_aci_is_pipe_closed
    <3> QED
      BY <3>1, <3>2, <3>3 DEF OfPipes
  <2> QED
    BY <1>1, <2>1, <2>2 DEF PipesInv, lib_aci_is_pipe_available, lib_aci_is_pipe_closed
<1> QED
  BY <1>2, <1>5, <1>6, <1>7, <1>8 DEF ViewInv

LEMMA UnchangedView ==
    ViewInv /\ UNCHANGED <<events, status, bitmaps, timing, link, disconnecting>> => ViewInv'
  BY DEF ViewInv, EventsInv, LinkInv, StatusInv, TimingInv, PipesInv,
         lib_aci_is_pipe_available, lib_aci_is_pipe_closed

LEMMA ViewStep == ViewInv /\ [Next]_vars => ViewInv'
<1> SUFFICES ASSUME ViewInv, [Next]_vars PROVE ViewInv'
  OBVIOUS
<1>1. CASE Send
  BY <1>1, UnchangedView DEF Send, library
<1>2. CASE Connect
  BY <1>2, UnchangedView DEF Connect, library
<1>3. CASE Disconnect
  BY <1>3, DisconnectView
<1>4. CASE EventGet
  BY <1>4, EventGetView
<1>5. ASSUME NEW pipe \in {1, 9}, OpenAdvPipe(pipe) PROVE ViewInv'
  BY <1>5, UnchangedView DEF OpenAdvPipe
<1>6. ASSUME NEW pipes \in {{}, {8}}, OpenAdvPipes(pipes) PROVE ViewInv'
  BY <1>6, UnchangedView DEF OpenAdvPipes
<1>7. CASE TakeCommand
  <2>1. UNCHANGED <<status, bitmaps, timing, disconnecting>>
    BY <1>7 DEF TakeCommand, library
  <2>2. CASE link' = NoLink /\ Reported(Disconnected)
    BY <2>1, <2>2, LinkEnds
  <2>3. CASE UNCHANGED <<link, events>>
    BY <2>1, <2>3, UnchangedView
  <2> QED
    BY <1>7, <2>2, <2>3 DEF TakeCommand
<1>8. CASE PeerConnects
  <2>1. UNCHANGED <<status, bitmaps, timing, disconnecting>> /\ ~ link.up
    BY <1>8 DEF PeerConnects, library
  <2>2. PICK interval \in Intervals :
            /\ link' = [up |-> TRUE, open |-> {}, interval |-> interval]
            /\ Reported(Connected(interval))
    BY <1>8 DEF PeerConnects
  <2> QED
    BY <2>1, <2>2, LinkBegins
<1>9. CASE PipesChange
  BY <1>9, PipesChangeView
<1>10. CASE TimingChanges
  BY <1>10, TimingChangesView
<1>11. CASE LinkIsLost
  <2>1. UNCHANGED <<status, bitmaps, timing, disconnecting>> /\ link' = NoLink /\ Reported(Disconnected)
    BY <1>11 DEF LinkIsLost, library
  <2> QED
    BY <2>1, LinkEnds
<1>12. CASE OtherEvent
  BY <1>12, OtherEventView
<1>13. CASE UNCHANGED vars
  BY <1>13, UnchangedView DEF vars, library
<1> QED
  BY <1>1, <1>2, <1>3, <1>4, <1>5, <1>6, <1>7, <1>8, <1>9, <1>10, <1>11, <1>12, <1>13 DEF Next

LEMMA ViewInvariance == Spec => []ViewInv
  BY ViewInit, ViewStep, PTL DEF Spec

(* Once the events have been read, the program's view of the connection is *)
(* the chip's: whether there is a link, its interval, and its open pipes,  *)
(* whatever lib_aci_event_get and lib_aci_disconnect did in between.       *)
THEOREM ViewIsTheChips == Spec => []ViewCatchesUp
<1>1. ViewInv => ViewCatchesUp
  <2> SUFFICES ASSUME ViewInv, events = <<>> PROVE
            /\ (status = "CONNECTED") = link.up
            /\ ~ disconnecting =>
                \A p \in Pipes : lib_aci_is_pipe_available(p) <=> p \in link.open
            /\ \A p \in Pipes : lib_aci_is_pipe_closed(p) => p \notin link.open
            /\ link.up => timing.conn_rf_interval = Word(link.interval)
    BY DEF ViewCatchesUp
  <2>1. \A kind : NoneOf(events, kind)
    BY DEF NoneOf
  <2>2. link.up \in BOOLEAN /\ (status = "CONNECTED" <=> link.up)
    BY <2>1 DEF ViewInv, LinkInv, StatusInv
  <2> QED
    BY <2>1, <2>2 DEF ViewInv, TimingInv, PipesInv
<1> QED
  BY <1>1, ViewInvariance, PTL

-----------------------------------------------------------------------------
(* The decoders.                                                           *)

(* What the decoders must know of a field that is not the size which its   *)
(* offsets imply: where data begins, and how long the other arrays are.    *)
SizedField(f, size, start, scalar) ==
    /\ f = "aci_data" => start = 3
    /\ f = "echo_data" => start = 2
    /\ f = "file_name" => start = 4
    /\ f = "dynamic_data" => start = 5
    /\ f \in {"dev_addr", "bd_addr_own", "passkey"} => size = 6
    /\ f \in {"pipes_open_bitmap", "pipes_closed_bitmap"} => size = 8
    /\ f \notin {"aci_data", "echo_data", "file_name", "dynamic_data", "dev_addr",
                 "bd_addr_own", "passkey", "pipes_open_bitmap", "pipes_closed_bitmap"} =>
            scalar = size

Sized(struct, at, offsets) ==
    \A i \in 1..Len(struct) :
        SizedField(struct[i][1], struct[i][2], at[i], Len(offsets[struct[i][1]]))

LEMMA EventsSized ==
    ASSUME NEW evt \in DOMAIN aci_evt_params
    PROVE  Sized(aci_evt_params[evt], EvtOffsets[evt], OFFSET_ACI_EVT_PARAMS[evt])
<1> USE DEF aci_evt_params, OFFSET_ACI_EVT_PARAMS, EvtOffsets, Sized, SizedField, PipeNumber, PIPE_NUMBER,
    ConnectionTiming, aci_rx_data_t, BTLE_DEVICE_ADDRESS_SIZE
<1>1. CASE evt = "device_started"
  BY <1>1
<1>2. CASE evt = "echo"
  BY <1>2
<1>3. CASE evt = "hw_error"
  <2> DEFINE struct == aci_evt_params[evt]
             at == EvtOffsets[evt]
             offsets == OFFSET_ACI_EVT_PARAMS[evt]
  <2>1. /\ Len(struct) = 2
        /\ struct[1][1] = "line_num" /\ struct[1][2] = 2
        /\ struct[2][1] = "file_name" /\ struct[2][2] = 20
    BY <1>3
  <2>2. /\ SizedField("line_num", 2, at[1], Len(offsets["line_num"]))
        /\ SizedField("file_name", 20, at[2], Len(offsets["file_name"]))
    BY <1>3
  <2> HIDE DEF struct, at, offsets, Sized, SizedField
  <2>3. \A i \in 1..Len(struct) : i \in {1, 2}
    BY <2>1
  <2>4. \A i \in 1..Len(struct) :
            SizedField(struct[i][1], struct[i][2], at[i], Len(offsets[struct[i][1]]))
    BY <2>1, <2>2, <2>3
  <2> QED
    BY <2>4, Zenon DEF Sized, struct, at, offsets
<1>4. CASE evt = "cmd_rsp"
  BY <1>4
<1>5. CASE evt = "connected"
  <2> DEFINE struct == aci_evt_params[evt]
             at == EvtOffsets[evt]
             offsets == OFFSET_ACI_EVT_PARAMS[evt]
  <2>1. /\ Len(struct) = 6
        /\ struct[1][1] = "dev_addr_type" /\ struct[1][2] = 1
        /\ struct[2][1] = "dev_addr" /\ struct[2][2] = 6
        /\ struct[3][1] = "conn_rf_interval" /\ struct[3][2] = 2
        /\ struct[4][1] = "conn_slave_rf_latency" /\ struct[4][2] = 2
        /\ struct[5][1] = "conn_rf_timeout" /\ struct[5][2] = 2
        /\ struct[6][1] = "master_clock_accuracy" /\ struct[6][2] = 1
    BY <1>5
  <2>2. /\ SizedField("dev_addr_type", 1, at[1], Len(offsets["dev_addr_type"]))
        /\ SizedField("dev_addr", 6, at[2], Len(offsets["dev_addr"]))
        /\ SizedField("conn_rf_interval", 2, at[3], Len(offsets["conn_rf_interval"]))
        /\ SizedField("conn_slave_rf_latency", 2, at[4], Len(offsets["conn_slave_rf_latency"]))
        /\ SizedField("conn_rf_timeout", 2, at[5], Len(offsets["conn_rf_timeout"]))
        /\ SizedField("master_clock_accuracy", 1, at[6], Len(offsets["master_clock_accuracy"]))
    BY <1>5
  <2> HIDE DEF struct, at, offsets, Sized, SizedField
  <2>3. \A i \in 1..Len(struct) : i \in {1, 2, 3, 4, 5, 6}
    BY <2>1
  <2>4. \A i \in 1..Len(struct) :
            SizedField(struct[i][1], struct[i][2], at[i], Len(offsets[struct[i][1]]))
    BY <2>1, <2>2, <2>3
  <2> QED
    BY <2>4, Zenon DEF Sized, struct, at, offsets
<1>6. CASE evt = "disconnected"
  BY <1>6
<1>7. CASE evt = "bond_status"
  BY <1>7
<1>8. CASE evt = "pipe_status"
  BY <1>8
<1>9. CASE evt = "timing"
  <2> DEFINE struct == aci_evt_params[evt]
             at == EvtOffsets[evt]
             offsets == OFFSET_ACI_EVT_PARAMS[evt]
  <2>1. /\ Len(struct) = 3
        /\ struct[1][1] = "conn_rf_interval" /\ struct[1][2] = 2
        /\ struct[2][1] = "conn_slave_rf_latency" /\ struct[2][2] = 2
        /\ struct[3][1] = "conn_rf_timeout" /\ struct[3][2] = 2
    BY <1>9
  <2>2. /\ SizedField("conn_rf_interval", 2, at[1], Len(offsets["conn_rf_interval"]))
        /\ SizedField("conn_slave_rf_latency", 2, at[2], Len(offsets["conn_slave_rf_latency"]))
        /\ SizedField("conn_rf_timeout", 2, at[3], Len(offsets["conn_rf_timeout"]))
    BY <1>9
  <2> HIDE DEF struct, at, offsets, Sized, SizedField
  <2>3. \A i \in 1..Len(struct) : i \in {1, 2, 3}
    BY <2>1
  <2>4. \A i \in 1..Len(struct) :
            SizedField(struct[i][1], struct[i][2], at[i], Len(offsets[struct[i][1]]))
    BY <2>1, <2>2, <2>3
  <2> QED
    BY <2>4, Zenon DEF Sized, struct, at, offsets
<1>10. CASE evt = "data_credit"
  BY <1>10
<1>11. CASE evt = "data_ack"
  BY <1>11
<1>12. CASE evt = "data_received"
  BY <1>12
<1>13. CASE evt = "pipe_error"
  BY <1>13
<1>14. CASE evt = "display_passkey"
  BY <1>14
<1>15. CASE evt = "key_request"
  BY <1>15, SMTT(40)
<1> QED
  BY <1>1, <1>2, <1>3, <1>4, <1>5, <1>6, <1>7, <1>8, <1>9, <1>10, <1>11, <1>12, <1>13, <1>14, <1>15, ZenonT(60)

LEMMA ResponsesSized ==
    ASSUME NEW cmd \in DOMAIN aci_evt_params_cmd_rsp_t
    PROVE  Sized(RspStructs[cmd], RspOffsets[cmd], RspDecoded(cmd))
<1> USE DEF aci_evt_params_cmd_rsp_t, RspStructs, RspOffsets, RspDecoded, Over,
    OFFSET_ACI_EVT_PARAMS, OFFSET_ACI_EVT_CMD_RSP, Sized, SizedField
<1>1. CASE cmd = "dtm_cmd"
  BY <1>1
<1>2. CASE cmd = "read_dynamic_data"
  BY <1>2
<1>3. CASE cmd = "get_device_version"
  <2> DEFINE struct == RspStructs[cmd]
             at == RspOffsets[cmd]
             offsets == RspDecoded(cmd)
  <2>1. /\ Len(struct) = 7
        /\ struct[1][1] = "cmd_opcode" /\ struct[1][2] = 1
        /\ struct[2][1] = "cmd_status" /\ struct[2][2] = 1
        /\ struct[3][1] = "configuration_id" /\ struct[3][2] = 2
        /\ struct[4][1] = "aci_version" /\ struct[4][2] = 1
        /\ struct[5][1] = "setup_format" /\ struct[5][2] = 1
        /\ struct[6][1] = "setup_id" /\ struct[6][2] = 4
        /\ struct[7][1] = "setup_status" /\ struct[7][2] = 1
    BY <1>3
  <2>2. /\ SizedField("cmd_opcode", 1, at[1], Len(offsets["cmd_opcode"]))
        /\ SizedField("cmd_status", 1, at[2], Len(offsets["cmd_status"]))
        /\ SizedField("configuration_id", 2, at[3], Len(offsets["configuration_id"]))
        /\ SizedField("aci_version", 1, at[4], Len(offsets["aci_version"]))
        /\ SizedField("setup_format", 1, at[5], Len(offsets["setup_format"]))
        /\ SizedField("setup_id", 4, at[6], Len(offsets["setup_id"]))
        /\ SizedField("setup_status", 1, at[7], Len(offsets["setup_status"]))
    BY <1>3
  <2> HIDE DEF struct, at, offsets, Sized, SizedField
  <2>3. \A i \in 1..Len(struct) : i \in {1, 2, 3, 4, 5, 6, 7}
    BY <2>1
  <2>4. \A i \in 1..Len(struct) :
            SizedField(struct[i][1], struct[i][2], at[i], Len(offsets[struct[i][1]]))
    BY <2>1, <2>2, <2>3, ZenonT(40)
  <2> QED
    BY <2>4, Zenon DEF Sized, struct, at, offsets
<1>4. CASE cmd = "get_device_address"
  BY <1>4
<1>5. CASE cmd = "get_battery_level"
  <2> DEFINE struct == RspStructs[cmd]
             at == RspOffsets[cmd]
             offsets == RspDecoded(cmd)
  <2>1. /\ Len(struct) = 3
        /\ struct[1][1] = "cmd_opcode" /\ struct[1][2] = 1
        /\ struct[2][1] = "cmd_status" /\ struct[2][2] = 1
        /\ struct[3][1] = "battery_level" /\ struct[3][2] = 2
    BY <1>5
  <2>2. /\ SizedField("cmd_opcode", 1, at[1], Len(offsets["cmd_opcode"]))
        /\ SizedField("cmd_status", 1, at[2], Len(offsets["cmd_status"]))
        /\ SizedField("battery_level", 2, at[3], Len(offsets["battery_level"]))
    BY <1>5
  <2> HIDE DEF struct, at, offsets, Sized, SizedField
  <2>3. \A i \in 1..Len(struct) : i \in {1, 2, 3}
    BY <2>1
  <2>4. \A i \in 1..Len(struct) :
            SizedField(struct[i][1], struct[i][2], at[i], Len(offsets[struct[i][1]]))
    BY <2>1, <2>2, <2>3
  <2> QED
    BY <2>4, Zenon DEF Sized, struct, at, offsets
<1>6. CASE cmd = "get_temperature"
  <2> DEFINE struct == RspStructs[cmd]
             at == RspOffsets[cmd]
             offsets == RspDecoded(cmd)
  <2>1. /\ Len(struct) = 3
        /\ struct[1][1] = "cmd_opcode" /\ struct[1][2] = 1
        /\ struct[2][1] = "cmd_status" /\ struct[2][2] = 1
        /\ struct[3][1] = "temperature_value" /\ struct[3][2] = 2
    BY <1>6
  <2>2. /\ SizedField("cmd_opcode", 1, at[1], Len(offsets["cmd_opcode"]))
        /\ SizedField("cmd_status", 1, at[2], Len(offsets["cmd_status"]))
        /\ SizedField("temperature_value", 2, at[3], Len(offsets["temperature_value"]))
    BY <1>6
  <2> HIDE DEF struct, at, offsets, Sized, SizedField
  <2>3. \A i \in 1..Len(struct) : i \in {1, 2, 3}
    BY <2>1
  <2>4. \A i \in 1..Len(struct) :
            SizedField(struct[i][1], struct[i][2], at[i], Len(offsets[struct[i][1]]))
    BY <2>1, <2>2, <2>3
  <2> QED
    BY <2>4, Zenon DEF Sized, struct, at, offsets
<1> QED
  BY <1>1, <1>2, <1>3, <1>4, <1>5, <1>6, Zenon

(* How many bytes the decoders take of a report's field: those there are,  *)
(* and one more of dynamic data.                                           *)
LEMMA ReportSizes ==
    ASSUME NEW r, IsReport(r), NEW i \in 1..Len(StructOf(r))
    PROVE  LET f == StructOf(r)[i][1]
               size == DecodedSize(f, DecodedOf(r)[f], PacketOf(r)[0])
           IN  /\ f = "dynamic_data" => size = Len(r.fields[f]) + 1
               /\ f # "dynamic_data" => size = Len(r.fields[f])
<1> DEFINE struct == StructOf(r)
           at == LayoutOf(r)
           offsets == DecodedOf(r)
           f == struct[i][1]
           m == Len(r.fields[f])
           n == PacketOf(r)[0]
           size == DecodedSize(f, offsets[f], n)
<1>1. LaidOut(struct, at, offsets, HAL_ACI_MAX_LENGTH)
  BY ReportStructs DEF IsReport
<1>2. Sized(struct, at, offsets)
  <2>1. CASE HasRsp(r)
    <3>1. struct = RspStructs[r.cmd]
      BY <2>1, ResponseStructs DEF HasRsp, StructOf
    <3> QED
      BY <2>1, <3>1, ResponsesSized DEF HasRsp, LayoutOf, DecodedOf
  <2>2. CASE ~ HasRsp(r)
    <3>1. struct = aci_evt_params[r.evt] /\ r.evt \in DOMAIN aci_evt_params
      BY <2>2, ReportStructs, EventOpcodes DEF IsReport
    <3> QED
      BY <2>2, <3>1, EventsSized DEF LayoutOf, DecodedOf
  <2> QED
    BY <2>1, <2>2
<1>3. IsValue(struct[i], r.fields[f]) /\ m \in Nat
  <2>1. IsValue(struct[i], r.fields[f])
    BY DEF IsReport
  <2> QED
    BY <2>1, LenProperties DEF IsValue
<1>4. CASE f \in ArrayFields
  <2>1. i = Len(struct)
    BY <1>1, <1>4 DEF LaidOut
  <2>2. n = 1 + SizeOf(struct, r.fields)
    BY ReportPacket
  <2>3. SizeOf(struct, r.fields) = at[i] - OFFSET_PARAMS + m
    <3>1. HAL_ACI_MAX_LENGTH \in Nat
      BY DEF HAL_ACI_MAX_LENGTH
    <3>2. Offsets(struct)[i] = at[i]
      BY <1>1, <3>1, ValuesFit DEF IsReport
    <3> QED
      BY <2>1, <3>2, Zenon DEF SizeOf
  <2>4. /\ f = "aci_data" => at[i] = 3
        /\ f = "echo_data" => at[i] = 2
        /\ f = "file_name" => at[i] = 4
        /\ f = "dynamic_data" => at[i] = 5
    BY <1>2 DEF Sized, SizedField
  <2> HIDE DEF struct, at, offsets, f, m, n
  <2>5. /\ f = "aci_data" => size = n - 2
        /\ f = "echo_data" => size = n - 1
        /\ f = "file_name" => size = n - 3
        /\ f = "dynamic_data" => size = n - 3
    BY DEF DecodedSize
  <2> HIDE DEF size
  <2>6. /\ f = "dynamic_data" => size = m + 1
        /\ f # "dynamic_data" => size = m
    BY <1>3, <1>4, <2>2, <2>3, <2>4, <2>5 DEF ArrayFields, OFFSET_PARAMS
  <2> QED
    BY <2>6 DEF struct, offsets, f, m, n, size
<1>5. CASE f \notin ArrayFields
  <2>1. m = struct[i][2]
    BY <1>3, <1>5 DEF IsValue
  <2>2. /\ f \in {"dev_addr", "bd_addr_own", "passkey"} => struct[i][2] = 6
        /\ f \in {"pipes_open_bitmap", "pipes_closed_bitmap"} => struct[i][2] = 8
        /\ f \notin {"aci_data", "echo_data", "file_name", "dynamic_data", "dev_addr",
                     "bd_addr_own", "passkey", "pipes_open_bitmap", "pipes_closed_bitmap"} =>
                Len(offsets[f]) = struct[i][2]
    BY <1>2 DEF Sized, SizedField
  <2> HIDE DEF struct, at, offsets, f, m, n
  <2>3. size = m
    BY <1>5, <2>1, <2>2 DEF DecodedSize, ArrayFields, BTLE_DEVICE_ADDRESS_SIZE
  <2>4. f # "dynamic_data"
    BY <1>5 DEF ArrayFields
  <2> QED
    BY <2>3, <2>4 DEF struct, offsets, f, m, n, size
<1> QED
  BY <1>4, <1>5

(* A field is decoded as sent; of dynamic data, a byte more is taken.      *)
ReadAs(f, decoded, sent) ==
    IF f = "dynamic_data" THEN IsStrictPrefix(sent, decoded) ELSE decoded = sent

LEMMA OneByteMore ==
    ASSUME NEW v \in Seq(Bytes), NEW g, NEW d, d = [k \in 1..Len(v) + 1 |-> g[k]],
           \A k \in 1..Len(v) : g[k] = v[k]
    PROVE  IsStrictPrefix(v, d)
<1> DEFINE n == Len(v)
<1>1. n \in Nat
  BY LenProperties
<1>2. Len(d) = n + 1
  BY <1>1
<1>3. SubSeq(v, 1, n) = [k \in 1..n |-> v[k]]
  BY <1>1
<1>4. SubSeq(d, 1, n) = [k \in 1..n |-> d[k]]
  BY <1>1
<1>5. \A k \in 1..n : d[k] = v[k]
  BY <1>1
<1>6. SubSeq(v, 1, n) = SubSeq(d, 1, n)
  BY <1>3, <1>4, <1>5
<1>7. v # d
  BY <1>1, <1>2
<1>8. n <= Len(d)
  BY <1>1, <1>2
<1> QED
  BY <1>6, <1>7, <1>8 DEF IsStrictPrefix, IsPrefix

(* By the offsets of its event, what is in a packet and was received.      *)
LEMMA DecodedFields ==
    ASSUME NEW r, IsReport(r), NEW buffer,
           \A j \in 0..PacketOf(r)[0] : buffer[j] = PacketOf(r)[j]
    PROVE  LET decoded == DecodeFields(DecodedOf(r), buffer)
           IN  /\ DOMAIN decoded = DOMAIN r.fields
               /\ \A f \in DOMAIN r.fields : ReadAs(f, decoded[f], r.fields[f])
<1> DEFINE struct == StructOf(r)
           at == LayoutOf(r)
           offsets == DecodedOf(r)
           packet == PacketOf(r)
           decoded == DecodeFields(offsets, buffer)
<1>1. LaidOut(struct, at, offsets, HAL_ACI_MAX_LENGTH)
  BY ReportStructs DEF IsReport
<1>2. DOMAIN offsets = DOMAIN r.fields
  BY <1>1 DEF LaidOut, IsReport
<1>3. DOMAIN decoded = DOMAIN r.fields
  BY <1>2 DEF DecodeFields
<1>4. ASSUME NEW i \in 1..Len(struct)
      PROVE  ReadAs(struct[i][1], decoded[struct[i][1]], r.fields[struct[i][1]])
  <2> DEFINE f == struct[i][1]
             v == r.fields[f]
             n == Len(v)
             size == DecodedSize(f, offsets[f], packet[0])
             d == decoded[f]
  <2>1. f \in DOMAIN r.fields /\ IsValue(struct[i], v)
    BY DEF IsReport
  <2>2. v \in Seq(Bytes) /\ n \in Nat
    BY <2>1, LenProperties DEF IsValue
  <2>3. n <= MaxOf(struct[i]) /\ MaxOf(struct[i]) \in Nat
    <3>1. MaxOf(struct[i]) \in Nat /\ struct[i][2] <= MaxOf(struct[i])
      BY <1>1 DEF LaidOut
    <3>2. CASE f \in ArrayFields
      BY <2>1, <3>1, <3>2 DEF IsValue
    <3>3. CASE f \notin ArrayFields
      BY <2>1, <3>1, <3>3 DEF IsValue
    <3> QED
      BY <3>1, <3>2, <3>3
  <2>4. \A k \in 1..n : Place(offsets[f], k) = at[i] + k - 1
    <3>1. \A k \in 1..MaxOf(struct[i]) : Place(offsets[f], k) = at[i] + k - 1
      BY <1>1 DEF LaidOut
    <3>2. \A k \in 1..n : k \in 1..MaxOf(struct[i])
      BY <2>2, <2>3
    <3> QED
      BY <3>1, <3>2
  <2>5. Offsets(struct)[i] = at[i]
    <3>1. HAL_ACI_MAX_LENGTH \in Nat
      BY DEF HAL_ACI_MAX_LENGTH
    <3> QED
      BY <1>1, <3>1, ValuesFit, ZenonT(60) DEF IsReport
  <2>6. packet[0] \in Nat /\ buffer[0] = packet[0]
    <3>1. packet[0] \in Nat
      <4> DEFINE total == SizeOf(struct, r.fields)
      <4>1. total \in 0..HAL_ACI_MAX_LENGTH - 1 /\ packet[0] = 1 + total
        BY ReportPacket
      <4> HIDE DEF total, packet
      <4>2. total \in Nat
        BY <4>1 DEF HAL_ACI_MAX_LENGTH
      <4> QED
        BY <4>1, <4>2
    <3>2. 0 \in 0..packet[0]
      BY <3>1
    <3> QED
      BY <3>1, <3>2
  <2>7. ASSUME NEW k \in 1..n PROVE buffer[Place(offsets[f], k)] = v[k]
    <3> DEFINE j == Offsets(struct)[i] + k - 1
    <3>1. j \in 2..packet[0] /\ packet[j] = v[k]
      BY ReportPacket
    <3>2. Place(offsets[f], k) = j
      BY <2>4, <2>5
    <3> HIDE DEF j
    <3>3. j \in 0..packet[0]
      BY <2>6, <3>1
    <3> QED
      BY <3>1, <3>2, <3>3
  <2>8. d = [k \in 1..size |-> buffer[Place(offsets[f], k)]]
    <3>1. f \in DOMAIN offsets
      BY <1>2, <2>1
    <3> QED
      BY <2>6, <3>1 DEF DecodeFields
  <2>9. /\ f = "dynamic_data" => size = n + 1
        /\ f # "dynamic_data" => size = n
    BY ReportSizes
  <2> DEFINE g == [k \in 1..size |-> buffer[Place(offsets[f], k)]]
  <2>10. size \in Nat /\ size >= n
    <3> HIDE DEF size, n, f
    <3> QED
      BY <2>2, <2>9
  <2>11. \A k \in 1..n : g[k] = v[k]
    <3>1. \A k \in 1..n : k \in 1..size
      <4> HIDE DEF size, n
      <4> QED
        BY <2>2, <2>10
    <3> QED
      BY <2>7, <3>1
  <2>12. g = [k \in 1..size |-> g[k]]
    OBVIOUS
  <2> HIDE DEF f, v, n, size, d, g
  <2>13. CASE f = "dynamic_data"
    <3>1. d = [k \in 1..Len(v) + 1 |-> g[k]] /\ \A k \in 1..Len(v) : g[k] = v[k]
      BY <2>8, <2>9, <2>11, <2>12, <2>13 DEF g, n
    <3>2. IsStrictPrefix(v, d)
      BY <2>2, <3>1, OneByteMore
    <3> QED
      BY <2>13, <3>2 DEF ReadAs, f, v, d
  <2>14. CASE f # "dynamic_data"
    <3>1. d = [k \in 1..n |-> v[k]]
      BY <2>8, <2>9, <2>11, <2>12, <2>14 DEF g
    <3>2. v = [k \in 1..n |-> v[k]]
      BY <2>2, LenProperties DEF n
    <3> QED
      BY <2>14, <3>1, <3>2 DEF ReadAs, f, v, d
  <2> QED
    BY <2>13, <2>14
<1>5. \A f \in DOMAIN r.fields : \E i \in 1..Len(struct) : f = struct[i][1]
  BY DEF IsReport
<1> HIDE DEF struct, decoded, offsets
<1>6. \A f \in DOMAIN r.fields : ReadAs(f, decoded[f], r.fields[f])
  BY <1>4, <1>5
<1> QED
  BY <1>3, <1>6 DEF decoded, offsets

LEMMA CommandOpcodes ==
    \A cmd \in DOMAIN aci_cmd_opcode_t :
        /\ aci_cmd_opcode_t[cmd] \in Bytes
        /\ Byte(aci_cmd_opcode_t[cmd]) = <<aci_cmd_opcode_t[cmd]>>
        /\ OpcodeName(aci_cmd_opcode_t, aci_cmd_opcode_t[cmd]) = cmd
<1>1. \A cmd \in DOMAIN aci_cmd_opcode_t : aci_cmd_opcode_t[cmd] \in Bytes
  BY DEF aci_cmd_opcode_t, Bytes
<1>2. \A c, d \in DOMAIN aci_cmd_opcode_t : aci_cmd_opcode_t[c] = aci_cmd_opcode_t[d] => c = d
  BY DEF aci_cmd_opcode_t
<1>3. ASSUME NEW cmd \in DOMAIN aci_cmd_opcode_t
      PROVE  OpcodeName(aci_cmd_opcode_t, aci_cmd_opcode_t[cmd]) = cmd
  <2> DEFINE codes == aci_cmd_opcode_t
             name == CHOOSE n \in DOMAIN codes : codes[n] = codes[cmd]
  <2> HIDE DEF codes
  <2>1. name \in DOMAIN codes /\ codes[name] = codes[cmd]
    BY <1>3 DEF codes
  <2>2. OpcodeName(aci_cmd_opcode_t, aci_cmd_opcode_t[cmd]) = name
    BY Zenon DEF OpcodeName, codes
  <2> HIDE DEF name
  <2> QED
    BY <1>2, <2>1, <2>2 DEF codes
<1>4. \A x \in Bytes : Byte(x) = <<x>>
  BY DEF Bytes, Byte
<1> QED
  BY <1>1, <1>3, <1>4

LEMMA OverDecoded ==
    ASSUME NEW a, NEW b, NEW buffer
    PROVE  DecodeFields(Over(a, b), buffer) = Over(DecodeFields(a, buffer), DecodeFields(b, buffer))
<1> DEFINE D(offsets, f) == [k \in 1..DecodedSize(f, offsets[f], buffer[0]) |->
                                buffer[Place(offsets[f], k)]]
           c == Over(a, b)
<1>1. \A offsets : DecodeFields(offsets, buffer) = [f \in DOMAIN offsets |-> D(offsets, f)]
  BY Zenon DEF DecodeFields
<1>2. /\ DOMAIN c = DOMAIN a \cup DOMAIN b
      /\ \A f \in DOMAIN c : c[f] = IF f \in DOMAIN a THEN a[f] ELSE b[f]
  BY DEF Over
<1>3. \A f \in DOMAIN c : D(c, f) = IF f \in DOMAIN a THEN D(a, f) ELSE D(b, f)
  <2> HIDE DEF c
  <2> QED
    BY <1>2
<1> HIDE DEF D, c
<1>4. DecodeFields(c, buffer) = [f \in DOMAIN a \cup DOMAIN b |->
                                    IF f \in DOMAIN a THEN D(a, f) ELSE D(b, f)]
  BY <1>1, <1>2, <1>3
<1>5. Over(DecodeFields(a, buffer), DecodeFields(b, buffer)) =
        [f \in DOMAIN a \cup DOMAIN b |-> IF f \in DOMAIN a THEN D(a, f) ELSE D(b, f)]
  BY <1>1 DEF Over
<1> QED
  BY <1>4, <1>5 DEF c

(* The decoders choose the offsets of the event that a packet is of, and   *)
(* of the command that a response is to.                                   *)
Decoded(evt, buffer) ==
    IF evt = "echo" THEN acil_decode_evt_echo(buffer) ELSE acil_decode_evt(buffer)

LEMMA OffsetsChosen ==
    ASSUME NEW r, IsReport(r), NEW buffer,
           \A j \in 0..PacketOf(r)[0] : buffer[j] = PacketOf(r)[j]
    PROVE  Decoded(r.evt, buffer) = DecodeFields(DecodedOf(r), buffer)
<1> DEFINE packet == PacketOf(r)
           total == SizeOf(StructOf(r), r.fields)
           decoded == DecodeFields(DecodedOf(r), buffer)
<1>1. OpcodeName(aci_evt_opcode_t, buffer[1]) = r.evt
  <2>1. total \in 0..HAL_ACI_MAX_LENGTH - 1 /\ packet[0] = 1 + total
    BY ReportPacket
  <2>2. 1 \in 0..packet[0]
    <3> HIDE DEF total, packet
    <3> QED
      BY <2>1 DEF HAL_ACI_MAX_LENGTH
  <2>3. OpcodeName(aci_evt_opcode_t, packet[1]) = r.evt
    BY ReportPacket
  <2> QED
    BY <2>2, <2>3
<1>2. CASE r.evt = "echo"
  <2>1. DecodedOf(r) = OFFSET_ACI_EVT_PARAMS["echo"]
    BY <1>2 DEF DecodedOf, HasRsp
  <2> QED
    BY <1>2, <2>1 DEF Decoded, acil_decode_evt_echo
<1>3. CASE r.evt # "echo" /\ r.evt # "cmd_rsp"
  <2>1. DecodedOf(r) = OFFSET_ACI_EVT_PARAMS[r.evt]
    BY <1>3 DEF DecodedOf, HasRsp
  <2> QED
    BY <1>1, <1>3, <2>1 DEF Decoded, acil_decode_evt
<1>4. CASE r.evt = "cmd_rsp"
  <2> DEFINE both == OFFSET_ACI_EVT_PARAMS["cmd_rsp"]
             common == DecodeFields(both, buffer)
  <2>1. Decoded(r.evt, buffer) = acil_decode_evt_command_response(buffer)
    BY <1>1, <1>4 DEF Decoded, acil_decode_evt
  <2>2. r.cmd \in DOMAIN aci_cmd_opcode_t /\ r.fields["cmd_opcode"] = Byte(aci_cmd_opcode_t[r.cmd])
    BY <1>4 DEF IsReport
  <2>3. HasRsp(r) <=> r.cmd \in DOMAIN OFFSET_ACI_EVT_CMD_RSP
    <3>1. DOMAIN OFFSET_ACI_EVT_CMD_RSP = DOMAIN aci_evt_params_cmd_rsp_t
      BY DEF OFFSET_ACI_EVT_CMD_RSP, aci_evt_params_cmd_rsp_t
    <3> QED
      BY <1>4, <3>1 DEF HasRsp
  <2>4. /\ "cmd_opcode" \in DOMAIN both
        /\ \A cmd \in DOMAIN OFFSET_ACI_EVT_CMD_RSP :
                "cmd_opcode" \notin DOMAIN OFFSET_ACI_EVT_CMD_RSP[cmd]
    BY DEF OFFSET_ACI_EVT_PARAMS, OFFSET_ACI_EVT_CMD_RSP
  <2> HIDE DEF both
  <2>5. "cmd_opcode" \in DOMAIN DecodedOf(r) /\ DecodedOf(r)["cmd_opcode"] = both["cmd_opcode"]
    <3>1. CASE HasRsp(r)
      <4>1. DecodedOf(r) = Over(OFFSET_ACI_EVT_CMD_RSP[r.cmd], both)
        BY <3>1 DEF DecodedOf, RspDecoded, both
      <4> QED
        BY <2>3, <2>4, <3>1, <4>1 DEF Over
    <3>2. CASE ~ HasRsp(r)
      <4>1. DecodedOf(r) = both
        BY <1>4, <3>2 DEF DecodedOf, both
      <4> QED
        BY <2>4, <4>1
    <3> QED
      BY <3>1, <3>2
  <2>6. common["cmd_opcode"] = decoded["cmd_opcode"]
    BY <2>4, <2>5 DEF DecodeFields
  <2>7. decoded["cmd_opcode"] = r.fields["cmd_opcode"]
    <3>1. DOMAIN decoded = DOMAIN r.fields
          /\ \A f \in DOMAIN r.fields : ReadAs(f, decoded[f], r.fields[f])
      BY DecodedFields
    <3>2. DOMAIN decoded = DOMAIN DecodedOf(r)
      BY DEF DecodeFields
    <3> HIDE DEF decoded
    <3> QED
      BY <2>5, <3>1, <3>2 DEF ReadAs
  <2>8. common["cmd_opcode"][1] = aci_cmd_opcode_t[r.cmd]
    <3>1. Byte(aci_cmd_opcode_t[r.cmd]) = <<aci_cmd_opcode_t[r.cmd]>>
      BY <2>2, CommandOpcodes
    <3> HIDE DEF common, decoded
    <3> QED
      BY <2>2, <2>6, <2>7, <3>1
  <2>9. OpcodeName(aci_cmd_opcode_t, common["cmd_opcode"][1]) = r.cmd
    <3> HIDE DEF common
    <3> QED
      BY <2>2, <2>8, CommandOpcodes
  <2>10. acil_decode_evt_command_response(buffer) =
            IF r.cmd \in DOMAIN OFFSET_ACI_EVT_CMD_RSP
                THEN Over(DecodeFields(OFFSET_ACI_EVT_CMD_RSP[r.cmd], buffer), common)
                ELSE common
    BY <2>9 DEF acil_decode_evt_command_response, both
  <2> HIDE DEF common, decoded
  <2>11. CASE HasRsp(r)
    <3>1. DecodedOf(r) = Over(OFFSET_ACI_EVT_CMD_RSP[r.cmd], both)
      BY <2>11 DEF DecodedOf, RspDecoded, both
    <3>2. decoded = Over(DecodeFields(OFFSET_ACI_EVT_CMD_RSP[r.cmd], buffer), common)
      BY <3>1, OverDecoded DEF decoded, common
    <3> QED
      BY <2>1, <2>3, <2>10, <2>11, <3>2 DEF decoded
  <2>12. CASE ~ HasRsp(r)
    <3>1. DecodedOf(r) = both
      BY <1>4, <2>12 DEF DecodedOf, both
    <3> QED
      BY <2>1, <2>3, <2>10, <2>12, <3>1 DEF common
  <2> QED
    BY <2>11, <2>12
<1> QED
  BY <1>2, <1>3, <1>4

(* Every event that the chip can send, with any bytes in its fields, is    *)
(* decoded as it was sent by acilib.cpp, from a buffer that holds as much  *)
(* of the packet as its length byte says, and anything behind that.        *)
THEOREM EveryReportIsReadAsSent ==
    ASSUME NEW r, IsReport(r), NEW buffer,
           \A j \in 0..PacketOf(r)[0] : buffer[j] = PacketOf(r)[j]
    PROVE  /\ DOMAIN Decoded(r.evt, buffer) = DOMAIN r.fields
           /\ \A f \in DOMAIN r.fields :
                IF f = "dynamic_data" THEN IsStrictPrefix(r.fields[f], Decoded(r.evt, buffer)[f])
                                      ELSE Decoded(r.evt, buffer)[f] = r.fields[f]
<1> DEFINE decoded == DecodeFields(DecodedOf(r), buffer)
<1>1. Decoded(r.evt, buffer) = decoded
  BY OffsetsChosen, Zenon
<1>2. DOMAIN decoded = DOMAIN r.fields
      /\ \A f \in DOMAIN r.fields : ReadAs(f, decoded[f], r.fields[f])
  BY DecodedFields
<1> HIDE DEF decoded
<1> QED
  BY <1>1, <1>2 DEF ReadAs

(* The transfer brings all of an event, however long the command is.       *)
LEMMA EventIsReceived ==
    ASSUME NEW r, IsReport(r), NEW other \in OtherPackets
    PROVE  \A j \in 0..PacketOf(r)[0] :
                ReceivedOf(other, PacketOf(r))[j] = PacketOf(r)[j]
<1> DEFINE packet == PacketOf(r)
           total == SizeOf(StructOf(r), r.fields)
           n == max_bytes(other, packet)
<1>1. total \in 0..HAL_ACI_MAX_LENGTH - 1 /\ packet[0] = 1 + total
  BY ReportPacket
<1> HIDE DEF packet, total
<1>2. packet[0] \in 1..31
  BY <1>1 DEF HAL_ACI_MAX_LENGTH
<1>3. other[0] \in {0, 1, 31}
  BY DEF OtherPackets, HAL_ACI_MAX_LENGTH
<1>4. n \in Nat /\ packet[0] <= n
  BY <1>2, <1>3 DEF max_bytes, Shorter, Longer, HAL_ACI_MAX_LENGTH
<1> HIDE DEF n
<1>5. ASSUME NEW j \in 0..packet[0] PROVE ReceivedOf(other, packet)[j] = packet[j]
  <2>1. j \in 0..31 /\ j <= n
    BY <1>2, <1>4
  <2> QED
    BY <2>1 DEF ReceivedOf, HAL_ACI_MAX_LENGTH, n
<1> QED
  BY <1>5 DEF packet

(* What bluetooth.cpp and lib_aci_event_get read of an event is what the   *)
(* chip reported, whatever command the transfer crosses with.              *)
THEOREM EventsAreReadAsSent == Spec => []EventReadAsSent
<1>1. ViewInv => EventReadAsSent
  <2> SUFFICES ASSUME ViewInv, NEW i \in 1..Len(events), NEW other \in OtherPackets
               PROVE  LET packet == ReceivedOf(other, events[i].packet)
                          decoded == Decoded(events[i].report.evt, packet)
                          sent == events[i].report.fields
                      IN  /\ DOMAIN decoded = DOMAIN sent
                          /\ \A f \in DOMAIN sent :
                                IF f = "dynamic_data" THEN IsStrictPrefix(sent[f], decoded[f])
                                                      ELSE decoded[f] = sent[f]
    BY Zenon DEF EventReadAsSent, Decoded
  <2>1. events[i] \in QueuedReports
    BY ElementOfSeq DEF ViewInv, EventsInv
  <2>2. PICK r \in Reports : events[i].packet = PacketOf(r) /\ events[i].report = r
    BY <2>1 DEF QueuedReports, Queued
  <2> DEFINE buffer == ReceivedOf(other, PacketOf(r))
  <2>3. IsReport(r) /\ \A j \in 0..PacketOf(r)[0] : buffer[j] = PacketOf(r)[j]
    BY EachReport, EventIsReceived
  <2> HIDE DEF buffer
  <2>4. /\ DOMAIN Decoded(r.evt, buffer) = DOMAIN r.fields
        /\ \A f \in DOMAIN r.fields :
              IF f = "dynamic_data" THEN IsStrictPrefix(r.fields[f], Decoded(r.evt, buffer)[f])
                                    ELSE Decoded(r.evt, buffer)[f] = r.fields[f]
    BY <2>3, EveryReportIsReadAsSent
  <2> QED
    BY <2>2, <2>4 DEF buffer
<1> QED
  BY <1>1, ViewInvariance, PTL

-----------------------------------------------------------------------------
(* Commands: their structs, and the offsets that the encoders write to.    *)

(* Every byte of the whole is one of the sequences.                        *)
LEMMA PlacesCover ==
    ASSUME NEW s, NEW S, s \in Seq(Seq(S)), NEW at, Places(s, at), Len(s) > 0
    PROVE  \A j \in 1..at[Len(s)] + Len(s[Len(s)]) :
                \E i \in 1..Len(s) : \E k \in 1..Len(s[i]) : j = at[i] + k
<1> DEFINE n == Len(s)
           len == [i \in 1..n |-> Len(s[i])]
           Reach(m) == \A j \in 1..at[m] + len[m] :
                            \E i \in 1..n : \E k \in 1..len[i] : j = at[i] + k
           T == {m \in 1..n : Reach(m)}
<1>1. n \in Nat /\ n > 0 /\ n \in 1..n /\ \A i \in 1..n : len[i] = Len(s[i]) /\ len[i] \in Nat
  BY LenProperties, ElementOfSeq
<1> HIDE DEF n, len
<1>2. /\ at[1] = 0 /\ \A i \in 1..n : at[i] \in Nat
      /\ \A i \in 1..n : i < n => at[i + 1] = at[i] + len[i]
  BY <1>1 DEF Places, n
<1>3. 1 \in T
  <2>1. 1 \in 1..n
    BY <1>1
  <2>2. ASSUME NEW j \in 1..at[1] + len[1] PROVE \E k \in 1..len[1] : j = at[1] + k
    <3>1. j \in 1..len[1] /\ j = at[1] + j
      BY <1>1, <1>2, <2>1
    <3> QED
      BY <3>1
  <2> QED
    BY <2>1, <2>2
<1>4. ASSUME NEW m \in T, m < n PROVE m + 1 \in T
  <2>1. m \in 1..n /\ m + 1 \in 1..n /\ Reach(m) /\ at[m + 1] = at[m] + len[m]
    BY <1>1, <1>2, <1>4
  <2>2. ASSUME NEW j \in 1..at[m + 1] + len[m + 1]
        PROVE  \E i \in 1..n : \E k \in 1..len[i] : j = at[i] + k
    <3>1. CASE j <= at[m + 1]
      <4>1. j \in 1..at[m] + len[m]
        BY <1>1, <1>2, <2>1, <3>1
      <4> QED
        BY <2>1, <4>1
    <3>2. CASE j > at[m + 1]
      <4> DEFINE a == at[m + 1]
                 b == len[m + 1]
      <4>1. a \in Nat /\ b \in Nat /\ j \in 1..a + b /\ j > a
        BY <1>1, <1>2, <2>1, <3>2
      <4> HIDE DEF a, b
      <4>2. j - a \in 1..b /\ j = a + (j - a)
        BY <4>1
      <4> QED
        BY <2>1, <4>2 DEF a, b
    <3> QED
      BY <1>2, <2>1, <3>1, <3>2
  <2> QED
    BY <2>1, <2>2
<1>5. T = 1..n
  <2>1. T \in SUBSET (1..n)
    OBVIOUS
  <2> HIDE DEF T
  <2> QED
    BY <1>1, <1>3, <1>4, <2>1, UpTo
<1>6. Reach(n)
  <2>1. n \in T
    BY <1>1, <1>5
  <2> QED
    BY <2>1
<1> HIDE DEF Reach
<1>7. \A j \in 1..at[n] + len[n] : \E i \in 1..n : \E k \in 1..len[i] : j = at[i] + k
  BY <1>6 DEF Reach
<1>8. ASSUME NEW j \in 1..at[n] + Len(s[n])
      PROVE  \E i \in 1..n : \E k \in 1..Len(s[i]) : j = at[i] + k
  BY <1>1, <1>7, Zenon
<1> QED
  BY <1>8 DEF n

(* The arrays of commands; and where a field is: from an offset on, or, a  *)
(* word, at two.                                                           *)
CmdArrays == {"aci_data", "echo_data", "dynamic_data", "setup_data", "key"}

FieldAt(f, size, start, offsets, last) ==
    /\ \/ offsets = <<start - OFFSET_PARAMS>>
       \/ /\ offsets = <<start - OFFSET_PARAMS, start - OFFSET_PARAMS + 1>>
          /\ size = 2 /\ f \notin CmdArrays
    /\ f \in CmdArrays => last

CmdLaidOut(struct, at, offsets) ==
    /\ IsStruct(struct) /\ Layout(struct, at)
    /\ DOMAIN offsets = {struct[i][1] : i \in 1..Len(struct)}
    /\ \A i \in 1..Len(struct) :
        FieldAt(struct[i][1], struct[i][2], at[i], offsets[struct[i][1]], i = Len(struct))

CmdOffsets ==
    [test |-> <<2>>, echo |-> <<2>>, dtm_cmd |-> <<2, 3>>, setup |-> <<2>>,
     write_dynamic_data |-> <<2, 3>>, set_local_data |-> <<2, 3>>,
     send_data |-> <<2, 3>>, connect |-> <<2, 4>>, bond |-> <<2, 4>>,
     broadcast |-> <<2, 4>>, disconnect |-> <<2>>, set_tx_power |-> <<2>>,
     change_timing |-> <<2, 4, 6, 8>>, open_remote_pipe |-> <<2>>,
     close_remote_pipe |-> <<2>>, send_data_ack |-> <<2>>, request_data |-> <<2>>,
     send_data_nack |-> <<2, 3>>, set_app_latency |-> <<2, 3>>, set_key |-> <<2, 3>>,
     open_adv_pipe |-> <<2>>]

(* How long a command's packet is: the number that is written for it, to   *)
(* which that of the bytes of its data is added, if it has some.           *)
LengthOf(cmd, at, f, size) ==
    CASE cmd \in DOMAIN DataField -> f = DataField[cmd] /\ MSG_LEN[cmd] = at - 1
      [] cmd = "set_key" -> at = 3 /\ f = "key"
      [] OTHER -> /\ cmd \in DOMAIN MSG_LEN /\ f \notin CmdArrays
                  /\ MSG_LEN[cmd] = at - 1 + size

LEMMA CommandsLaidOut ==
    ASSUME NEW cmd \in DOMAIN OFFSET_ACI_CMD_PARAMS
    PROVE  LET struct == CmdParams(cmd)
               at == CmdOffsets[cmd]
               last == Len(struct)
           IN  /\ CmdLaidOut(struct, at, OFFSET_ACI_CMD_PARAMS[cmd])
               /\ LengthOf(cmd, at[last], struct[last][1], struct[last][2])
<1> DEFINE struct == CmdParams(cmd)
           at == CmdOffsets[cmd]
           offsets == OFFSET_ACI_CMD_PARAMS[cmd]
           last == Len(struct)
<1> USE DEF CmdParams, link_cmd_params, pipe_cmd_params, Advertising, PipeNumber, aci_tx_data_t,
    aci_ll_conn_params_t, ACI_PIPE_TX_DATA_MAX_LEN, ACI_ECHO_DATA_MAX_LEN, ACI_PACKET_MAX_LEN,
    CmdOffsets, OFFSET_ACI_CMD_PARAMS, ADVERTISING, PIPE_NUMBER, TX_DATA
<1>1. CASE cmd = "test"
  <2>1. struct = << <<"test_mode_change", 1>> >>
    BY <1>1
  <2>2. /\ at = <<2>>
        /\ offsets = [test_mode_change |-> <<0>>]
    BY <1>1
  <2> HIDE DEF struct, at, offsets
  <2>3. IsStruct(struct) /\ Layout(struct, at)
    BY <2>1, <2>2 DEF IsStruct, Layout, OFFSET_PARAMS
  <2>4. DOMAIN offsets = {struct[i][1] : i \in 1..Len(struct)}
    BY <2>1, <2>2
  <2>5. FieldAt("test_mode_change", 1, 2, offsets["test_mode_change"], 1 = 1)
    BY <2>2 DEF FieldAt, CmdArrays, OFFSET_PARAMS
  <2>6. \A i \in 1..Len(struct) :
          FieldAt(struct[i][1], struct[i][2], at[i], offsets[struct[i][1]], i = Len(struct))
    BY <2>1, <2>2, <2>5
  <2>7. LengthOf("test", 2, "test_mode_change", 1)
    BY DEF LengthOf, DataField, MSG_LEN, CmdArrays
  <2>8. last = 1 /\ at[last] = 2 /\ struct[last][1] = "test_mode_change" /\ struct[last][2] = 1
    BY <2>1, <2>2
  <2> HIDE DEF last
  <2>9. LengthOf(cmd, at[last], struct[last][1], struct[last][2])
    BY <1>1, <2>7, <2>8
  <2>10. CmdLaidOut(struct, at, offsets)
    BY <2>3, <2>4, <2>6, Zenon DEF CmdLaidOut
  <2> QED
    BY <2>9, <2>10, Zenon DEF struct, at, offsets, last
<1>2. CASE cmd = "echo"
  <2>1. struct = << <<"echo_data", 29>> >>
    BY <1>2
  <2>2. /\ at = <<2>>
        /\ offsets = [echo_data |-> <<0>>]
    BY <1>2
  <2> HIDE DEF struct, at, offsets
  <2>3. IsStruct(struct) /\ Layout(struct, at)
    BY <2>1, <2>2 DEF IsStruct, Layout, OFFSET_PARAMS
  <2>4. DOMAIN offsets = {struct[i][1] : i \in 1..Len(struct)}
    BY <2>1, <2>2
  <2>5. FieldAt("echo_data", 29, 2, offsets["echo_data"], 1 = 1)
    BY <2>2 DEF FieldAt, CmdArrays, OFFSET_PARAMS
  <2>6. \A i \in 1..Len(struct) :
          FieldAt(struct[i][1], struct[i][2], at[i], offsets[struct[i][1]], i = Len(struct))
    BY <2>1, <2>2, <2>5
  <2>7. LengthOf("echo", 2, "echo_data", 29)
    BY DEF LengthOf, DataField, MSG_LEN, CmdArrays
  <2>8. last = 1 /\ at[last] = 2 /\ struct[last][1] = "echo_data" /\ struct[last][2] = 29
    BY <2>1, <2>2
  <2> HIDE DEF last
  <2>9. LengthOf(cmd, at[last], struct[last][1], struct[last][2])
    BY <1>2, <2>7, <2>8
  <2>10. CmdLaidOut(struct, at, offsets)
    BY <2>3, <2>4, <2>6, Zenon DEF CmdLaidOut
  <2> QED
    BY <2>9, <2>10, Zenon DEF struct, at, offsets, last
<1>3. CASE cmd = "dtm_cmd"
  <2>1. struct = << <<"cmd_msb", 1>>, <<"cmd_lsb", 1>> >>
    BY <1>3
  <2>2. /\ at = <<2, 3>>
        /\ offsets = [cmd_msb |-> <<0>>, cmd_lsb |-> <<1>>]
    BY <1>3
  <2> HIDE DEF struct, at, offsets
  <2>3. IsStruct(struct) /\ Layout(struct, at)
    BY <2>1, <2>2 DEF IsStruct, Layout, OFFSET_PARAMS
  <2>4. DOMAIN offsets = {struct[i][1] : i \in 1..Len(struct)}
    BY <2>1, <2>2
  <2>5. /\ FieldAt("cmd_msb", 1, 2, offsets["cmd_msb"], 1 = 2)
        /\ FieldAt("cmd_lsb", 1, 3, offsets["cmd_lsb"], 2 = 2)
    BY <2>2 DEF FieldAt, CmdArrays, OFFSET_PARAMS
  <2>6. \A i \in 1..Len(struct) :
          FieldAt(struct[i][1], struct[i][2], at[i], offsets[struct[i][1]], i = Len(struct))
    BY <2>1, <2>2, <2>5
  <2>7. LengthOf("dtm_cmd", 3, "cmd_lsb", 1)
    BY DEF LengthOf, DataField, MSG_LEN, CmdArrays
  <2>8. last = 2 /\ at[last] = 3 /\ struct[last][1] = "cmd_lsb" /\ struct[last][2] = 1
    BY <2>1, <2>2
  <2> HIDE DEF last
  <2>9. LengthOf(cmd, at[last], struct[last][1], struct[last][2])
    BY <1>3, <2>7, <2>8
  <2>10. CmdLaidOut(struct, at, offsets)
    BY <2>3, <2>4, <2>6, Zenon DEF CmdLaidOut
  <2> QED
    BY <2>9, <2>10, Zenon DEF struct, at, offsets, last
<1>4. CASE cmd = "setup"
  <2>1. struct = << <<"setup_data", 1>> >>
    BY <1>4
  <2>2. /\ at = <<2>>
        /\ offsets = [setup_data |-> <<0>>]
    BY <1>4
  <2> HIDE DEF struct, at, offsets
  <2>3. IsStruct(struct) /\ Layout(struct, at)
    BY <2>1, <2>2 DEF IsStruct, Layout, OFFSET_PARAMS
  <2>4. DOMAIN offsets = {struct[i][1] : i \in 1..Len(struct)}
    BY <2>1, <2>2
  <2>5. FieldAt("setup_data", 1, 2, offsets["setup_data"], 1 = 1)
    BY <2>2 DEF FieldAt, CmdArrays, OFFSET_PARAMS
  <2>6. \A i \in 1..Len(struct) :
          FieldAt(struct[i][1], struct[i][2], at[i], offsets[struct[i][1]], i = Len(struct))
    BY <2>1, <2>2, <2>5
  <2>7. LengthOf("setup", 2, "setup_data", 1)
    BY DEF LengthOf, DataField, MSG_LEN, CmdArrays
  <2>8. last = 1 /\ at[last] = 2 /\ struct[last][1] = "setup_data" /\ struct[last][2] = 1
    BY <2>1, <2>2
  <2> HIDE DEF last
  <2>9. LengthOf(cmd, at[last], struct[last][1], struct[last][2])
    BY <1>4, <2>7, <2>8
  <2>10. CmdLaidOut(struct, at, offsets)
    BY <2>3, <2>4, <2>6, Zenon DEF CmdLaidOut
  <2> QED
    BY <2>9, <2>10, Zenon DEF struct, at, offsets, last
<1>5. CASE cmd = "write_dynamic_data"
  <2>1. struct = << <<"seq_no", 1>>, <<"dynamic_data", 1>> >>
    BY <1>5
  <2>2. /\ at = <<2, 3>>
        /\ offsets = [seq_no |-> <<0>>, dynamic_data |-> <<1>>]
    BY <1>5
  <2> HIDE DEF struct, at, offsets
  <2>3. IsStruct(struct) /\ Layout(struct, at)
    BY <2>1, <2>2 DEF IsStruct, Layout, OFFSET_PARAMS
  <2>4. DOMAIN offsets = {struct[i][1] : i \in 1..Len(struct)}
    BY <2>1, <2>2
  <2>5. /\ FieldAt("seq_no", 1, 2, offsets["seq_no"], 1 = 2)
        /\ FieldAt("dynamic_data", 1, 3, offsets["dynamic_data"], 2 = 2)
    BY <2>2 DEF FieldAt, CmdArrays, OFFSET_PARAMS
  <2>6. \A i \in 1..Len(struct) :
          FieldAt(struct[i][1], struct[i][2], at[i], offsets[struct[i][1]], i = Len(struct))
    BY <2>1, <2>2, <2>5
  <2>7. LengthOf("write_dynamic_data", 3, "dynamic_data", 1)
    BY DEF LengthOf, DataField, MSG_LEN, CmdArrays
  <2>8. last = 2 /\ at[last] = 3 /\ struct[last][1] = "dynamic_data" /\ struct[last][2] = 1
    BY <2>1, <2>2
  <2> HIDE DEF last
  <2>9. LengthOf(cmd, at[last], struct[last][1], struct[last][2])
    BY <1>5, <2>7, <2>8
  <2>10. CmdLaidOut(struct, at, offsets)
    BY <2>3, <2>4, <2>6, Zenon DEF CmdLaidOut
  <2> QED
    BY <2>9, <2>10, Zenon DEF struct, at, offsets, last
<1>6. CASE cmd = "set_local_data"
  <2>1. struct = << <<"pipe_number", 1>>, <<"aci_data", 20>> >>
    BY <1>6
  <2>2. /\ at = <<2, 3>>
        /\ offsets = [pipe_number |-> <<0>>, aci_data |-> <<1>>]
    BY <1>6
  <2> HIDE DEF struct, at, offsets
  <2>3. IsStruct(struct) /\ Layout(struct, at)
    BY <2>1, <2>2 DEF IsStruct, Layout, OFFSET_PARAMS
  <2>4. DOMAIN offsets = {struct[i][1] : i \in 1..Len(struct)}
    BY <2>1, <2>2
  <2>5. /\ FieldAt("pipe_number", 1, 2, offsets["pipe_number"], 1 = 2)
        /\ FieldAt("aci_data", 20, 3, offsets["aci_data"], 2 = 2)
    BY <2>2 DEF FieldAt, CmdArrays, OFFSET_PARAMS
  <2>6. \A i \in 1..Len(struct) :
          FieldAt(struct[i][1], struct[i][2], at[i], offsets[struct[i][1]], i = Len(struct))
    BY <2>1, <2>2, <2>5
  <2>7. LengthOf("set_local_data", 3, "aci_data", 20)
    BY DEF LengthOf, DataField, MSG_LEN, CmdArrays
  <2>8. last = 2 /\ at[last] = 3 /\ struct[last][1] = "aci_data" /\ struct[last][2] = 20
    BY <2>1, <2>2
  <2> HIDE DEF last
  <2>9. LengthOf(cmd, at[last], struct[last][1], struct[last][2])
    BY <1>6, <2>7, <2>8
  <2>10. CmdLaidOut(struct, at, offsets)
    BY <2>3, <2>4, <2>6, Zenon DEF CmdLaidOut
  <2> QED
    BY <2>9, <2>10, Zenon DEF struct, at, offsets, last
<1>7. CASE cmd = "send_data"
  <2>1. struct = << <<"pipe_number", 1>>, <<"aci_data", 20>> >>
    BY <1>7
  <2>2. /\ at = <<2, 3>>
        /\ offsets = [pipe_number |-> <<0>>, aci_data |-> <<1>>]
    BY <1>7
  <2> HIDE DEF struct, at, offsets
  <2>3. IsStruct(struct) /\ Layout(struct, at)
    BY <2>1, <2>2 DEF IsStruct, Layout, OFFSET_PARAMS
  <2>4. DOMAIN offsets = {struct[i][1] : i \in 1..Len(struct)}
    BY <2>1, <2>2
  <2>5. /\ FieldAt("pipe_number", 1, 2, offsets["pipe_number"], 1 = 2)
        /\ FieldAt("aci_data", 20, 3, offsets["aci_data"], 2 = 2)
    BY <2>2 DEF FieldAt, CmdArrays, OFFSET_PARAMS
  <2>6. \A i \in 1..Len(struct) :
          FieldAt(struct[i][1], struct[i][2], at[i], offsets[struct[i][1]], i = Len(struct))
    BY <2>1, <2>2, <2>5
  <2>7. LengthOf("send_data", 3, "aci_data", 20)
    BY DEF LengthOf, DataField, MSG_LEN, CmdArrays
  <2>8. last = 2 /\ at[last] = 3 /\ struct[last][1] = "aci_data" /\ struct[last][2] = 20
    BY <2>1, <2>2
  <2> HIDE DEF last
  <2>9. LengthOf(cmd, at[last], struct[last][1], struct[last][2])
    BY <1>7, <2>7, <2>8
  <2>10. CmdLaidOut(struct, at, offsets)
    BY <2>3, <2>4, <2>6, Zenon DEF CmdLaidOut
  <2> QED
    BY <2>9, <2>10, Zenon DEF struct, at, offsets, last
<1>8. CASE cmd = "connect"
  <2>1. struct = << <<"timeout", 2>>, <<"adv_interval", 2>> >>
    BY <1>8
  <2>2. /\ at = <<2, 4>>
        /\ offsets = [timeout |-> <<0, 1>>, adv_interval |-> <<2, 3>>]
    BY <1>8
  <2> HIDE DEF struct, at, offsets
  <2>3. IsStruct(struct) /\ Layout(struct, at)
    BY <2>1, <2>2 DEF IsStruct, Layout, OFFSET_PARAMS
  <2>4. DOMAIN offsets = {struct[i][1] : i \in 1..Len(struct)}
    BY <2>1, <2>2
  <2>5. /\ FieldAt("timeout", 2, 2, offsets["timeout"], 1 = 2)
        /\ FieldAt("adv_interval", 2, 4, offsets["adv_interval"], 2 = 2)
    BY <2>2 DEF FieldAt, CmdArrays, OFFSET_PARAMS
  <2>6. \A i \in 1..Len(struct) :
          FieldAt(struct[i][1], struct[i][2], at[i], offsets[struct[i][1]], i = Len(struct))
    BY <2>1, <2>2, <2>5
  <2>7. LengthOf("connect", 4, "adv_interval", 2)
    BY DEF LengthOf, DataField, MSG_LEN, CmdArrays
  <2>8. last = 2 /\ at[last] = 4 /\ struct[last][1] = "adv_interval" /\ struct[last][2] = 2
    BY <2>1, <2>2
  <2> HIDE DEF last
  <2>9. LengthOf(cmd, at[last], struct[last][1], struct[last][2])
    BY <1>8, <2>7, <2>8
  <2>10. CmdLaidOut(struct, at, offsets)
    BY <2>3, <2>4, <2>6, Zenon DEF CmdLaidOut
  <2> QED
    BY <2>9, <2>10, Zenon DEF struct, at, offsets, last
<1>9. CASE cmd = "bond"
  <2>1. struct = << <<"timeout", 2>>, <<"adv_interval", 2>> >>
    BY <1>9
  <2>2. /\ at = <<2, 4>>
        /\ offsets = [timeout |-> <<0, 1>>, adv_interval |-> <<2, 3>>]
    BY <1>9
  <2> HIDE DEF struct, at, offsets
  <2>3. IsStruct(struct) /\ Layout(struct, at)
    BY <2>1, <2>2 DEF IsStruct, Layout, OFFSET_PARAMS
  <2>4. DOMAIN offsets = {struct[i][1] : i \in 1..Len(struct)}
    BY <2>1, <2>2
  <2>5. /\ FieldAt("timeout", 2, 2, offsets["timeout"], 1 = 2)
        /\ FieldAt("adv_interval", 2, 4, offsets["adv_interval"], 2 = 2)
    BY <2>2 DEF FieldAt, CmdArrays, OFFSET_PARAMS
  <2>6. \A i \in 1..Len(struct) :
          FieldAt(struct[i][1], struct[i][2], at[i], offsets[struct[i][1]], i = Len(struct))
    BY <2>1, <2>2, <2>5
  <2>7. LengthOf("bond", 4, "adv_interval", 2)
    BY DEF LengthOf, DataField, MSG_LEN, CmdArrays
  <2>8. last = 2 /\ at[last] = 4 /\ struct[last][1] = "adv_interval" /\ struct[last][2] = 2
    BY <2>1, <2>2
  <2> HIDE DEF last
  <2>9. LengthOf(cmd, at[last], struct[last][1], struct[last][2])
    BY <1>9, <2>7, <2>8
  <2>10. CmdLaidOut(struct, at, offsets)
    BY <2>3, <2>4, <2>6, Zenon DEF CmdLaidOut
  <2> QED
    BY <2>9, <2>10, Zenon DEF struct, at, offsets, last
<1>10. CASE cmd = "broadcast"
  <2>1. struct = << <<"timeout", 2>>, <<"adv_interval", 2>> >>
    BY <1>10
  <2>2. /\ at = <<2, 4>>
        /\ offsets = [timeout |-> <<0, 1>>, adv_interval |-> <<2, 3>>]
    BY <1>10
  <2> HIDE DEF struct, at, offsets
  <2>3. IsStruct(struct) /\ Layout(struct, at)
    BY <2>1, <2>2 DEF IsStruct, Layout, OFFSET_PARAMS
  <2>4. DOMAIN offsets = {struct[i][1] : i \in 1..Len(struct)}
    BY <2>1, <2>2
  <2>5. /\ FieldAt("timeout", 2, 2, offsets["timeout"], 1 = 2)
        /\ FieldAt("adv_interval", 2, 4, offsets["adv_interval"], 2 = 2)
    BY <2>2 DEF FieldAt, CmdArrays, OFFSET_PARAMS
  <2>6. \A i \in 1..Len(struct) :
          FieldAt(struct[i][1], struct[i][2], at[i], offsets[struct[i][1]], i = Len(struct))
    BY <2>1, <2>2, <2>5
  <2>7. LengthOf("broadcast", 4, "adv_interval", 2)
    BY DEF LengthOf, DataField, MSG_LEN, CmdArrays
  <2>8. last = 2 /\ at[last] = 4 /\ struct[last][1] = "adv_interval" /\ struct[last][2] = 2
    BY <2>1, <2>2
  <2> HIDE DEF last
  <2>9. LengthOf(cmd, at[last], struct[last][1], struct[last][2])
    BY <1>10, <2>7, <2>8
  <2>10. CmdLaidOut(struct, at, offsets)
    BY <2>3, <2>4, <2>6, Zenon DEF CmdLaidOut
  <2> QED
    BY <2>9, <2>10, Zenon DEF struct, at, offsets, last
<1>11. CASE cmd = "disconnect"
  <2>1. struct = << <<"reason", 1>> >>
    BY <1>11
  <2>2. /\ at = <<2>>
        /\ offsets = [reason |-> <<0>>]
    BY <1>11
  <2> HIDE DEF struct, at, offsets
  <2>3. IsStruct(struct) /\ Layout(struct, at)
    BY <2>1, <2>2 DEF IsStruct, Layout, OFFSET_PARAMS
  <2>4. DOMAIN offsets = {struct[i][1] : i \in 1..Len(struct)}
    BY <2>1, <2>2
  <2>5. FieldAt("reason", 1, 2, offsets["reason"], 1 = 1)
    BY <2>2 DEF FieldAt, CmdArrays, OFFSET_PARAMS
  <2>6. \A i \in 1..Len(struct) :
          FieldAt(struct[i][1], struct[i][2], at[i], offsets[struct[i][1]], i = Len(struct))
    BY <2>1, <2>2, <2>5
  <2>7. LengthOf("disconnect", 2, "reason", 1)
    BY DEF LengthOf, DataField, MSG_LEN, CmdArrays
  <2>8. last = 1 /\ at[last] = 2 /\ struct[last][1] = "reason" /\ struct[last][2] = 1
    BY <2>1, <2>2
  <2> HIDE DEF last
  <2>9. LengthOf(cmd, at[last], struct[last][1], struct[last][2])
    BY <1>11, <2>7, <2>8
  <2>10. CmdLaidOut(struct, at, offsets)
    BY <2>3, <2>4, <2>6, Zenon DEF CmdLaidOut
  <2> QED
    BY <2>9, <2>10, Zenon DEF struct, at, offsets, last
<1>12. CASE cmd = "set_tx_power"
  <2>1. struct = << <<"device_power", 1>> >>
    BY <1>12
  <2>2. /\ at = <<2>>
        /\ offsets = [device_power |-> <<0>>]
    BY <1>12
  <2> HIDE DEF struct, at, offsets
  <2>3. IsStruct(struct) /\ Layout(struct, at)
    BY <2>1, <2>2 DEF IsStruct, Layout, OFFSET_PARAMS
  <2>4. DOMAIN offsets = {struct[i][1] : i \in 1..Len(struct)}
    BY <2>1, <2>2
  <2>5. FieldAt("device_power", 1, 2, offsets["device_power"], 1 = 1)
    BY <2>2 DEF FieldAt, CmdArrays, OFFSET_PARAMS
  <2>6. \A i \in 1..Len(struct) :
          FieldAt(struct[i][1], struct[i][2], at[i], offsets[struct[i][1]], i = Len(struct))
    BY <2>1, <2>2, <2>5
  <2>7. LengthOf("set_tx_power", 2, "device_power", 1)
    BY DEF LengthOf, DataField, MSG_LEN, CmdArrays
  <2>8. last = 1 /\ at[last] = 2 /\ struct[last][1] = "device_power" /\ struct[last][2] = 1
    BY <2>1, <2>2
  <2> HIDE DEF last
  <2>9. LengthOf(cmd, at[last], struct[last][1], struct[last][2])
    BY <1>12, <2>7, <2>8
  <2>10. CmdLaidOut(struct, at, offsets)
    BY <2>3, <2>4, <2>6, Zenon DEF CmdLaidOut
  <2> QED
    BY <2>9, <2>10, Zenon DEF struct, at, offsets, last
<1>13. CASE cmd = "change_timing"
  <2>1. struct = << <<"min_conn_interval", 2>>, <<"max_conn_interval", 2>>, 
                    <<"slave_latency", 2>>, <<"timeout_mult", 2>> >>
    BY <1>13
  <2>2. /\ at = <<2, 4, 6, 8>>
        /\ offsets = [min_conn_interval |-> <<0, 1>>, max_conn_interval |-> <<2, 3>>,
                      slave_latency |-> <<4, 5>>, timeout_mult |-> <<6, 7>>]
    BY <1>13
  <2> HIDE DEF struct, at, offsets
  <2>3. IsStruct(struct) /\ Layout(struct, at)
    BY <2>1, <2>2 DEF IsStruct, Layout, OFFSET_PARAMS
  <2>4. DOMAIN offsets = {struct[i][1] : i \in 1..Len(struct)}
    BY <2>1, <2>2
  <2>5. /\ FieldAt("min_conn_interval", 2, 2, offsets["min_conn_interval"], 1 = 4)
        /\ FieldAt("max_conn_interval", 2, 4, offsets["max_conn_interval"], 2 = 4)
        /\ FieldAt("slave_latency", 2, 6, offsets["slave_latency"], 3 = 4)
        /\ FieldAt("timeout_mult", 2, 8, offsets["timeout_mult"], 4 = 4)
    BY <2>2 DEF FieldAt, CmdArrays, OFFSET_PARAMS
  <2>6. \A i \in 1..Len(struct) :
          FieldAt(struct[i][1], struct[i][2], at[i], offsets[struct[i][1]], i = Len(struct))
    <3>1. \A i \in 1..Len(struct) : i \in {1, 2, 3, 4} /\ Len(struct) = 4
      BY <2>1
    <3>2. /\ FieldAt(struct[1][1], struct[1][2], at[1], offsets[struct[1][1]], 1 = 4)
          /\ FieldAt(struct[2][1], struct[2][2], at[2], offsets[struct[2][1]], 2 = 4)
      BY <2>1, <2>2, <2>5
    <3>3. /\ FieldAt(struct[3][1], struct[3][2], at[3], offsets[struct[3][1]], 3 = 4)
          /\ FieldAt(struct[4][1], struct[4][2], at[4], offsets[struct[4][1]], 4 = 4)
      BY <2>1, <2>2, <2>5
    <3> QED
      BY <3>1, <3>2, <3>3, Zenon
  <2>7. LengthOf("change_timing", 8, "timeout_mult", 2)
    BY DEF LengthOf, DataField, MSG_LEN, CmdArrays
  <2>8. last = 4 /\ at[last] = 8 /\ struct[last][1] = "timeout_mult" /\ struct[last][2] = 2
    BY <2>1, <2>2
  <2> HIDE DEF last
  <2>9. LengthOf(cmd, at[last], struct[last][1], struct[last][2])
    BY <1>13, <2>7, <2>8
  <2>10. CmdLaidOut(struct, at, offsets)
    BY <2>3, <2>4, <2>6, Zenon DEF CmdLaidOut
  <2> QED
    BY <2>9, <2>10, Zenon DEF struct, at, offsets, last
<1>14. CASE cmd = "open_remote_pipe"
  <2>1. struct = << <<"pipe_number", 1>> >>
    BY <1>14
  <2>2. /\ at = <<2>>
        /\ offsets = [pipe_number |-> <<0>>]
    BY <1>14
  <2> HIDE DEF struct, at, offsets
  <2>3. IsStruct(struct) /\ Layout(struct, at)
    BY <2>1, <2>2 DEF IsStruct, Layout, OFFSET_PARAMS
  <2>4. DOMAIN offsets = {struct[i][1] : i \in 1..Len(struct)}
    BY <2>1, <2>2
  <2>5. FieldAt("pipe_number", 1, 2, offsets["pipe_number"], 1 = 1)
    BY <2>2 DEF FieldAt, CmdArrays, OFFSET_PARAMS
  <2>6. \A i \in 1..Len(struct) :
          FieldAt(struct[i][1], struct[i][2], at[i], offsets[struct[i][1]], i = Len(struct))
    BY <2>1, <2>2, <2>5
  <2>7. LengthOf("open_remote_pipe", 2, "pipe_number", 1)
    BY DEF LengthOf, DataField, MSG_LEN, CmdArrays
  <2>8. last = 1 /\ at[last] = 2 /\ struct[last][1] = "pipe_number" /\ struct[last][2] = 1
    BY <2>1, <2>2
  <2> HIDE DEF last
  <2>9. LengthOf(cmd, at[last], struct[last][1], struct[last][2])
    BY <1>14, <2>7, <2>8
  <2>10. CmdLaidOut(struct, at, offsets)
    BY <2>3, <2>4, <2>6, Zenon DEF CmdLaidOut
  <2> QED
    BY <2>9, <2>10, Zenon DEF struct, at, offsets, last
<1>15. CASE cmd = "close_remote_pipe"
  <2>1. struct = << <<"pipe_number", 1>> >>
    BY <1>15
  <2>2. /\ at = <<2>>
        /\ offsets = [pipe_number |-> <<0>>]
    BY <1>15
  <2> HIDE DEF struct, at, offsets
  <2>3. IsStruct(struct) /\ Layout(struct, at)
    BY <2>1, <2>2 DEF IsStruct, Layout, OFFSET_PARAMS
  <2>4. DOMAIN offsets = {struct[i][1] : i \in 1..Len(struct)}
    BY <2>1, <2>2
  <2>5. FieldAt("pipe_number", 1, 2, offsets["pipe_number"], 1 = 1)
    BY <2>2 DEF FieldAt, CmdArrays, OFFSET_PARAMS
  <2>6. \A i \in 1..Len(struct) :
          FieldAt(struct[i][1], struct[i][2], at[i], offsets[struct[i][1]], i = Len(struct))
    BY <2>1, <2>2, <2>5
  <2>7. LengthOf("close_remote_pipe", 2, "pipe_number", 1)
    BY DEF LengthOf, DataField, MSG_LEN, CmdArrays
  <2>8. last = 1 /\ at[last] = 2 /\ struct[last][1] = "pipe_number" /\ struct[last][2] = 1
    BY <2>1, <2>2
  <2> HIDE DEF last
  <2>9. LengthOf(cmd, at[last], struct[last][1], struct[last][2])
    BY <1>15, <2>7, <2>8
  <2>10. CmdLaidOut(struct, at, offsets)
    BY <2>3, <2>4, <2>6, Zenon DEF CmdLaidOut
  <2> QED
    BY <2>9, <2>10, Zenon DEF struct, at, offsets, last
<1>16. CASE cmd = "send_data_ack"
  <2>1. struct = << <<"pipe_number", 1>> >>
    BY <1>16
  <2>2. /\ at = <<2>>
        /\ offsets = [pipe_number |-> <<0>>]
    BY <1>16
  <2> HIDE DEF struct, at, offsets
  <2>3. IsStruct(struct) /\ Layout(struct, at)
    BY <2>1, <2>2 DEF IsStruct, Layout, OFFSET_PARAMS
  <2>4. DOMAIN offsets = {struct[i][1] : i \in 1..Len(struct)}
    BY <2>1, <2>2
  <2>5. FieldAt("pipe_number", 1, 2, offsets["pipe_number"], 1 = 1)
    BY <2>2 DEF FieldAt, CmdArrays, OFFSET_PARAMS
  <2>6. \A i \in 1..Len(struct) :
          FieldAt(struct[i][1], struct[i][2], at[i], offsets[struct[i][1]], i = Len(struct))
    BY <2>1, <2>2, <2>5
  <2>7. LengthOf("send_data_ack", 2, "pipe_number", 1)
    BY DEF LengthOf, DataField, MSG_LEN, CmdArrays
  <2>8. last = 1 /\ at[last] = 2 /\ struct[last][1] = "pipe_number" /\ struct[last][2] = 1
    BY <2>1, <2>2
  <2> HIDE DEF last
  <2>9. LengthOf(cmd, at[last], struct[last][1], struct[last][2])
    BY <1>16, <2>7, <2>8
  <2>10. CmdLaidOut(struct, at, offsets)
    BY <2>3, <2>4, <2>6, Zenon DEF CmdLaidOut
  <2> QED
    BY <2>9, <2>10, Zenon DEF struct, at, offsets, last
<1>17. CASE cmd = "request_data"
  <2>1. struct = << <<"pipe_number", 1>> >>
    BY <1>17
  <2>2. /\ at = <<2>>
        /\ offsets = [pipe_number |-> <<0>>]
    BY <1>17
  <2> HIDE DEF struct, at, offsets
  <2>3. IsStruct(struct) /\ Layout(struct, at)
    BY <2>1, <2>2 DEF IsStruct, Layout, OFFSET_PARAMS
  <2>4. DOMAIN offsets = {struct[i][1] : i \in 1..Len(struct)}
    BY <2>1, <2>2
  <2>5. FieldAt("pipe_number", 1, 2, offsets["pipe_number"], 1 = 1)
    BY <2>2 DEF FieldAt, CmdArrays, OFFSET_PARAMS
  <2>6. \A i \in 1..Len(struct) :
          FieldAt(struct[i][1], struct[i][2], at[i], offsets[struct[i][1]], i = Len(struct))
    BY <2>1, <2>2, <2>5
  <2>7. LengthOf("request_data", 2, "pipe_number", 1)
    BY DEF LengthOf, DataField, MSG_LEN, CmdArrays
  <2>8. last = 1 /\ at[last] = 2 /\ struct[last][1] = "pipe_number" /\ struct[last][2] = 1
    BY <2>1, <2>2
  <2> HIDE DEF last
  <2>9. LengthOf(cmd, at[last], struct[last][1], struct[last][2])
    BY <1>17, <2>7, <2>8
  <2>10. CmdLaidOut(struct, at, offsets)
    BY <2>3, <2>4, <2>6, Zenon DEF CmdLaidOut
  <2> QED
    BY <2>9, <2>10, Zenon DEF struct, at, offsets, last
<1>18. CASE cmd = "send_data_nack"
  <2>1. struct = << <<"pipe_number", 1>>, <<"error_code", 1>> >>
    BY <1>18
  <2>2. /\ at = <<2, 3>>
        /\ offsets = [pipe_number |-> <<0>>, error_code |-> <<1>>]
    BY <1>18
  <2> HIDE DEF struct, at, offsets
  <2>3. IsStruct(struct) /\ Layout(struct, at)
    BY <2>1, <2>2 DEF IsStruct, Layout, OFFSET_PARAMS
  <2>4. DOMAIN offsets = {struct[i][1] : i \in 1..Len(struct)}
    BY <2>1, <2>2
  <2>5. /\ FieldAt("pipe_number", 1, 2, offsets["pipe_number"], 1 = 2)
        /\ FieldAt("error_code", 1, 3, offsets["error_code"], 2 = 2)
    BY <2>2 DEF FieldAt, CmdArrays, OFFSET_PARAMS
  <2>6. \A i \in 1..Len(struct) :
          FieldAt(struct[i][1], struct[i][2], at[i], offsets[struct[i][1]], i = Len(struct))
    BY <2>1, <2>2, <2>5
  <2>7. LengthOf("send_data_nack", 3, "error_code", 1)
    BY DEF LengthOf, DataField, MSG_LEN, CmdArrays
  <2>8. last = 2 /\ at[last] = 3 /\ struct[last][1] = "error_code" /\ struct[last][2] = 1
    BY <2>1, <2>2
  <2> HIDE DEF last
  <2>9. LengthOf(cmd, at[last], struct[last][1], struct[last][2])
    BY <1>18, <2>7, <2>8
  <2>10. CmdLaidOut(struct, at, offsets)
    BY <2>3, <2>4, <2>6, Zenon DEF CmdLaidOut
  <2> QED
    BY <2>9, <2>10, Zenon DEF struct, at, offsets, last
<1>19. CASE cmd = "set_app_latency"
  <2>1. struct = << <<"mode", 1>>, <<"latency", 2>> >>
    BY <1>19
  <2>2. /\ at = <<2, 3>>
        /\ offsets = [mode |-> <<0>>, latency |-> <<1, 2>>]
    BY <1>19
  <2> HIDE DEF struct, at, offsets
  <2>3. IsStruct(struct) /\ Layout(struct, at)
    BY <2>1, <2>2 DEF IsStruct, Layout, OFFSET_PARAMS
  <2>4. DOMAIN offsets = {struct[i][1] : i \in 1..Len(struct)}
    BY <2>1, <2>2
  <2>5. /\ FieldAt("mode", 1, 2, offsets["mode"], 1 = 2)
        /\ FieldAt("latency", 2, 3, offsets["latency"], 2 = 2)
    BY <2>2 DEF FieldAt, CmdArrays, OFFSET_PARAMS
  <2>6. \A i \in 1..Len(struct) :
          FieldAt(struct[i][1], struct[i][2], at[i], offsets[struct[i][1]], i = Len(struct))
    BY <2>1, <2>2, <2>5
  <2>7. LengthOf("set_app_latency", 3, "latency", 2)
    BY DEF LengthOf, DataField, MSG_LEN, CmdArrays
  <2>8. last = 2 /\ at[last] = 3 /\ struct[last][1] = "latency" /\ struct[last][2] = 2
    BY <2>1, <2>2
  <2> HIDE DEF last
  <2>9. LengthOf(cmd, at[last], struct[last][1], struct[last][2])
    BY <1>19, <2>7, <2>8
  <2>10. CmdLaidOut(struct, at, offsets)
    BY <2>3, <2>4, <2>6, Zenon DEF CmdLaidOut
  <2> QED
    BY <2>9, <2>10, Zenon DEF struct, at, offsets, last
<1>20. CASE cmd = "set_key"
  <2>1. struct = << <<"key_type", 1>>, <<"key", 16>> >>
    BY <1>20
  <2>2. /\ at = <<2, 3>>
        /\ offsets = [key_type |-> <<0>>, key |-> <<1>>]
    BY <1>20
  <2> HIDE DEF struct, at, offsets
  <2>3. IsStruct(struct) /\ Layout(struct, at)
    BY <2>1, <2>2 DEF IsStruct, Layout, OFFSET_PARAMS
  <2>4. DOMAIN offsets = {struct[i][1] : i \in 1..Len(struct)}
    BY <2>1, <2>2
  <2>5. /\ FieldAt("key_type", 1, 2, offsets["key_type"], 1 = 2)
        /\ FieldAt("key", 16, 3, offsets["key"], 2 = 2)
    BY <2>2 DEF FieldAt, CmdArrays, OFFSET_PARAMS
  <2>6. \A i \in 1..Len(struct) :
          FieldAt(struct[i][1], struct[i][2], at[i], offsets[struct[i][1]], i = Len(struct))
    BY <2>1, <2>2, <2>5
  <2>7. LengthOf("set_key", 3, "key", 16)
    BY DEF LengthOf, DataField, MSG_LEN, CmdArrays
  <2>8. last = 2 /\ at[last] = 3 /\ struct[last][1] = "key" /\ struct[last][2] = 16
    BY <2>1, <2>2
  <2> HIDE DEF last
  <2>9. LengthOf(cmd, at[last], struct[last][1], struct[last][2])
    BY <1>20, <2>7, <2>8
  <2>10. CmdLaidOut(struct, at, offsets)
    BY <2>3, <2>4, <2>6, Zenon DEF CmdLaidOut
  <2> QED
    BY <2>9, <2>10, Zenon DEF struct, at, offsets, last
<1>21. CASE cmd = "open_adv_pipe"
  <2>1. struct = << <<"pipes", 8>> >>
    BY <1>21
  <2>2. /\ at = <<2>>
        /\ offsets = [pipes |-> <<0>>]
    BY <1>21
  <2> HIDE DEF struct, at, offsets
  <2>3. IsStruct(struct) /\ Layout(struct, at)
    BY <2>1, <2>2 DEF IsStruct, Layout, OFFSET_PARAMS
  <2>4. DOMAIN offsets = {struct[i][1] : i \in 1..Len(struct)}
    BY <2>1, <2>2
  <2>5. FieldAt("pipes", 8, 2, offsets["pipes"], 1 = 1)
    BY <2>2 DEF FieldAt, CmdArrays, OFFSET_PARAMS
  <2>6. \A i \in 1..Len(struct) :
          FieldAt(struct[i][1], struct[i][2], at[i], offsets[struct[i][1]], i = Len(struct))
    BY <2>1, <2>2, <2>5
  <2>7. LengthOf("open_adv_pipe", 2, "pipes", 8)
    BY DEF LengthOf, DataField, MSG_LEN, CmdArrays
  <2>8. last = 1 /\ at[last] = 2 /\ struct[last][1] = "pipes" /\ struct[last][2] = 8
    BY <2>1, <2>2
  <2> HIDE DEF last
  <2>9. LengthOf(cmd, at[last], struct[last][1], struct[last][2])
    BY <1>21, <2>7, <2>8
  <2>10. CmdLaidOut(struct, at, offsets)
    BY <2>3, <2>4, <2>6, Zenon DEF CmdLaidOut
  <2> QED
    BY <2>9, <2>10, Zenon DEF struct, at, offsets, last
<1>22. cmd \in {"test", "echo", "dtm_cmd", "setup", "write_dynamic_data", "set_local_data",
              "send_data", "connect", "bond", "broadcast", "disconnect", "set_tx_power",
              "change_timing", "open_remote_pipe", "close_remote_pipe", "send_data_ack",
              "request_data", "send_data_nack", "set_app_latency", "set_key",
              "open_adv_pipe"}
  OBVIOUS
<1> QED
  BY <1>1, <1>2, <1>3, <1>4, <1>5, <1>6, <1>7, <1>8, <1>9, <1>10, <1>11,
     <1>12, <1>13, <1>14, <1>15, <1>16, <1>17, <1>18, <1>19, <1>20, <1>21, <1>22, Zenon

(* The keys of aci_key_type_t: none, to reject, or a passkey of six bytes. *)
(* For a byte that is no aci_key_type_t the encoder writes the length 0    *)
(* and copies 0 - 2 bytes: of such a call nothing is claimed.              *)
KeyFits(args) ==
    \/ args["key_type"] = Byte(ACI_KEY_TYPE_INVALID) /\ Len(args["key"]) = 0
    \/ args["key_type"] = Byte(ACI_KEY_TYPE_PASSKEY) /\ Len(args["key"]) = 6

(* Arguments for a command: bytes for each field, as many as it has; a key *)
(* is one that aci_key_type_t has.                                         *)
ArgsFit(cmd, args) ==
    LET struct == CmdParams(cmd)
    IN  /\ DOMAIN args = {struct[i][1] : i \in 1..Len(struct)}
        /\ \A i \in 1..Len(struct) :
            /\ args[struct[i][1]] \in Seq(Bytes)
            /\ struct[i][1] \notin CmdArrays => Len(args[struct[i][1]]) = struct[i][2]
        /\ cmd = "set_key" => KeyFits(args)

LEMMA TypesDiffer == Byte(ACI_KEY_TYPE_INVALID) # Byte(ACI_KEY_TYPE_PASSKEY)
<1>1. Byte(ACI_KEY_TYPE_INVALID)[1] = 0 /\ Byte(ACI_KEY_TYPE_PASSKEY)[1] = 1
  BY DEF Byte, ACI_KEY_TYPE_INVALID, ACI_KEY_TYPE_PASSKEY
<1> QED
  BY <1>1

LEMMA PlaceOfByte ==
    ASSUME NEW f, NEW size, NEW start \in Nat, start >= OFFSET_PARAMS, NEW offsets, NEW last,
           FieldAt(f, size, start, offsets, last),
           NEW n \in Nat, f \notin CmdArrays => n = size, NEW k \in 1..n
    PROVE  Place(offsets, k) = start + k - 1
<1>1. CASE offsets = <<start - OFFSET_PARAMS>>
  <2>1. Len(offsets) = 1 /\ offsets[1] = start - OFFSET_PARAMS /\ Last(offsets) = start - OFFSET_PARAMS
    BY <1>1 DEF Last
  <2> QED
    BY <2>1 DEF Place, OFFSET_PARAMS
<1>2. CASE /\ offsets = <<start - OFFSET_PARAMS, start - OFFSET_PARAMS + 1>>
           /\ size = 2 /\ f \notin CmdArrays
  <2>1. Len(offsets) = 2 /\ offsets[1] = start - OFFSET_PARAMS /\ offsets[2] = start - OFFSET_PARAMS + 1
    BY <1>2
  <2>2. k = 1 \/ k = 2
    BY <1>2
  <2> QED
    BY <2>1, <2>2 DEF Place, OFFSET_PARAMS
<1> QED
  BY <1>1, <1>2 DEF FieldAt

(* The fields' bytes, at the offsets written, are bytes, all of them, with *)
(* a length byte and an opcode before them.                                *)
Covers(struct, offsets, fields, bytes) ==
    /\ \A i \in 1..Len(struct) : \A k \in 1..Len(fields[struct[i][1]]) :
        /\ Place(offsets[struct[i][1]], k) \in 2..1 + Len(bytes)
        /\ bytes[Place(offsets[struct[i][1]], k) - 1] = fields[struct[i][1]][k]
    /\ \A j \in 1..Len(bytes) :
        \E i \in 1..Len(struct) : \E k \in 1..Len(fields[struct[i][1]]) :
            Place(offsets[struct[i][1]], k) = 1 + j

LEMMA ArgumentPlaces ==
    ASSUME NEW cmd \in DOMAIN OFFSET_ACI_CMD_PARAMS, NEW args, ArgsFit(cmd, args)
    PROVE  LET struct == CmdParams(cmd)
               P == Packed(struct, args)
               at == CmdOffsets[cmd]
           IN  /\ IsStruct(struct) /\ Fit(struct, args, Bytes)
               /\ P \in Seq(Bytes) /\ Len(P) = SizeOf(struct, args)
               /\ SizeOf(struct, args) =
                    at[Len(struct)] - OFFSET_PARAMS + Len(args[struct[Len(struct)][1]])
               /\ Covers(struct, OFFSET_ACI_CMD_PARAMS[cmd], args, P)
<1> DEFINE struct == CmdParams(cmd)
           P == Packed(struct, args)
           at == CmdOffsets[cmd]
           offsets == OFFSET_ACI_CMD_PARAMS[cmd]
           n == Len(struct)
           v == [i \in 1..n |-> args[struct[i][1]]]
           start == [i \in 1..n |-> at[i] - OFFSET_PARAMS]
<1>1. /\ IsStruct(struct) /\ Layout(struct, at)
      /\ \A i \in 1..n : FieldAt(struct[i][1], struct[i][2], at[i], offsets[struct[i][1]], i = n)
  BY CommandsLaidOut DEF CmdLaidOut
<1>2. /\ DOMAIN args = {struct[i][1] : i \in 1..n}
      /\ \A i \in 1..n :
            /\ args[struct[i][1]] \in Seq(Bytes)
            /\ struct[i][1] \notin CmdArrays => Len(args[struct[i][1]]) = struct[i][2]
  BY DEF ArgsFit
<1> HIDE DEF struct, at, offsets, n
<1>3. /\ n = Len(struct) /\ n \in Nat /\ n > 0 /\ n \in 1..n
      /\ \A i \in 1..n : struct[i][2] \in Nat
      /\ \A i \in 1..n : struct[i][1] \in DOMAIN args
  BY <1>1, <1>2, StructFields DEF n
<1>4. \A i \in 1..n : i < n => Len(args[struct[i][1]]) = struct[i][2]
  BY <1>1, <1>2, <1>3 DEF FieldAt
<1>5. Fit(struct, args, Bytes)
  BY <1>2, <1>3, <1>4 DEF Fit
<1>6. /\ P \in Seq(Bytes) /\ Len(P) = SizeOf(struct, args)
      /\ \A i \in 1..n : \A k \in 1..Len(args[struct[i][1]]) :
            LET j == Offsets(struct)[i] - OFFSET_PARAMS + k
            IN  j \in 1..SizeOf(struct, args) /\ P[j] = args[struct[i][1]][k]
  BY <1>1, <1>3, <1>5, PackedFields
<1>7. /\ \A i \in 1..n : Offsets(struct)[i] = at[i] /\ at[i] \in Nat /\ at[i] >= OFFSET_PARAMS
      /\ at[1] = OFFSET_PARAMS /\ \A i \in 1..n : i < n => at[i + 1] = at[i] + struct[i][2]
  <2>1. \A i \in 1..n : Offsets(struct)[i] = at[i]
    BY <1>1, <1>3, LayoutOffsets
  <2>2. \A i \in 1..n : Offsets(struct)[i] \in Nat /\ Offsets(struct)[i] >= OFFSET_PARAMS
    BY <1>1, <1>3, OffsetsFollow
  <2> QED
    BY <1>1, <1>3, <2>1, <2>2 DEF Layout
<1>8. SizeOf(struct, args) = at[n] - OFFSET_PARAMS + Len(args[struct[n][1]])
  BY <1>3, <1>7, Zenon DEF SizeOf
<1>9. \A i \in 1..n : Len(args[struct[i][1]]) \in Nat
  BY <1>2, LenProperties
<1>10. ASSUME NEW i \in 1..n, NEW k \in 1..Len(args[struct[i][1]])
       PROVE  /\ Place(offsets[struct[i][1]], k) \in Int
              /\ Place(offsets[struct[i][1]], k) - 1 = at[i] - OFFSET_PARAMS + k
  <2> DEFINE f == struct[i][1]
             size == struct[i][2]
             from == at[i]
             o == offsets[f]
             last == i = n
             m == Len(args[f])
  <2>1. /\ from \in Nat /\ from >= OFFSET_PARAMS /\ FieldAt(f, size, from, o, last)
        /\ m \in Nat /\ (f \notin CmdArrays => m = size) /\ k \in 1..m
    BY <1>1, <1>2, <1>7, <1>9
  <2> HIDE DEF f, size, from, o, last, m
  <2>2. Place(o, k) = from + k - 1
    BY <2>1, PlaceOfByte
  <2>3. Place(o, k) \in Int /\ Place(o, k) - 1 = from - OFFSET_PARAMS + k
    BY <2>1, <2>2 DEF OFFSET_PARAMS
  <2> QED
    BY <2>3 DEF f, from, o
<1>11. ASSUME NEW i \in 1..n, NEW k \in 1..Len(args[struct[i][1]])
       PROVE  /\ Place(offsets[struct[i][1]], k) \in 2..1 + Len(P)
              /\ P[Place(offsets[struct[i][1]], k) - 1] = args[struct[i][1]][k]
  <2> DEFINE p == Place(offsets[struct[i][1]], k)
             m == Len(P)
  <2>1. p \in Int /\ p - 1 \in 1..m /\ P[p - 1] = args[struct[i][1]][k] /\ m \in Nat
    BY <1>6, <1>7, <1>10, LenProperties
  <2> HIDE DEF p, m
  <2>2. p \in 2..1 + m
    BY <2>1
  <2> QED
    BY <2>1, <2>2 DEF p, m
<1>12. v \in Seq(Seq(Bytes)) /\ Len(v) = n /\ \A i \in 1..n : v[i] = args[struct[i][1]]
  <2>1. v \in [1..n -> Seq(Bytes)]
    BY <1>2
  <2>2. \A i \in 1..n : v[i] = args[struct[i][1]]
    OBVIOUS
  <2> HIDE DEF v
  <2> QED
    BY <1>3, <2>1, <2>2, FunctionSeq
<1>13. start \in [1..n -> Nat] /\ \A i \in 1..n : start[i] = at[i] - OFFSET_PARAMS
  BY <1>7 DEF OFFSET_PARAMS
<1> HIDE DEF v, start, P
<1>14. Places(v, start)
  <2>1. start[1] = 0
    <3>1. 1 \in 1..n
      BY <1>3
    <3> QED
      BY <1>7, <1>13, <3>1 DEF OFFSET_PARAMS
  <2>2. ASSUME NEW i \in 1..n, i < n PROVE start[i + 1] = start[i] + Len(v[i])
    <3>1. i + 1 \in 1..n
      BY <1>3, <2>2
    <3>2. /\ start[i + 1] = at[i + 1] - OFFSET_PARAMS /\ start[i] = at[i] - OFFSET_PARAMS
          /\ at[i + 1] = at[i] + struct[i][2] /\ Len(v[i]) = struct[i][2]
          /\ at[i] \in Nat /\ struct[i][2] \in Nat
      BY <1>3, <1>4, <1>7, <1>12, <1>13, <2>2, <3>1
    <3> QED
      BY <3>2 DEF OFFSET_PARAMS
  <2> QED
    BY <1>12, <1>13, <2>1, <2>2 DEF Places
<1>15. ASSUME NEW j \in 1..Len(P)
       PROVE  \E i \in 1..n : \E k \in 1..Len(args[struct[i][1]]) :
                Place(offsets[struct[i][1]], k) = 1 + j
  <2>1. \A l \in 1..start[n] + Len(v[n]) : \E i \in 1..n : \E k \in 1..Len(v[i]) : l = start[i] + k
    <3>1. \A l \in 1..start[Len(v)] + Len(v[Len(v)]) :
            \E i \in 1..Len(v) : \E k \in 1..Len(v[i]) : l = start[i] + k
      BY <1>3, <1>12, <1>14, PlacesCover, SMTT(40)
    <3> QED
      BY <1>12, <3>1
  <2>2. Len(P) = start[n] + Len(v[n])
    BY <1>3, <1>6, <1>8, <1>12, <1>13
  <2>3. PICK i \in 1..n : \E k \in 1..Len(v[i]) : j = start[i] + k
    BY <2>1, <2>2
  <2>4. PICK k \in 1..Len(args[struct[i][1]]) : j = at[i] - OFFSET_PARAMS + k
    BY <1>12, <1>13, <2>3
  <2> DEFINE p == Place(offsets[struct[i][1]], k)
  <2>5. p \in Int /\ p - 1 = j
    BY <1>10, <2>4
  <2> HIDE DEF p
  <2>6. p = 1 + j
    BY <2>5
  <2> QED
    BY <2>6 DEF p
<1>16. Covers(struct, offsets, args, P)
  BY <1>3, <1>11, <1>15 DEF Covers
<1> QED
  BY <1>1, <1>3, <1>5, <1>6, <1>8, <1>16 DEF P, struct, at, offsets, n

(* A buffer in which the chip finds, counting as the length byte says, an  *)
(* opcode and these bytes.                                                 *)
Carries(packet, opcode, bytes) ==
    /\ packet[0] = 1 + Len(bytes) /\ packet[1] = opcode
    /\ \A j \in 1..Len(bytes) : packet[1 + j] = bytes[j]

LEMMA ArgumentsEncoded ==
    ASSUME NEW cmd \in DOMAIN OFFSET_ACI_CMD_PARAMS, NEW args, ArgsFit(cmd, args)
    PROVE  LET P == Packed(CmdParams(cmd), args)
           IN  /\ P \in Seq(Bytes) /\ SizesFit(CmdParams(cmd), args)
               /\ DOMAIN Encode(cmd, args) = 0..1 + Len(P)
               /\ Carries(Encode(cmd, args), aci_cmd_opcode_t[cmd], P)
<1> DEFINE struct == CmdParams(cmd)
           P == Packed(struct, args)
           offsets == OFFSET_ACI_CMD_PARAMS[cmd]
           last == Len(struct)
           at(f, k) == Place(offsets[f], k)
           bytes == UNION {{<<f, k>> : k \in 1..Len(args[f])} : f \in DOMAIN args}
           written == {at(b[1], b[2]) : b \in bytes}
           e == Encode(cmd, args)
<1>1. /\ IsStruct(struct) /\ Fit(struct, args, Bytes) /\ last \in 1..last
      /\ P \in Seq(Bytes) /\ Len(P) = SizeOf(struct, args) /\ Len(P) \in Nat
      /\ SizeOf(struct, args) = CmdOffsets[cmd][last] - OFFSET_PARAMS + Len(args[struct[last][1]])
      /\ LengthOf(cmd, CmdOffsets[cmd][last], struct[last][1], struct[last][2])
  BY ArgumentPlaces, CommandsLaidOut, StructFields, LenProperties
<1>2. /\ \A i \in 1..last : \A k \in 1..Len(args[struct[i][1]]) :
            /\ at(struct[i][1], k) \in 2..1 + Len(P)
            /\ P[at(struct[i][1], k) - 1] = args[struct[i][1]][k]
      /\ \A j \in 1..Len(P) : \E i \in 1..last : \E k \in 1..Len(args[struct[i][1]]) :
            at(struct[i][1], k) = 1 + j
  <2>1. Covers(struct, offsets, args, P)
    BY ArgumentPlaces
  <2> QED
    BY <2>1, Zenon DEF Covers
<1>3. /\ DOMAIN args = {struct[i][1] : i \in 1..last}
      /\ struct[last][1] \notin CmdArrays => Len(args[struct[last][1]]) = struct[last][2]
      /\ cmd = "set_key" => KeyFits(args)
  BY <1>1 DEF ArgsFit
<1>4. e = [i \in {0, 1} \cup written |->
            CASE i = 0 -> EncodedLength(cmd, args)
              [] i = 1 -> aci_cmd_opcode_t[cmd]
              [] OTHER -> LET b == CHOOSE c \in bytes : at(c[1], c[2]) = i
                          IN  args[b[1]][b[2]]]
  BY Zenon DEF Encode
<1>5. SizesFit(struct, args)
  <2>1. \A i \in 1..last - 1 : i \in 1..last /\ i < last
    <3>1. last \in Nat
      BY <1>1, StructFields
    <3> HIDE DEF last
    <3> QED
      BY <3>1
  <2>2. \A i \in 1..last - 1 : Len(args[struct[i][1]]) = struct[i][2]
    BY <1>1, <2>1 DEF Fit
  <2> QED
    BY <2>2 DEF SizesFit
<1>6. EncodedLength(cmd, args) = 1 + Len(P)
  <2> DEFINE f == struct[last][1]
             start == CmdOffsets[cmd][last]
             m == Len(args[f])
             size == struct[last][2]
  <2>1. /\ Len(P) = start - OFFSET_PARAMS + m /\ LengthOf(cmd, start, f, size)
        /\ f \notin CmdArrays => m = size
    BY <1>1, <1>3
  <2>2. start \in Nat /\ m \in Nat /\ size \in Nat
    <3>1. args[f] \in Seq(Bytes) /\ size \in Nat
      BY <1>1, StructFields DEF Fit
    <3>2. Layout(struct, CmdOffsets[cmd])
      BY CommandsLaidOut DEF CmdLaidOut
    <3>3. \A i \in 1..last : Offsets(struct)[i] = CmdOffsets[cmd][i]
      BY <1>1, <3>2, LayoutOffsets
    <3>4. Offsets(struct)[last] \in Nat
      BY <1>1, OffsetsFollow
    <3> QED
      BY <1>1, <3>1, <3>3, <3>4, LenProperties
  <2>3. DOMAIN args # {}
    BY <1>1, <1>3
  <2>4. f = "key" => m = Len(args["key"])
    OBVIOUS
  <2>8. /\ DOMAIN DataField \subseteq DOMAIN MSG_LEN
        /\ "set_key" \notin DOMAIN DataField /\ "change_timing" \notin DOMAIN DataField
    BY DEF DataField, MSG_LEN
  <2> HIDE DEF f, start, size, P, struct, last
  <2>5. CASE cmd \in DOMAIN DataField
    <3>1. f = DataField[cmd] /\ MSG_LEN[cmd] = start - 1
      BY <2>1, <2>5, <2>8 DEF LengthOf
    <3>2. EncodedLength(cmd, args) = MSG_LEN[cmd] + m
      <4>1. EncodedLength(cmd, args) = MSG_LEN[cmd] + Len(args[DataField[cmd]])
        BY <2>5, <2>8 DEF EncodedLength
      <4> QED
        BY <3>1, <4>1
    <3> HIDE DEF m
    <3> QED
      BY <2>1, <2>2, <3>1, <3>2 DEF OFFSET_PARAMS
  <2>6. CASE cmd = "set_key"
    <3>1. start = 3 /\ f = "key"
      BY <2>1, <2>6, <2>8 DEF LengthOf
    <3>2. KeyFits(args) /\ m = Len(args["key"])
      BY <1>3, <2>4, <2>6, <3>1
    <3> HIDE DEF m
    <3>3. EncodedLength(cmd, args) = 2 + m
      <4>1. "set_key" \notin DOMAIN MSG_LEN /\ "set_key" # "change_timing"
        BY DEF MSG_LEN
      <4>2. Byte(ACI_KEY_TYPE_INVALID) # Byte(ACI_KEY_TYPE_PASSKEY)
        BY TypesDiffer
      <4>3. CASE args["key_type"] = Byte(ACI_KEY_TYPE_INVALID) /\ Len(args["key"]) = 0
        <5>1. EncodedLength("set_key", args) = MSG_SET_KEY_REJECT_LEN
          BY <2>8, <4>1, <4>2, <4>3 DEF EncodedLength, KeyTypes
        <5> QED
          BY <2>6, <3>2, <4>3, <5>1 DEF MSG_SET_KEY_REJECT_LEN
      <4>4. CASE args["key_type"] = Byte(ACI_KEY_TYPE_PASSKEY) /\ Len(args["key"]) = 6
        <5>1. EncodedLength("set_key", args) = MSG_SET_KEY_PASSKEY_LEN
          BY <2>8, <4>1, <4>2, <4>4 DEF EncodedLength, KeyTypes
        <5> QED
          BY <2>6, <3>2, <4>4, <5>1 DEF MSG_SET_KEY_PASSKEY_LEN
      <4> QED
        BY <3>2, <4>3, <4>4 DEF KeyFits
    <3> QED
      BY <2>1, <2>2, <3>1, <3>2, <3>3 DEF OFFSET_PARAMS
  <2>7. CASE cmd \notin DOMAIN DataField /\ cmd # "set_key"
    <3>1. cmd \in DOMAIN MSG_LEN /\ f \notin CmdArrays /\ MSG_LEN[cmd] = start - 1 + size
      BY <2>1, <2>7 DEF LengthOf
    <3>2. EncodedLength(cmd, args) = MSG_LEN[cmd]
      BY <2>3, <2>7, <3>1 DEF EncodedLength
    <3> HIDE DEF m
    <3> QED
      BY <2>1, <2>2, <3>1, <3>2 DEF OFFSET_PARAMS
  <2> QED
    BY <2>5, <2>6, <2>7
<1> HIDE DEF struct, P, offsets, last, at, e
<1>7. /\ \A b \in bytes : at(b[1], b[2]) \in 2..1 + Len(P) /\ P[at(b[1], b[2]) - 1] = args[b[1]][b[2]]
      /\ \A j \in 1..Len(P) : \E b \in bytes : at(b[1], b[2]) = 1 + j
  <2>1. ASSUME NEW b \in bytes
        PROVE  at(b[1], b[2]) \in 2..1 + Len(P) /\ P[at(b[1], b[2]) - 1] = args[b[1]][b[2]]
    <3>1. PICK f \in DOMAIN args : \E k \in 1..Len(args[f]) : b = <<f, k>>
      OBVIOUS
    <3>2. PICK k \in 1..Len(args[f]) : b = <<f, k>>
      BY <3>1
    <3>3. b[1] = f /\ b[2] = k
      BY <3>2
    <3>4. PICK i \in 1..last : f = struct[i][1]
      BY <1>3
    <3> QED
      BY <1>2, <3>2, <3>3, <3>4
  <2>2. ASSUME NEW j \in 1..Len(P) PROVE \E b \in bytes : at(b[1], b[2]) = 1 + j
    <3>1. PICK i \in 1..last : \E k \in 1..Len(args[struct[i][1]]) : at(struct[i][1], k) = 1 + j
      BY <1>2
    <3>2. PICK k \in 1..Len(args[struct[i][1]]) : at(struct[i][1], k) = 1 + j
      BY <3>1
    <3> DEFINE f == struct[i][1]
    <3>3. f \in DOMAIN args
      BY <1>3
    <3> HIDE DEF f
    <3>4. <<f, k>> \in bytes
      BY <3>2, <3>3 DEF f
    <3>5. <<f, k>>[1] = f /\ <<f, k>>[2] = k
      OBVIOUS
    <3> QED
      BY <3>2, <3>4, <3>5 DEF f
  <2> QED
    BY <2>1, <2>2
<1> HIDE DEF bytes
<1>8. written = 2..1 + Len(P)
  <2>1. ASSUME NEW i \in 2..1 + Len(P) PROVE i \in written
    <3>1. i - 1 \in 1..Len(P) /\ 1 + (i - 1) = i
      BY <1>1
    <3>2. PICK b \in bytes : at(b[1], b[2]) = 1 + (i - 1)
      BY <1>7, <3>1
    <3> QED
      BY <3>1, <3>2
  <2> QED
    BY <1>7, <2>1
<1>9. {0, 1} \cup written = 0..1 + Len(P)
  BY <1>1, <1>8
<1>10. DOMAIN e = 0..1 + Len(P)
  BY <1>4, <1>9
<1>11. e[0] = 1 + Len(P) /\ e[1] = aci_cmd_opcode_t[cmd]
  <2>1. 0 \in {0, 1} \cup written /\ 1 \in {0, 1} \cup written
    OBVIOUS
  <2> HIDE DEF written
  <2> QED
    BY <1>4, <1>6, <2>1
<1>12. ASSUME NEW j \in 1..Len(P) PROVE e[1 + j] = P[j]
  <2> DEFINE i == 1 + j
             c == CHOOSE b \in bytes : at(b[1], b[2]) = i
  <2>1. i \in {0, 1} \cup written /\ i # 0 /\ i # 1 /\ i - 1 = j
    <3> HIDE DEF written
    <3> QED
      BY <1>1, <1>8
  <2>2. \E b \in bytes : at(b[1], b[2]) = i
    BY <1>7
  <2> HIDE DEF i, written
  <2>3. c \in bytes /\ at(c[1], c[2]) = i
    BY <2>2, Zenon
  <2>4. e[i] = args[c[1]][c[2]]
    BY <1>4, <2>1
  <2> HIDE DEF c
  <2>5. args[c[1]][c[2]] = P[i - 1]
    BY <1>7, <2>3
  <2> QED
    BY <2>1, <2>4, <2>5 DEF i
<1> QED
  BY <1>1, <1>5, <1>10, <1>11, <1>12 DEF Carries, struct, P, e

LEMMA NoneEncoded ==
    ASSUME NEW cmd, cmd \notin DOMAIN OFFSET_ACI_CMD_PARAMS \ {"change_timing"}
    PROVE  LET P == Packed(CmdParams(cmd), NoArguments)
           IN  /\ P \in Seq(Bytes) /\ SizesFit(CmdParams(cmd), NoArguments)
               /\ DOMAIN Encode(cmd, NoArguments) = 0..1 + Len(P)
               /\ Carries(Encode(cmd, NoArguments), aci_cmd_opcode_t[cmd], P)
<1> DEFINE struct == CmdParams(cmd)
           n == Len(struct)
           P == Packed(struct, NoArguments)
           s == [i \in 1..n |-> IF struct[i][1] \in DOMAIN NoArguments
                                    THEN NoArguments[struct[i][1]] ELSE <<>>]
           e == Encode(cmd, NoArguments)
<1>1. DOMAIN NoArguments = {}
  BY DEF NoArguments
<1>2. SizesFit(struct, NoArguments)
  BY <1>1 DEF SizesFit
<1>3. n \in Nat
  <2>1. CASE cmd = "change_timing"
    <3>1. struct = aci_ll_conn_params_t
      BY <2>1 DEF CmdParams, link_cmd_params, pipe_cmd_params
    <3> HIDE DEF struct
    <3> QED
      BY <3>1 DEF aci_ll_conn_params_t
  <2>2. CASE cmd # "change_timing"
    <3>1. /\ DOMAIN link_cmd_params \subseteq DOMAIN OFFSET_ACI_CMD_PARAMS
          /\ DOMAIN pipe_cmd_params \subseteq DOMAIN OFFSET_ACI_CMD_PARAMS
      BY DEF link_cmd_params, pipe_cmd_params, OFFSET_ACI_CMD_PARAMS
    <3>2. struct = <<>>
      BY <2>2, <3>1 DEF CmdParams
    <3> HIDE DEF struct
    <3> QED
      BY <3>2
  <2> QED
    BY <2>1, <2>2
<1>4. P = <<>>
  <2>1. P = FlattenSeq(s)
    BY Zenon DEF Packed
  <2>2. s = [i \in 1..n |-> <<>>]
    BY <1>1
  <2> HIDE DEF s, n, P
  <2>3. Len(s) = n /\ s \in Seq(Seq(Bytes))
    <3>1. s \in [1..n -> Seq(Bytes)]
      BY <2>2
    <3> QED
      BY <1>3, <3>1, FunctionSeq
  <2>4. CASE n = 0
    BY <2>1, <2>3, <2>4, EmptySeq DEF FlattenSeq
  <2>5. CASE n # 0
    <3> DEFINE at == [i \in 1..n |-> 0]
    <3>1. Places(s, at)
      BY <1>3, <2>2, <2>3 DEF Places
    <3>2. /\ FlattenSeq(s) \in Seq(Bytes)
          /\ Len(FlattenSeq(s)) = at[Len(s)] + Len(s[Len(s)])
      BY <1>3, <2>3, <2>5, <3>1, FlattenPlaces
    <3>3. n \in 1..n
      BY <1>3, <2>5
    <3>4. at[n] = 0 /\ Len(s[n]) = 0
      BY <2>2, <3>3
    <3> HIDE DEF at
    <3>5. P \in Seq(Bytes) /\ Len(P) = 0
      BY <2>1, <2>3, <3>2, <3>4
    <3> QED
      BY <3>5, EmptySeq
  <2> QED
    BY <2>4, <2>5
<1>5. EncodedLength(cmd, NoArguments) = 1
  <2>1. /\ DOMAIN DataField \subseteq DOMAIN OFFSET_ACI_CMD_PARAMS
        /\ DOMAIN MSG_LEN \subseteq DOMAIN OFFSET_ACI_CMD_PARAMS
        /\ "set_key" \in DOMAIN OFFSET_ACI_CMD_PARAMS /\ "change_timing" \notin DOMAIN DataField
        /\ "change_timing" \in DOMAIN MSG_LEN
    BY DEF DataField, MSG_LEN, OFFSET_ACI_CMD_PARAMS
  <2>2. CASE cmd = "change_timing"
    BY <1>1, <2>1, <2>2 DEF EncodedLength, MSG_CHANGE_TIMING_LEN_GAP_PPCP
  <2>3. CASE cmd # "change_timing"
    <3>1. cmd \notin DOMAIN DataField /\ cmd \notin DOMAIN MSG_LEN /\ cmd # "set_key"
      BY <2>1, <2>3
    <3> QED
      BY <2>3, <3>1 DEF EncodedLength
  <2> QED
    BY <2>2, <2>3
<1>6. DOMAIN e = {0, 1} /\ e[0] = 1 /\ e[1] = aci_cmd_opcode_t[cmd]
  <2> DEFINE bytes == UNION {{<<f, k>> : k \in 1..Len(NoArguments[f])} : f \in DOMAIN NoArguments}
             at(f, k) == Place(OFFSET_ACI_CMD_PARAMS[cmd][f], k)
             written == {at(b[1], b[2]) : b \in bytes}
  <2>1. e = [i \in {0, 1} \cup written |->
            CASE i = 0 -> EncodedLength(cmd, NoArguments)
              [] i = 1 -> aci_cmd_opcode_t[cmd]
              [] OTHER -> LET b == CHOOSE c \in bytes : at(c[1], c[2]) = i
                          IN  NoArguments[b[1]][b[2]]]
    BY Zenon DEF Encode
  <2>2. bytes = {}
    BY <1>1
  <2> HIDE DEF bytes, e, at
  <2>3. written = {}
    BY <2>2
  <2> HIDE DEF written
  <2> QED
    BY <1>5, <2>1, <2>3
<1> HIDE DEF P, e, struct
<1>7. P \in Seq(Bytes) /\ Len(P) = 0 /\ DOMAIN e = 0..1 + Len(P)
  BY <1>4, <1>6
<1>8. Carries(e, aci_cmd_opcode_t[cmd], P)
  BY <1>6, <1>7 DEF Carries
<1> QED
  BY <1>2, <1>7, <1>8 DEF P, e, struct

(* A call of one of the library's functions, with arguments that fit its   *)
(* command, or none.                                                       *)
IsCall(c) ==
    /\ c.cmd \in DOMAIN aci_cmd_opcode_t
    /\ \/ c.cmd \in DOMAIN OFFSET_ACI_CMD_PARAMS /\ ArgsFit(c.cmd, c.args)
       \/ c.cmd \notin DOMAIN OFFSET_ACI_CMD_PARAMS \ {"change_timing"} /\ c.args = NoArguments

Fits(c) == Encode(c.cmd, c.args)[0] <= HAL_ACI_MAX_LENGTH
ParamsOf(c) == Packed(CmdParams(c.cmd), c.args)

LEMMA CallPacket ==
    ASSUME NEW c, IsCall(c), Fits(c)
    PROVE  /\ msg_to_send(c) \in Packets
           /\ Carries(msg_to_send(c), aci_cmd_opcode_t[c.cmd], ParamsOf(c))
           /\ ParamsOf(c) \in Seq(Bytes) /\ SizesFit(CmdParams(c.cmd), c.args)
           /\ 1 + Len(ParamsOf(c)) <= HAL_ACI_MAX_LENGTH
<1> DEFINE P == ParamsOf(c)
           e == Encode(c.cmd, c.args)
           packet == msg_to_send(c)
           opcode == aci_cmd_opcode_t[c.cmd]
           n == Len(P)
<1>1. /\ P \in Seq(Bytes) /\ SizesFit(CmdParams(c.cmd), c.args)
      /\ DOMAIN e = 0..1 + n /\ Carries(e, opcode, P)
  <2>1. CASE c.cmd \in DOMAIN OFFSET_ACI_CMD_PARAMS /\ ArgsFit(c.cmd, c.args)
    BY <2>1, ArgumentsEncoded DEF ParamsOf
  <2>2. CASE c.cmd \notin DOMAIN OFFSET_ACI_CMD_PARAMS \ {"change_timing"} /\ c.args = NoArguments
    BY <2>2, NoneEncoded DEF ParamsOf
  <2> QED
    BY <2>1, <2>2 DEF IsCall
<1>2. opcode \in Bytes
  BY CommandOpcodes DEF IsCall
<1>3. packet = Over(e, [i \in 0..HAL_ACI_MAX_LENGTH |-> Stale])
  BY DEF msg_to_send
<1>4. e[0] <= 31
  BY DEF Fits, HAL_ACI_MAX_LENGTH
<1> HIDE DEF P, e, packet, opcode, n
<1>5. n \in Nat /\ e[0] = 1 + n /\ e[1] = opcode /\ \A j \in 1..n : e[1 + j] = P[j]
  BY <1>1, LenProperties DEF Carries, n
<1>6. n <= 30
  BY <1>4, <1>5
<1>7. /\ DOMAIN packet = 0..31 /\ packet = [i \in 0..31 |-> packet[i]]
      /\ \A i \in 0..31 : packet[i] = IF i \in 0..1 + n THEN e[i] ELSE Stale
  <2>1. 0..1 + n \cup 0..31 = 0..31
    BY <1>5, <1>6
  <2>2. packet = [i \in 0..31 |-> IF i \in 0..1 + n THEN e[i] ELSE Stale]
    BY <1>1, <1>3, <2>1 DEF Over, HAL_ACI_MAX_LENGTH
  <2> QED
    BY <2>2
<1>8. ASSUME NEW i \in 0..1 + n PROVE e[i] \in Bytes
  <2>1. CASE i = 0
    BY <1>5, <1>6, <2>1 DEF Bytes
  <2>2. CASE i = 1
    BY <1>2, <1>5, <2>2
  <2>3. CASE i # 0 /\ i # 1
    <3>1. i - 1 \in 1..n /\ 1 + (i - 1) = i
      BY <1>5, <2>3
    <3>2. P[i - 1] \in Bytes
      BY <1>1, <3>1, ElementOfSeq DEF n
    <3> QED
      BY <1>5, <3>1, <3>2
  <2> QED
    BY <2>1, <2>2, <2>3
<1>9. packet \in Packets
  BY <1>7, <1>8 DEF Packets, HAL_ACI_MAX_LENGTH
<1>10. Carries(packet, opcode, P)
  <2>1. packet[0] = 1 + n /\ packet[1] = opcode
    BY <1>5, <1>6, <1>7
  <2>2. ASSUME NEW j \in 1..n PROVE packet[1 + j] = P[j]
    <3>1. 1 + j \in 0..31 /\ 1 + j \in 0..1 + n
      BY <1>5, <1>6
    <3> QED
      BY <1>5, <1>7, <3>1
  <2> QED
    BY <2>1, <2>2 DEF Carries, n
<1>11. 1 + n <= HAL_ACI_MAX_LENGTH
  BY <1>5, <1>6 DEF HAL_ACI_MAX_LENGTH
<1> QED
  BY <1>1, <1>9, <1>10, <1>11 DEF P, packet, opcode, n

LEMMA CarriedIsTaken ==
    ASSUME NEW packet, NEW opcode \in Bytes, NEW bytes \in Seq(Bytes), Carries(packet, opcode, bytes),
           NEW heard, \A j \in 0..packet[0] : heard[j] = packet[j]
    PROVE  [k \in 1..heard[0] |-> heard[k]] = <<opcode>> \o bytes
<1> DEFINE n == Len(bytes)
           c == [k \in 1..heard[0] |-> heard[k]]
           a == <<opcode>>
<1>1. n \in Nat /\ bytes = [i \in 1..n |-> bytes[i]]
  BY LenProperties
<1>2. packet[0] = 1 + n /\ packet[1] = opcode /\ \A j \in 1..n : packet[1 + j] = bytes[j]
  BY DEF Carries
<1> HIDE DEF n
<1>3. /\ heard[0] = 1 + n /\ heard[1] = opcode /\ \A j \in 1..n : heard[1 + j] = bytes[j]
  <2>1. 0 \in 0..1 + n /\ 1 \in 0..1 + n /\ \A j \in 1..n : 1 + j \in 0..1 + n
    BY <1>1
  <2> QED
    BY <1>2, <2>1
<1>4. Len(c) = 1 + n /\ c = [i \in 1..1 + n |-> c[i]] /\ \A i \in 1..1 + n : c[i] = heard[i]
  BY <1>1, <1>3
<1> HIDE DEF c
<1>5. c[1] = opcode /\ \A i \in 1..n : c[1 + i] = bytes[i]
  <2>1. 1 \in 1..1 + n /\ \A i \in 1..n : 1 + i \in 1..1 + n
    BY <1>1
  <2> QED
    BY <1>3, <1>4, <2>1
<1>6. Len(a) = 1 /\ a = [i \in 1..1 |-> a[i]] /\ \A i \in 1..1 : a[i] = opcode /\ i = 1
  OBVIOUS
<1> HIDE DEF a
<1>7. IsTuple(a) /\ IsTuple(bytes) /\ IsTuple(c) /\ Len(c) = Len(a) + Len(bytes)
  BY <1>1, <1>4, <1>6 DEF IsTuple, n
<1>8. /\ \A i \in 1..Len(a) : c[i] = a[i]
      /\ \A i \in 1..Len(bytes) : c[Len(a) + i] = bytes[i]
  BY <1>5, <1>6 DEF n
<1>9. a \o bytes = c
  BY <1>7, <1>8, Joined
<1> QED
  BY <1>9 DEF a, c

(* Whatever its arguments are, if they fit and the key is of a type that   *)
(* there is: of what one of the library's functions has put into           *)
(* msg_to_send, the chip takes its opcode and the arguments, by the        *)
(* structs of aci_cmds.h, and nothing else, provided it gets as much of    *)
(* the buffer as the length byte says.                                     *)
THEOREM EveryCallIsTakenAsAsked ==
    ASSUME NEW c, IsCall(c), Fits(c), NEW heard,
           \A j \in 0..msg_to_send(c)[0] : heard[j] = msg_to_send(c)[j]
    PROVE  /\ SizesFit(CmdParams(c.cmd), c.args)
           /\ [k \in 1..heard[0] |-> heard[k]]
                = <<aci_cmd_opcode_t[c.cmd]>> \o Packed(CmdParams(c.cmd), c.args)
<1>1. /\ Carries(msg_to_send(c), aci_cmd_opcode_t[c.cmd], ParamsOf(c))
      /\ ParamsOf(c) \in Seq(Bytes) /\ SizesFit(CmdParams(c.cmd), c.args)
  BY CallPacket
<1>2. aci_cmd_opcode_t[c.cmd] \in Bytes
  BY CommandOpcodes DEF IsCall
<1>3. [k \in 1..heard[0] |-> heard[k]] = <<aci_cmd_opcode_t[c.cmd]>> \o ParamsOf(c)
  BY <1>1, <1>2, CarriedIsTaken
<1> QED
  BY <1>1, <1>3 DEF ParamsOf

(* The transfer brings all of a command, however long the event is.        *)
LEMMA CommandIsHeard ==
    ASSUME NEW c, IsCall(c), Fits(c), NEW other \in OtherPackets
    PROVE  \A j \in 0..msg_to_send(c)[0] :
                HeardOf(msg_to_send(c), other)[j] = msg_to_send(c)[j]
<1> DEFINE packet == msg_to_send(c)
           len == Len(ParamsOf(c))
           n == max_bytes(packet, other)
<1>1. packet[0] = 1 + len /\ 1 + len <= 31 /\ len \in Nat
  BY CallPacket, LenProperties DEF Carries, HAL_ACI_MAX_LENGTH
<1> HIDE DEF packet, len
<1>2. packet[0] \in 1..31
  BY <1>1
<1>3. other[0] \in {0, 1, 31}
  BY DEF OtherPackets, HAL_ACI_MAX_LENGTH
<1>4. n \in Nat /\ packet[0] <= n + 1
  <2> DEFINE p == packet[0]
             o == other[0]
  <2>1. n = Shorter(31, IF p = 0 THEN o ELSE Longer(o, p - 1))
    BY DEF max_bytes, HAL_ACI_MAX_LENGTH
  <2>2. p \in 1..31 /\ o \in {0, 1, 31}
    BY <1>2, <1>3
  <2> HIDE DEF p, o, n
  <2>3. n \in Nat /\ p <= n + 1
    BY <2>1, <2>2 DEF Shorter, Longer
  <2> QED
    BY <2>3 DEF p
<1> HIDE DEF n
<1>5. ASSUME NEW j \in 0..packet[0] PROVE HeardOf(packet, other)[j] = packet[j]
  <2>1. j \in 0..31 /\ j <= n + 1
    BY <1>2, <1>4
  <2> QED
    BY <2>1 DEF HeardOf, HAL_ACI_MAX_LENGTH, n
<1> QED
  BY <1>5 DEF packet

-----------------------------------------------------------------------------
(* The calls of the model.                                                 *)

ConnectCall == Call("connect", [timeout |-> Word(0), adv_interval |-> Word(\h0100)])
DisconnectCall == Call("disconnect", [reason |-> Byte(1)])
OpenAdvPipeCall(pipes) == Call("open_adv_pipe", [pipes |-> pipes])
Calls == SimpleCalls \cup {ConnectCall, DisconnectCall} \cup {OpenAdvPipeCall(b) : b \in Bitmaps}

(* Arguments of one or two fields.                                         *)
LEMMA OneArgument ==
    ASSUME NEW cmd, cmd \in DOMAIN aci_cmd_opcode_t, cmd \in DOMAIN OFFSET_ACI_CMD_PARAMS,
           cmd # "set_key", NEW f, NEW size, CmdParams(cmd) = << <<f, size>> >>,
           NEW args, DOMAIN args = {f}, args[f] \in Seq(Bytes),
           f \in CmdArrays \/ Len(args[f]) = size
    PROVE  IsCall(Call(cmd, args))
<1> DEFINE struct == CmdParams(cmd)
<1>1. /\ Len(struct) = 1 /\ \A i \in 1..Len(struct) : i = 1
      /\ struct[1][1] = f /\ struct[1][2] = size
  OBVIOUS
<1>2. DOMAIN args = {struct[i][1] : i \in 1..Len(struct)}
  BY <1>1
<1> HIDE DEF struct
<1>3. ArgsFit(cmd, args)
  BY <1>1, <1>2 DEF ArgsFit, struct
<1> QED
  BY <1>3 DEF IsCall, Call

LEMMA TwoArguments ==
    ASSUME NEW cmd, cmd \in DOMAIN aci_cmd_opcode_t, cmd \in DOMAIN OFFSET_ACI_CMD_PARAMS,
           NEW f, NEW m, NEW g, NEW n, CmdParams(cmd) = << <<f, m>>, <<g, n>> >>,
           NEW args, DOMAIN args = {f, g}, args[f] \in Seq(Bytes), args[g] \in Seq(Bytes),
           Len(args[f]) = m /\ (g \in CmdArrays \/ Len(args[g]) = n),
           cmd = "set_key" => KeyFits(args)
    PROVE  IsCall(Call(cmd, args))
<1> DEFINE struct == CmdParams(cmd)
<1>1. /\ Len(struct) = 2 /\ \A i \in 1..Len(struct) : i = 1 \/ i = 2
      /\ struct[1][1] = f /\ struct[1][2] = m /\ struct[2][1] = g /\ struct[2][2] = n
  OBVIOUS
<1>2. DOMAIN args = {struct[i][1] : i \in 1..Len(struct)}
  BY <1>1
<1> HIDE DEF struct
<1>3. ArgsFit(cmd, args)
  BY <1>1, <1>2 DEF ArgsFit, struct
<1> QED
  BY <1>3 DEF IsCall, Call

LEMMA CommandNames ==
    /\ DOMAIN OFFSET_ACI_CMD_PARAMS \subseteq DOMAIN aci_cmd_opcode_t
    /\ "key" \in CmdArrays /\ "aci_data" \in CmdArrays /\ "echo_data" \in CmdArrays
    /\ "dynamic_data" \in CmdArrays
  BY DEF OFFSET_ACI_CMD_PARAMS, aci_cmd_opcode_t, CmdArrays

(* Structs of one field, of two, ...                                       *)
LEMMA OneFieldStructs ==
    /\ "test" \in DOMAIN OFFSET_ACI_CMD_PARAMS
    /\ CmdParams("test") = << <<"test_mode_change", 1>> >>
    /\ "echo" \in DOMAIN OFFSET_ACI_CMD_PARAMS
    /\ CmdParams("echo") = << <<"echo_data", 29>> >>
    /\ "setup" \in DOMAIN OFFSET_ACI_CMD_PARAMS
    /\ CmdParams("setup") = << <<"setup_data", 1>> >>
    /\ "disconnect" \in DOMAIN OFFSET_ACI_CMD_PARAMS
    /\ CmdParams("disconnect") = << <<"reason", 1>> >>
    /\ "set_tx_power" \in DOMAIN OFFSET_ACI_CMD_PARAMS
    /\ CmdParams("set_tx_power") = << <<"device_power", 1>> >>
    /\ "open_remote_pipe" \in DOMAIN OFFSET_ACI_CMD_PARAMS
    /\ CmdParams("open_remote_pipe") = << <<"pipe_number", 1>> >>
    /\ "close_remote_pipe" \in DOMAIN OFFSET_ACI_CMD_PARAMS
    /\ CmdParams("close_remote_pipe") = << <<"pipe_number", 1>> >>
    /\ "send_data_ack" \in DOMAIN OFFSET_ACI_CMD_PARAMS
    /\ CmdParams("send_data_ack") = << <<"pipe_number", 1>> >>
    /\ "request_data" \in DOMAIN OFFSET_ACI_CMD_PARAMS
    /\ CmdParams("request_data") = << <<"pipe_number", 1>> >>
    /\ "open_adv_pipe" \in DOMAIN OFFSET_ACI_CMD_PARAMS
    /\ CmdParams("open_adv_pipe") = << <<"pipes", 8>> >>
  BY DEF OFFSET_ACI_CMD_PARAMS, CmdParams, link_cmd_params, pipe_cmd_params, Advertising, PipeNumber,
        aci_tx_data_t, aci_ll_conn_params_t, ACI_PIPE_TX_DATA_MAX_LEN, ACI_ECHO_DATA_MAX_LEN,
        ACI_PACKET_MAX_LEN

LEMMA TwoFieldStructs ==
    /\ "dtm_cmd" \in DOMAIN OFFSET_ACI_CMD_PARAMS
    /\ CmdParams("dtm_cmd") = << <<"cmd_msb", 1>>, <<"cmd_lsb", 1>> >>
    /\ "write_dynamic_data" \in DOMAIN OFFSET_ACI_CMD_PARAMS
    /\ CmdParams("write_dynamic_data") = << <<"seq_no", 1>>, <<"dynamic_data", 1>> >>
    /\ "set_local_data" \in DOMAIN OFFSET_ACI_CMD_PARAMS
    /\ CmdParams("set_local_data") = << <<"pipe_number", 1>>, <<"aci_data", 20>> >>
    /\ "send_data" \in DOMAIN OFFSET_ACI_CMD_PARAMS
    /\ CmdParams("send_data") = << <<"pipe_number", 1>>, <<"aci_data", 20>> >>
    /\ "connect" \in DOMAIN OFFSET_ACI_CMD_PARAMS
    /\ CmdParams("connect") = << <<"timeout", 2>>, <<"adv_interval", 2>> >>
    /\ "bond" \in DOMAIN OFFSET_ACI_CMD_PARAMS
    /\ CmdParams("bond") = << <<"timeout", 2>>, <<"adv_interval", 2>> >>
    /\ "broadcast" \in DOMAIN OFFSET_ACI_CMD_PARAMS
    /\ CmdParams("broadcast") = << <<"timeout", 2>>, <<"adv_interval", 2>> >>
    /\ "send_data_nack" \in DOMAIN OFFSET_ACI_CMD_PARAMS
    /\ CmdParams("send_data_nack") = << <<"pipe_number", 1>>, <<"error_code", 1>> >>
    /\ "set_app_latency" \in DOMAIN OFFSET_ACI_CMD_PARAMS
    /\ CmdParams("set_app_latency") = << <<"mode", 1>>, <<"latency", 2>> >>
    /\ "set_key" \in DOMAIN OFFSET_ACI_CMD_PARAMS
    /\ CmdParams("set_key") = << <<"key_type", 1>>, <<"key", 16>> >>
  BY DEF OFFSET_ACI_CMD_PARAMS, CmdParams, link_cmd_params, pipe_cmd_params, Advertising, PipeNumber,
        aci_tx_data_t, aci_ll_conn_params_t, ACI_PIPE_TX_DATA_MAX_LEN, ACI_ECHO_DATA_MAX_LEN,
        ACI_PACKET_MAX_LEN

LEMMA PlainAreCalls == \A c \in PlainCalls : IsCall(c)
<1> SUFFICES ASSUME NEW cmd \in
        {"sleep", "radio_reset", "connect_direct", "get_device_version", "wakeup",
         "get_device_address", "get_temperature", "get_battery_level",
         "bond_security_request", "read_dynamic_data", "change_timing"}
             PROVE  IsCall(Call(cmd, NoArguments))
  BY DEF PlainCalls
<1>1. cmd \in DOMAIN aci_cmd_opcode_t /\ cmd \notin DOMAIN OFFSET_ACI_CMD_PARAMS \ {"change_timing"}
  BY DEF aci_cmd_opcode_t, OFFSET_ACI_CMD_PARAMS
<1> QED
  BY <1>1 DEF IsCall, Call

LEMMA WordsAndBytes ==
    /\ \A x \in Nat : Byte(x) \in Seq(Bytes) /\ Len(Byte(x)) = 1
    /\ \A x \in Nat : Word(x) \in Seq(Bytes) /\ Len(Word(x)) = 2
    /\ \A n \in 0..99 : Data(n) \in Seq(Bytes) /\ Len(Data(n)) = n
  BY BytesOfValues

LEMMA AdvertisingCall ==
    ASSUME NEW cmd \in {"connect", "bond", "broadcast"}, NEW x \in Nat, NEW y \in Nat
    PROVE  IsCall(Call(cmd, [timeout |-> Word(x), adv_interval |-> Word(y)]))
<1> DEFINE args == [timeout |-> Word(x), adv_interval |-> Word(y)]
<1>1. DOMAIN args = {"timeout", "adv_interval"} /\ args["timeout"] = Word(x) /\ args["adv_interval"] = Word(y)
  OBVIOUS
<1>2. /\ cmd \in DOMAIN OFFSET_ACI_CMD_PARAMS /\ cmd \in DOMAIN aci_cmd_opcode_t /\ cmd # "set_key"
      /\ CmdParams(cmd) = << <<"timeout", 2>>, <<"adv_interval", 2>> >>
  BY TwoFieldStructs, CommandNames
<1>3. /\ Word(x) \in Seq(Bytes) /\ Len(Word(x)) = 2 /\ Word(y) \in Seq(Bytes) /\ Len(Word(y)) = 2
  BY WordsAndBytes
<1> HIDE DEF args
<1>4. IsCall(Call(cmd, args))
  BY <1>1, <1>2, <1>3, TwoArguments
<1> QED
  BY <1>4 DEF args

LEMMA DataCall ==
    ASSUME NEW cmd \in {"set_local_data", "send_data"}, NEW pipe \in Nat, NEW n \in 0..99
    PROVE  IsCall(Call(cmd, Sent(pipe, n)))
<1> DEFINE args == Sent(pipe, n)
<1>1. /\ DOMAIN args = {"pipe_number", "aci_data"}
      /\ args["pipe_number"] = Byte(pipe) /\ args["aci_data"] = Data(n)
  BY DEF Sent
<1>2. /\ cmd \in DOMAIN OFFSET_ACI_CMD_PARAMS /\ cmd \in DOMAIN aci_cmd_opcode_t /\ cmd # "set_key"
      /\ CmdParams(cmd) = << <<"pipe_number", 1>>, <<"aci_data", 20>> >>
      /\ "aci_data" \in CmdArrays
  BY TwoFieldStructs, CommandNames
<1>3. Byte(pipe) \in Seq(Bytes) /\ Len(Byte(pipe)) = 1 /\ Data(n) \in Seq(Bytes)
  BY WordsAndBytes
<1> HIDE DEF args
<1>4. IsCall(Call(cmd, args))
  BY <1>1, <1>2, <1>3, TwoArguments
<1> QED
  BY <1>4 DEF args

LEMMA PipeCall ==
    ASSUME NEW cmd \in {"request_data", "open_remote_pipe", "close_remote_pipe", "send_data_ack"},
           NEW pipe \in Nat
    PROVE  IsCall(Call(cmd, [pipe_number |-> Byte(pipe)]))
<1> DEFINE args == [pipe_number |-> Byte(pipe)]
<1>1. DOMAIN args = {"pipe_number"} /\ args["pipe_number"] = Byte(pipe)
  OBVIOUS
<1>2. /\ cmd \in DOMAIN OFFSET_ACI_CMD_PARAMS /\ cmd \in DOMAIN aci_cmd_opcode_t /\ cmd # "set_key"
      /\ CmdParams(cmd) = << <<"pipe_number", 1>> >>
  BY OneFieldStructs, CommandNames
<1>3. Byte(pipe) \in Seq(Bytes) /\ Len(Byte(pipe)) = 1
  BY WordsAndBytes
<1> HIDE DEF args
<1>4. IsCall(Call(cmd, args))
  BY <1>1, <1>2, <1>3, OneArgument
<1> QED
  BY <1>4 DEF args

(* The arguments of lib_aci_change_timing, four words.                     *)
LEMMA FourWords ==
    ASSUME NEW cmd, cmd \in DOMAIN aci_cmd_opcode_t, cmd \in DOMAIN OFFSET_ACI_CMD_PARAMS,
           cmd # "set_key", NEW f, NEW g, NEW h, NEW k,
           CmdParams(cmd) = << <<f, 2>>, <<g, 2>>, <<h, 2>>, <<k, 2>> >>,
           NEW args, DOMAIN args = {f, g, h, k},
           \A x \in {f, g, h, k} : args[x] \in Seq(Bytes) /\ Len(args[x]) = 2
    PROVE  IsCall(Call(cmd, args))
<1> DEFINE struct == CmdParams(cmd)
<1>1. /\ Len(struct) = 4 /\ \A i \in 1..Len(struct) : i = 1 \/ i = 2 \/ i = 3 \/ i = 4
      /\ struct[1][1] = f /\ struct[1][2] = 2 /\ struct[2][1] = g /\ struct[2][2] = 2
      /\ struct[3][1] = h /\ struct[3][2] = 2 /\ struct[4][1] = k /\ struct[4][2] = 2
  OBVIOUS
<1> HIDE DEF struct
<1>2. DOMAIN args = {struct[i][1] : i \in 1..Len(struct)}
  BY <1>1
<1>3. ASSUME NEW i \in 1..Len(struct)
      PROVE  args[struct[i][1]] \in Seq(Bytes) /\ Len(args[struct[i][1]]) = struct[i][2]
  BY <1>1
<1>4. ArgsFit(cmd, args)
  BY <1>2, <1>3 DEF ArgsFit, struct
<1> QED
  BY <1>4 DEF IsCall, Call

LEMMA TimingCall ==
    ASSUME NEW args, NEW a \in Nat, NEW b \in Nat, NEW c \in Nat, NEW d \in Nat,
           args = [min_conn_interval |-> Word(a), max_conn_interval |-> Word(b),
                   slave_latency |-> Word(c), timeout_mult |-> Word(d)]
    PROVE  IsCall(Call("change_timing", args))
<1>1. /\ "change_timing" \in DOMAIN OFFSET_ACI_CMD_PARAMS
      /\ "change_timing" \in DOMAIN aci_cmd_opcode_t
  BY DEF OFFSET_ACI_CMD_PARAMS, aci_cmd_opcode_t
<1>2. CmdParams("change_timing") = << <<"min_conn_interval", 2>>, <<"max_conn_interval", 2>>,
                                      <<"slave_latency", 2>>, <<"timeout_mult", 2>> >>
  BY DEF CmdParams, link_cmd_params, pipe_cmd_params, aci_ll_conn_params_t
<1>3. /\ DOMAIN args = {"min_conn_interval", "max_conn_interval", "slave_latency", "timeout_mult"}
      /\ args["min_conn_interval"] = Word(a) /\ args["max_conn_interval"] = Word(b)
      /\ args["slave_latency"] = Word(c) /\ args["timeout_mult"] = Word(d)
  OBVIOUS
<1>4. \A x \in {a, b, c, d} : Word(x) \in Seq(Bytes) /\ Len(Word(x)) = 2
  BY WordsAndBytes
<1>5. \A x \in {"min_conn_interval", "max_conn_interval", "slave_latency", "timeout_mult"} :
        args[x] \in Seq(Bytes) /\ Len(args[x]) = 2
  BY <1>3, <1>4
<1>6. "change_timing" # "set_key"
  OBVIOUS
<1>7. DOMAIN args = {"min_conn_interval", "max_conn_interval", "slave_latency", "timeout_mult"}
  BY <1>3
<1> QED
  BY <1>1, <1>2, <1>5, <1>6, <1>7, FourWords, ZenonT(60)

(* Two scalars, or a scalar and data.                                      *)
LEMMA ScalarsCall ==
    ASSUME NEW cmd, NEW f, NEW g, NEW n, f # g,
           cmd \in DOMAIN OFFSET_ACI_CMD_PARAMS, cmd # "set_key",
           CmdParams(cmd) = << <<f, 1>>, <<g, n>> >>,
           NEW x \in Nat, NEW v \in Seq(Bytes), g \in CmdArrays \/ Len(v) = n,
           NEW args, DOMAIN args = {f, g}, args[f] = Byte(x), args[g] = v
    PROVE  IsCall(Call(cmd, args))
<1>1. Byte(x) \in Seq(Bytes) /\ Len(Byte(x)) = 1 /\ cmd \in DOMAIN aci_cmd_opcode_t
  BY WordsAndBytes, CommandNames
<1> QED
  BY <1>1, TwoArguments

LEMMA ArgumentsAreCalls == \A c \in ArgumentCalls : IsCall(c)
<1> DEFINE x0102 == \h0102
           x0304 == \h0304
           x0506 == \h0506
           x0708 == \h0708
           x0203 == \h0203
           x80 == \h80
           C1 == Call("bond", [timeout |-> Word(x0102), adv_interval |-> Word(x0304)])
           C2 == Call("test", [test_mode_change |-> Byte(1)])
           C3 == Call("set_tx_power", [device_power |-> Byte(3)])
           C4 == Call("set_app_latency", [mode |-> Byte(1), latency |-> Word(x0203)])
           C5 == Call("dtm_cmd", [cmd_msb |-> Byte(1), cmd_lsb |-> Byte(2)])
           C6 == Call("send_data_ack", [pipe_number |-> Byte(11)])
           C7 == Call("send_data_nack", [pipe_number |-> Byte(11), error_code |-> Byte(x80)])
           C8 == Call("write_dynamic_data", [seq_no |-> Byte(1), dynamic_data |-> Data(27)])
           C9 == Call("change_timing",
                    [min_conn_interval |-> Word(x0102), max_conn_interval |-> Word(x0304),
                     slave_latency |-> Word(x0506), timeout_mult |-> Word(x0708)])
<1>1. /\ x0102 \in Nat /\ x0304 \in Nat /\ x0506 \in Nat /\ x0708 \in Nat
      /\ x0203 \in Nat /\ x80 \in Nat
  OBVIOUS
<1>2. ArgumentCalls = {C1, C2, C3, C4, C5, C6, C7, C8, C9}
  BY Zenon DEF ArgumentCalls
<1> HIDE DEF x0102, x0304, x0506, x0708, x0203, x80
<1>3. IsCall(C1)
  BY <1>1, AdvertisingCall
<1>4. IsCall(C2)
  <2> DEFINE args == [test_mode_change |-> Byte(1)]
  <2>1. DOMAIN args = {"test_mode_change"} /\ args["test_mode_change"] = Byte(1)
    OBVIOUS
  <2>2. /\ "test" \in DOMAIN OFFSET_ACI_CMD_PARAMS /\ "test" \in DOMAIN aci_cmd_opcode_t
        /\ CmdParams("test") = << <<"test_mode_change", 1>> >>
        /\ Byte(1) \in Seq(Bytes) /\ Len(Byte(1)) = 1
    BY OneFieldStructs, CommandNames, WordsAndBytes
  <2> HIDE DEF args
  <2>3. IsCall(Call("test", args))
    BY <2>1, <2>2, OneArgument
  <2> QED
    BY <2>3 DEF args
<1>5. IsCall(C3)
  <2> DEFINE args == [device_power |-> Byte(3)]
  <2>1. DOMAIN args = {"device_power"} /\ args["device_power"] = Byte(3)
    OBVIOUS
  <2>2. /\ "set_tx_power" \in DOMAIN OFFSET_ACI_CMD_PARAMS
        /\ "set_tx_power" \in DOMAIN aci_cmd_opcode_t
        /\ CmdParams("set_tx_power") = << <<"device_power", 1>> >>
        /\ Byte(3) \in Seq(Bytes) /\ Len(Byte(3)) = 1
    BY OneFieldStructs, CommandNames, WordsAndBytes
  <2> HIDE DEF args
  <2>3. IsCall(Call("set_tx_power", args))
    BY <2>1, <2>2, OneArgument
  <2> QED
    BY <2>3 DEF args
<1>6. IsCall(C4)
  <2> DEFINE args == [mode |-> Byte(1), latency |-> Word(x0203)]
  <2>1. DOMAIN args = {"mode", "latency"} /\ args["mode"] = Byte(1) /\ args["latency"] = Word(x0203)
    OBVIOUS
  <2>2. Word(x0203) \in Seq(Bytes) /\ Len(Word(x0203)) = 2
    BY <1>1, WordsAndBytes
  <2> HIDE DEF args
  <2>3. IsCall(Call("set_app_latency", args))
    BY <2>1, <2>2, TwoFieldStructs, ScalarsCall
  <2> QED
    BY <2>3 DEF args
<1>7. IsCall(C5)
  <2> DEFINE args == [cmd_msb |-> Byte(1), cmd_lsb |-> Byte(2)]
  <2>1. DOMAIN args = {"cmd_msb", "cmd_lsb"} /\ args["cmd_msb"] = Byte(1) /\ args["cmd_lsb"] = Byte(2)
    OBVIOUS
  <2>2. Byte(2) \in Seq(Bytes) /\ Len(Byte(2)) = 1
    BY WordsAndBytes
  <2> HIDE DEF args
  <2>3. IsCall(Call("dtm_cmd", args))
    BY <2>1, <2>2, TwoFieldStructs, ScalarsCall
  <2> QED
    BY <2>3 DEF args
<1>8. IsCall(C6)
  BY PipeCall
<1>9. IsCall(C7)
  <2> DEFINE args == [pipe_number |-> Byte(11), error_code |-> Byte(x80)]
  <2>1. /\ DOMAIN args = {"pipe_number", "error_code"}
        /\ args["pipe_number"] = Byte(11) /\ args["error_code"] = Byte(x80)
    OBVIOUS
  <2>2. Byte(x80) \in Seq(Bytes) /\ Len(Byte(x80)) = 1
    BY <1>1, WordsAndBytes
  <2> HIDE DEF args
  <2>3. IsCall(Call("send_data_nack", args))
    BY <2>1, <2>2, TwoFieldStructs, ScalarsCall
  <2> QED
    BY <2>3 DEF args
<1>10. IsCall(C8)
  <2> DEFINE args == [seq_no |-> Byte(1), dynamic_data |-> Data(27)]
  <2>1. /\ DOMAIN args = {"seq_no", "dynamic_data"}
        /\ args["seq_no"] = Byte(1) /\ args["dynamic_data"] = Data(27)
    OBVIOUS
  <2>2. Data(27) \in Seq(Bytes)
    BY WordsAndBytes
  <2> HIDE DEF args
  <2>3. IsCall(Call("write_dynamic_data", args))
    BY <2>1, <2>2, TwoFieldStructs, CommandNames, ScalarsCall
  <2> QED
    BY <2>3 DEF args
<1>11. IsCall(C9)
  BY <1>1, TimingCall
<1> HIDE DEF C1, C2, C3, C4, C5, C6, C7, C8, C9
<1> QED
  BY <1>2, <1>3, <1>4, <1>5, <1>6, <1>7, <1>8, <1>9, <1>10, <1>11

(* A key that is none, of the type that rejects, or a passkey.             *)
LEMMA KeyCall ==
    ASSUME NEW t \in Seq(Bytes), Len(t) = 1, NEW key \in Seq(Bytes),
           (t = Byte(0) /\ Len(key) = 0) \/ (t = Byte(1) /\ Len(key) = 6),
           NEW args, args = [key_type |-> t, key |-> key]
    PROVE  IsCall(Call("set_key", args))
<1>1. DOMAIN args = {"key_type", "key"} /\ args["key_type"] = t /\ args["key"] = key
  OBVIOUS
<1>2. /\ "set_key" \in DOMAIN OFFSET_ACI_CMD_PARAMS /\ "set_key" \in DOMAIN aci_cmd_opcode_t
      /\ CmdParams("set_key") = << <<"key_type", 1>>, <<"key", 16>> >>
      /\ "key" \in CmdArrays
  BY TwoFieldStructs, CommandNames
<1>3. KeyFits(args)
  BY <1>1 DEF KeyFits, ACI_KEY_TYPE_INVALID, ACI_KEY_TYPE_PASSKEY
<1> QED
  BY <1>1, <1>2, <1>3, TwoArguments, ZenonT(60)

LEMMA KeysAreCalls == \A c \in KeyCalls : IsCall(c)
<1> DEFINE none == <<>>
           data == Data(6)
           zero == Byte(0)
           one == Byte(1)
           A == [key_type |-> zero, key |-> none]
           B == [key_type |-> one, key |-> data]
<1>1. /\ zero \in Seq(Bytes) /\ Len(zero) = 1 /\ one \in Seq(Bytes) /\ Len(one) = 1
      /\ data \in Seq(Bytes) /\ Len(data) = 6 /\ none \in Seq(Bytes) /\ Len(none) = 0
  BY WordsAndBytes
<1>2. zero = Byte(0) /\ one = Byte(1)
  OBVIOUS
<1>3. KeyCalls = {Call("set_key", A), Call("set_key", B)}
  BY Zenon DEF KeyCalls
<1> HIDE DEF none, data, zero, one
<1>4. IsCall(Call("set_key", A))
  BY <1>1, <1>2, KeyCall
<1>5. IsCall(Call("set_key", B))
  BY <1>1, <1>2, KeyCall
<1> HIDE DEF A, B
<1> QED
  BY <1>3, <1>4, <1>5

LEMMA DataAreCalls == \A c \in DataCalls : IsCall(c)
<1>1. \A d \in Pipes \X Sizes : d[2] <= ACI_PIPE_TX_DATA_MAX_LEN => d[1] \in Nat /\ d[2] \in 0..99
  BY DEF Pipes, Sizes, ACI_PIPE_TX_DATA_MAX_LEN
<1> SUFFICES ASSUME NEW c \in DataCalls PROVE IsCall(c)
  OBVIOUS
<1>2. PICK d \in Pipes \X Sizes, cmd \in {"set_local_data", "send_data"} :
        d[2] <= ACI_PIPE_TX_DATA_MAX_LEN /\ c = Call(cmd, Sent(d[1], d[2]))
  BY Zenon DEF DataCalls
<1> QED
  BY <1>1, <1>2, DataCall

LEMMA EchoesAreCalls == \A c \in EchoCalls : IsCall(c)
<1>0. ASSUME NEW n \in 0..99
      PROVE  IsCall(Call("echo", [echo_data |-> Data(n)]))
  <2> DEFINE args == [echo_data |-> Data(n)]
  <2>1. DOMAIN args = {"echo_data"} /\ args["echo_data"] = Data(n)
    OBVIOUS
  <2>2. /\ "echo" \in DOMAIN OFFSET_ACI_CMD_PARAMS /\ "echo" \in DOMAIN aci_cmd_opcode_t
        /\ CmdParams("echo") = << <<"echo_data", 29>> >>
    BY OneFieldStructs, CommandNames
  <2>3. Data(n) \in Seq(Bytes) /\ "echo_data" \in CmdArrays
    BY WordsAndBytes, CommandNames
  <2> HIDE DEF args
  <2>4. IsCall(Call("echo", args))
    BY <2>1, <2>2, <2>3, OneArgument
  <2> QED
    BY <2>4 DEF args
<1> SUFFICES ASSUME NEW c \in EchoCalls PROVE IsCall(c)
  OBVIOUS
<1>1. PICK n \in {0, 1, ACI_ECHO_DATA_MAX_LEN, ACI_ECHO_DATA_MAX_LEN + 2} :
        c = Call("echo", [echo_data |-> Data(n)])
  BY Zenon DEF EchoCalls
<1>2. n \in 0..99
  BY DEF ACI_ECHO_DATA_MAX_LEN, ACI_PACKET_MAX_LEN
<1> QED
  BY <1>0, <1>1, <1>2, Zenon

LEMMA RemotesAreCalls == \A c \in RemoteCalls : IsCall(c)
<1> SUFFICES ASSUME NEW c \in RemoteCalls PROVE IsCall(c)
  OBVIOUS
<1> DEFINE call(cmd, p) == Call(cmd, [pipe_number |-> Byte(p)])
           remote(types) == {p \in Pipes : LocationOf(p) = "REMOTE" /\ TypeOf(p) \in types}
           asked == remote({"RX_REQ"})
           opened == remote({"RX", "RX_ACK_AUTO", "RX_ACK"})
<1>0. RemoteCalls = {call("request_data", p) : p \in asked}
            \cup {call(cmd, p) : cmd \in {"open_remote_pipe", "close_remote_pipe"}, p \in opened}
  BY DEF RemoteCalls
<1>3. asked \subseteq Pipes /\ opened \subseteq Pipes
  OBVIOUS
<1> HIDE DEF call, asked, opened
<1>1. PICK p \in Pipes, cmd \in {"request_data", "open_remote_pipe", "close_remote_pipe"} :
        c = call(cmd, p)
  BY <1>0, <1>3
<1>2. p \in Nat
  BY DEF Pipes
<1> QED
  BY <1>1, <1>2, PipeCall DEF call

LEMMA BroadcastsAreCalls == \A c \in BroadcastCalls : IsCall(c)
<1>1. \A d \in {0, 16383, 16384} \X {159, 160, 16384, 16385} : d[1] \in Nat /\ d[2] \in Nat
  OBVIOUS
<1> SUFFICES ASSUME NEW c \in BroadcastCalls PROVE IsCall(c)
  OBVIOUS
<1> DEFINE call(d) == Call("broadcast", [timeout |-> Word(d[1]), adv_interval |-> Word(d[2])])
           D == {d \in {0, 16383, 16384} \X {159, 160, 16384, 16385} :
                    d[1] <= 16383 /\ 160 <= d[2] /\ d[2] <= 16384}
<1>0. BroadcastCalls = {call(d) : d \in D}
  BY DEF BroadcastCalls
<1>2. \A d \in D : d[1] \in Nat /\ d[2] \in Nat
  BY <1>1
<1> HIDE DEF D, call
<1>3. PICK d \in D : c = call(d)
  BY <1>0
<1> QED
  BY <1>2, <1>3, AdvertisingCall DEF call

LEMMA LinkCallsAreCalls == IsCall(ConnectCall) /\ IsCall(DisconnectCall)
<1>1. IsCall(ConnectCall)
  <2> DEFINE x == \h0100
  <2>1. x \in Nat
    OBVIOUS
  <2>2. ConnectCall = Call("connect", [timeout |-> Word(0), adv_interval |-> Word(x)])
    BY Zenon DEF ConnectCall
  <2> HIDE DEF x
  <2> QED
    BY <2>1, <2>2, AdvertisingCall
<1>2. IsCall(DisconnectCall)
  <2> DEFINE args == [reason |-> Byte(1)]
  <2>1. DOMAIN args = {"reason"} /\ args["reason"] = Byte(1)
    OBVIOUS
  <2>2. /\ "disconnect" \in DOMAIN OFFSET_ACI_CMD_PARAMS /\ "disconnect" \in DOMAIN aci_cmd_opcode_t
        /\ CmdParams("disconnect") = << <<"reason", 1>> >>
        /\ Byte(1) \in Seq(Bytes) /\ Len(Byte(1)) = 1
    BY OneFieldStructs, CommandNames, WordsAndBytes
  <2> HIDE DEF args
  <2>3. IsCall(Call("disconnect", args))
    BY <2>1, <2>2, OneArgument
  <2> QED
    BY <2>3 DEF args, DisconnectCall
<1> QED
  BY <1>1, <1>2

LEMMA OpenAdvIsCall ==
    ASSUME NEW b \in Bitmaps
    PROVE  IsCall(OpenAdvPipeCall(b))
<1> DEFINE args == [pipes |-> b]
<1>1. DOMAIN args = {"pipes"} /\ args["pipes"] = b
  OBVIOUS
<1>2. /\ "open_adv_pipe" \in DOMAIN OFFSET_ACI_CMD_PARAMS
      /\ "open_adv_pipe" \in DOMAIN aci_cmd_opcode_t
      /\ CmdParams("open_adv_pipe") = << <<"pipes", 8>> >>
  BY OneFieldStructs, CommandNames
<1>3. b \in Seq(Bytes) /\ Len(b) = 8
  BY BytesOfValues
<1> HIDE DEF args
<1>4. IsCall(Call("open_adv_pipe", args))
  BY <1>1, <1>2, <1>3, OneArgument
<1> QED
  BY <1>4 DEF args, OpenAdvPipeCall

LEMMA CallsAreCalls == \A c \in Calls : IsCall(c)
<1>1. \A c \in SimpleCalls : IsCall(c)
  BY PlainAreCalls, ArgumentsAreCalls, KeysAreCalls, DataAreCalls, EchoesAreCalls,
     RemotesAreCalls, BroadcastsAreCalls DEF SimpleCalls
<1> QED
  BY <1>1, LinkCallsAreCalls, OpenAdvIsCall DEF Calls

-----------------------------------------------------------------------------
(* The commands that wait to be sent.                                      *)

QueuedCalls ==
    {[packet |-> msg_to_send(c), call |-> c] : c \in {d \in Calls : Fits(d)}}

CommandsInv == commands \in Seq(QueuedCalls) /\ Len(commands) <= QueueSize

(* hal_aci_tl_send copies a packet into the queue, and never one too many. *)
LEMMA CallJoins ==
    ASSUME CommandsInv, NEW call \in Calls, hal_aci_tl_send(call)
    PROVE  CommandsInv'
<1>1. CASE Sends(call)
  <2>1. Fits(call) /\ Len(commands) < QueueSize
    BY <1>1 DEF Sends, Fits
  <2> DEFINE x == [packet |-> msg_to_send(call), call |-> call]
  <2>2. x \in QueuedCalls
    BY <2>1 DEF QueuedCalls
  <2>3. commands' = Append(commands, x)
    BY <1>1 DEF hal_aci_tl_send
  <2> HIDE DEF x
  <2>4. /\ Append(commands, x) \in Seq(QueuedCalls)
        /\ Len(Append(commands, x)) = Len(commands) + 1 /\ Len(commands) \in Nat
    BY <2>2, AppendProperties, LenProperties DEF CommandsInv
  <2>5. Len(commands) + 1 <= QueueSize
    BY <2>1, <2>4, LibraryAssumption
  <2> QED
    BY <2>3, <2>4, <2>5 DEF CommandsInv
<1>2. CASE ~ Sends(call)
  BY <1>2 DEF hal_aci_tl_send, CommandsInv
<1> QED
  BY <1>1, <1>2

LEMMA CallLeaves ==
    ASSUME CommandsInv, commands # <<>>, commands' = Tail(commands)
    PROVE  CommandsInv'
<1>1. /\ Tail(commands) \in Seq(QueuedCalls) /\ Len(Tail(commands)) = Len(commands) - 1
      /\ Len(commands) \in Nat
  BY HeadTailProperties, EmptySeq, LenProperties DEF CommandsInv
<1>2. Len(Tail(commands)) <= QueueSize
  BY <1>1, LibraryAssumption DEF CommandsInv
<1> QED
  BY <1>1, <1>2 DEF CommandsInv

(* The program's record of the connection, and the bounds of the queues.   *)
RecordInv ==
    /\ Len(events) <= MaxEvents
    /\ status \in {"STANDBY", "CONNECTED"}
    /\ bitmaps.open \in Bitmaps /\ bitmaps.closed \in Bitmaps
    /\ \A f \in TimingFields : timing[f] \in Seq(Bytes)
    /\ disconnecting \in BOOLEAN

AdvInv == adv_pipes \in Bitmaps

LibraryInv == ViewInv /\ CommandsInv /\ RecordInv /\ AdvInv

LEMMA LibraryInit == Init => LibraryInv
<1> SUFFICES ASSUME Init PROVE LibraryInv
  OBVIOUS
<1>1. ViewInv
  BY ViewInit
<1>2. CommandsInv
  BY LibraryAssumption DEF Init, CommandsInv
<1>3. NoPipes \in Bitmaps
  BY NoPipesBits
<1>4. \A f \in TimingFields : timing[f] \in Seq(Bytes)
  <2>1. Word(0) \in Seq(Bytes)
    BY WordsAndBytes
  <2> QED
    BY <2>1, Zenon DEF Init
<1>5. Len(events) <= MaxEvents
  BY LibraryAssumption DEF Init
<1>6. RecordInv /\ AdvInv
  BY <1>3, <1>4, <1>5 DEF Init, RecordInv, AdvInv, BothEmpty
<1> QED
  BY <1>1, <1>2, <1>6 DEF LibraryInv

LEMMA ReportCounts ==
    ASSUME EventsInv, NEW r, Reported(r)
    PROVE  Len(events') <= MaxEvents
<1> DEFINE x == [packet |-> PacketOf(r), report |-> r]
<1>1. events' = Append(events, x) /\ Len(events) < MaxEvents
  BY DEF Reported
<1> HIDE DEF x
<1>2. Len(events) \in Nat /\ Len(events') = Len(events) + 1
  BY <1>1, LenProperties DEF EventsInv
<1> QED
  BY <1>1, <1>2, LibraryAssumption

(* What lib_aci_event_get reads are bitmaps and words.                     *)
LEMMA EventGetRecord == LibraryInv /\ EventGet => RecordInv'
<1> SUFFICES ASSUME LibraryInv, EventGet PROVE RecordInv'
  OBVIOUS
<1>1. events # <<>> /\ events' = Tail(events)
  BY DEF EventGet
<1>2. PICK r \in Reports : Head(events).packet = PacketOf(r)
  BY <1>1, ReportLeaves DEF LibraryInv, ViewInv
<1> DEFINE packet == PacketOf(r)
<1>3. /\ bitmaps' = bitmaps_after(r.evt, packet)
      /\ timing' = timing_after(r.evt, packet)
      /\ status' = CASE r.evt = "connected" -> "CONNECTED"
                     [] r.evt = "disconnected" -> "STANDBY"
                     [] OTHER -> status
      /\ disconnecting' = (disconnecting /\ r.evt # "disconnected")
  BY <1>2, ReportKinds DEF EventGet
<1> HIDE DEF packet
<1>4. Len(events') <= MaxEvents
  <2>1. Len(Tail(events)) = Len(events) - 1 /\ Len(events) \in Nat
    BY <1>1, HeadTailProperties, EmptySeq, LenProperties DEF LibraryInv, ViewInv, EventsInv
  <2>2. Len(events) <= MaxEvents /\ MaxEvents \in Nat
    BY LibraryAssumption DEF LibraryInv, RecordInv
  <2> QED
    BY <1>1, <2>1, <2>2
<1>5. status' \in {"STANDBY", "CONNECTED"}
  BY <1>3 DEF LibraryInv, RecordInv
<1>6. bitmaps'.open \in Bitmaps /\ bitmaps'.closed \in Bitmaps
  <2>1. CASE r.evt = "pipe_status"
    <3>1. PICK open \in OpenSets : r = PipeStatus(open)
      BY <2>1, ReportKinds
    <3>2. bitmaps' = BothOf(r.evt, packet)
      BY <1>3, <2>1 DEF bitmaps_after
    <3>3. bitmaps'.open = Bitmap(open) /\ bitmaps'.closed = Bitmap(Pipes \ open)
      BY <2>1, <3>1, <3>2, PipesRead, ReportNames DEF packet
    <3> QED
      BY <3>3, BitmapBits
  <2>2. CASE r.evt = "disconnected"
    BY <1>3, <2>2, NoPipesBits DEF bitmaps_after, BothEmpty
  <2>3. CASE r.evt \notin {"pipe_status", "disconnected"}
    <3>1. bitmaps' = bitmaps
      BY <1>3, <2>3 DEF bitmaps_after
    <3> QED
      BY <3>1 DEF LibraryInv, RecordInv
  <2> QED
    BY <2>1, <2>2, <2>3
<1>7. ASSUME NEW f \in TimingFields PROVE timing'[f] \in Seq(Bytes)
  <2>1. CASE r.evt \in OfTiming
    <3>1. timing' = [g \in TimingFields |-> Field(r.evt, packet, g)]
      BY <1>3, <2>1 DEF timing_after, OfTiming
    <3>2. timing'[f] = r.fields[f] /\ r.fields[f] \in Seq(Bytes)
      BY <2>1, <3>1, TimingRead DEF packet
    <3> QED
      BY <3>2
  <2>2. CASE r.evt \notin OfTiming
    <3>1. timing' = timing
      BY <1>3, <2>2 DEF timing_after, OfTiming
    <3> QED
      BY <3>1 DEF LibraryInv, RecordInv
  <2> QED
    BY <2>1, <2>2
<1>8. disconnecting' \in BOOLEAN
  BY <1>3 DEF LibraryInv, RecordInv
<1> QED
  BY <1>4, <1>5, <1>6, <1>7, <1>8 DEF RecordInv

LEMMA UnchangedRecord ==
    RecordInv /\ UNCHANGED <<events, status, bitmaps, timing, disconnecting>> => RecordInv'
  BY DEF RecordInv

LEMMA OpenAdvKeeps ==
    ASSUME LibraryInv, NEW b \in Bitmaps, adv_pipes' = b,
           hal_aci_tl_send(Call("open_adv_pipe", [pipes |-> b])),
           UNCHANGED <<events, status, bitmaps, timing, link, disconnecting>>
    PROVE  CommandsInv' /\ RecordInv' /\ AdvInv'
<1>1. OpenAdvPipeCall(b) \in Calls
  BY DEF Calls
<1>2. CommandsInv'
  BY <1>1, CallJoins DEF LibraryInv, OpenAdvPipeCall
<1>3. RecordInv' /\ AdvInv'
  BY UnchangedRecord DEF LibraryInv, AdvInv
<1> QED
  BY <1>2, <1>3

LEMMA LibraryStep == LibraryInv /\ [Next]_vars => LibraryInv'
<1> SUFFICES ASSUME LibraryInv, [Next]_vars PROVE LibraryInv'
  OBVIOUS
<1> USE DEF LibraryInv
<1>1. ViewInv'
  BY ViewStep
<1>2. CASE Send
  <2>1. PICK call \in SimpleCalls : hal_aci_tl_send(call)
    BY <1>2 DEF Send
  <2>2. CommandsInv'
    BY <2>1, CallJoins DEF Calls
  <2>3. RecordInv' /\ AdvInv'
    BY <1>2, UnchangedRecord DEF Send, library, AdvInv
  <2> QED
    BY <1>1, <2>2, <2>3
<1>3. CASE Connect
  <2>1. ConnectCall \in Calls /\ hal_aci_tl_send(ConnectCall)
    BY <1>3 DEF Connect, ConnectCall, Calls
  <2>2. CommandsInv'
    BY <2>1, CallJoins
  <2>3. RecordInv' /\ AdvInv'
    BY <1>3, UnchangedRecord DEF Connect, library, AdvInv
  <2> QED
    BY <1>1, <2>2, <2>3
<1>4. CASE Disconnect
  <2> DEFINE sends == Sends(DisconnectCall)
  <2>1. /\ hal_aci_tl_send(DisconnectCall)
        /\ IF sends THEN bitmaps' = BothEmpty ELSE UNCHANGED bitmaps
        /\ disconnecting' = (disconnecting \/ sends)
        /\ UNCHANGED <<events, status, timing, adv_pipes, link>>
    BY <1>4, Zenon DEF Disconnect, DisconnectCall
  <2> HIDE DEF sends
  <2>2. CommandsInv'
    BY <2>1, CallJoins DEF Calls
  <2>3. bitmaps'.open \in Bitmaps /\ bitmaps'.closed \in Bitmaps
    <3>1. BothEmpty.open \in Bitmaps /\ BothEmpty.closed \in Bitmaps
      BY NoPipesBits DEF BothEmpty
    <3>2. CASE sends
      BY <2>1, <3>1, <3>2
    <3>3. CASE ~ sends
      BY <2>1, <3>3 DEF RecordInv
    <3> QED
      BY <3>2, <3>3
  <2>4. RecordInv' /\ AdvInv'
    BY <2>1, <2>3 DEF RecordInv, AdvInv
  <2> QED
    BY <1>1, <2>2, <2>4
<1>5. CASE EventGet
  <2>1. CommandsInv' /\ AdvInv'
    BY <1>5 DEF EventGet, CommandsInv, AdvInv
  <2> QED
    BY <1>1, <1>5, <2>1, EventGetRecord
<1>6. ASSUME NEW pipe \in {1, 9}, OpenAdvPipe(pipe) PROVE LibraryInv'
  <2> DEFINE b == WithBit(adv_pipes, pipe)
  <2>1. b \in Bitmaps
    BY WithBitBitmap DEF AdvInv
  <2>2. /\ adv_pipes' = b /\ hal_aci_tl_send(Call("open_adv_pipe", [pipes |-> b]))
        /\ UNCHANGED <<events, status, bitmaps, timing, link, disconnecting>>
    BY <1>6 DEF OpenAdvPipe
  <2> HIDE DEF b
  <2> QED
    BY <1>1, <2>1, <2>2, OpenAdvKeeps
<1>7. ASSUME NEW pipes \in {{}, {8}}, OpenAdvPipes(pipes) PROVE LibraryInv'
  <2> DEFINE b == Bitmap(pipes)
  <2>1. b \in Bitmaps
    BY BitmapBits
  <2>2. /\ adv_pipes' = b /\ hal_aci_tl_send(Call("open_adv_pipe", [pipes |-> b]))
        /\ UNCHANGED <<events, status, bitmaps, timing, link, disconnecting>>
    BY <1>7 DEF OpenAdvPipes
  <2> HIDE DEF b
  <2> QED
    BY <1>1, <2>1, <2>2, OpenAdvKeeps
<1>8. CASE TakeCommand
  <2>1. CommandsInv'
    BY <1>8, CallLeaves DEF TakeCommand
  <2>2. Len(events') <= MaxEvents
    BY <1>8, ReportCounts DEF TakeCommand, ViewInv, RecordInv
  <2> QED
    BY <1>1, <1>8, <2>1, <2>2 DEF TakeCommand, library, RecordInv, AdvInv
<1>9. CASE PeerConnects
  <2>1. Len(events') <= MaxEvents
    BY <1>9, ReportCounts DEF PeerConnects, ViewInv
  <2>2. CommandsInv'
    BY <1>9, CallLeaves DEF PeerConnects
  <2> QED
    BY <1>1, <1>9, <2>1, <2>2 DEF PeerConnects, library, RecordInv, AdvInv
<1>10. CASE PipesChange
  <2>1. Len(events') <= MaxEvents
    BY <1>10, ReportCounts DEF PipesChange, ViewInv
  <2>2. CommandsInv'
    BY <1>10 DEF PipesChange, CommandsInv
  <2> QED
    BY <1>1, <1>10, <2>1, <2>2 DEF PipesChange, library, RecordInv, AdvInv
<1>11. CASE TimingChanges
  <2>1. Len(events') <= MaxEvents
    BY <1>11, ReportCounts DEF TimingChanges, ViewInv
  <2>2. CommandsInv'
    BY <1>11 DEF TimingChanges, CommandsInv
  <2> QED
    BY <1>1, <1>11, <2>1, <2>2 DEF TimingChanges, library, RecordInv, AdvInv
<1>12. CASE LinkIsLost
  <2>1. Len(events') <= MaxEvents
    BY <1>12, ReportCounts DEF LinkIsLost, ViewInv
  <2>2. CommandsInv'
    BY <1>12 DEF LinkIsLost, CommandsInv
  <2> QED
    BY <1>1, <1>12, <2>1, <2>2 DEF LinkIsLost, library, RecordInv, AdvInv
<1>13. CASE OtherEvent
  <2>1. Len(events') <= MaxEvents
    BY <1>13, ReportCounts DEF OtherEvent, ViewInv
  <2>2. CommandsInv'
    BY <1>13 DEF OtherEvent, CommandsInv
  <2> QED
    BY <1>1, <1>13, <2>1, <2>2 DEF OtherEvent, library, RecordInv, AdvInv
<1>14. CASE UNCHANGED vars
  BY <1>1, <1>14 DEF vars, library, RecordInv, AdvInv, CommandsInv
<1> QED
  BY <1>2, <1>3, <1>4, <1>5, <1>6, <1>7, <1>8, <1>9, <1>10, <1>11, <1>12, <1>13, <1>14 DEF Next

LEMMA LibraryInvariance == Spec => []LibraryInv
  BY LibraryInit, LibraryStep, PTL DEF Spec

(* A command that has been queued, by whichever function and with whatever *)
(* bytes an earlier one left in msg_to_send, is taken by the chip as it    *)
(* was asked for, whatever event the transfer crosses with.                *)
THEOREM CommandsAreWhatWasAsked == Spec => []CommandIsWhatWasAsked
<1>1. LibraryInv => CommandIsWhatWasAsked
  <2> SUFFICES ASSUME LibraryInv, NEW i \in 1..Len(commands), NEW other \in OtherPackets
               PROVE  LET packet == HeardOf(commands[i].packet, other)
                          call == commands[i].call
                          struct == CmdParams(call.cmd)
                      IN  /\ SizesFit(struct, call.args)
                          /\ [k \in 1..packet[0] |-> packet[k]]
                                = <<aci_cmd_opcode_t[call.cmd]>> \o Packed(struct, call.args)
    BY Zenon DEF CommandIsWhatWasAsked
  <2>1. commands[i] \in QueuedCalls
    BY ElementOfSeq DEF LibraryInv, CommandsInv
  <2>2. PICK c \in Calls : Fits(c) /\ commands[i] = [packet |-> msg_to_send(c), call |-> c]
    BY <2>1 DEF QueuedCalls
  <2>3. IsCall(c) /\ commands[i].packet = msg_to_send(c) /\ commands[i].call = c
    BY <2>2, CallsAreCalls
  <2> DEFINE heard == HeardOf(msg_to_send(c), other)
  <2>4. \A j \in 0..msg_to_send(c)[0] : heard[j] = msg_to_send(c)[j]
    BY <2>2, <2>3, CommandIsHeard
  <2> HIDE DEF heard
  <2>5. /\ SizesFit(CmdParams(c.cmd), c.args)
        /\ [k \in 1..heard[0] |-> heard[k]]
            = <<aci_cmd_opcode_t[c.cmd]>> \o Packed(CmdParams(c.cmd), c.args)
    BY <2>2, <2>3, <2>4, EveryCallIsTakenAsAsked, Zenon
  <2> QED
    BY <2>3, <2>5, Zenon DEF heard
<1> QED
  BY <1>1, LibraryInvariance, PTL

(* The buffers hold bytes, the bitmaps eight of them, and the queues no    *)
(* more packets than there is room for.                                    *)
THEOREM TypeCorrect == Spec => []TypeOK
<1>1. LibraryInv => TypeOK
  <2> SUFFICES ASSUME LibraryInv PROVE TypeOK
    OBVIOUS
  <2>1. ASSUME NEW i \in 1..Len(commands) PROVE commands[i].packet \in Packets
    <3>1. commands[i] \in QueuedCalls
      BY ElementOfSeq DEF LibraryInv, CommandsInv
    <3>2. PICK c \in Calls : Fits(c) /\ commands[i].packet = msg_to_send(c)
      BY <3>1 DEF QueuedCalls
    <3> QED
      BY <3>2, CallsAreCalls, CallPacket
  <2>2. ASSUME NEW i \in 1..Len(events) PROVE events[i].packet \in Packets
    <3>1. events[i] \in QueuedReports
      BY ElementOfSeq DEF LibraryInv, ViewInv, EventsInv
    <3>2. PICK r \in Reports : events[i].packet = PacketOf(r)
      BY <3>1 DEF QueuedReports, Queued
    <3> QED
      BY <3>2, ReportKinds
  <2> QED
    BY <2>1, <2>2 DEF TypeOK, LibraryInv, ViewInv, LinkInv, CommandsInv, RecordInv, AdvInv,
                      Packets, Bitmaps, Bytes
<1> QED
  BY <1>1, LibraryInvariance, PTL

=============================================================================
