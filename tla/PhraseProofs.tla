---------------------------- MODULE PhraseProofs ----------------------------
(***************************************************************************)
(* From the bytes of a text to the phrases that are found in it: that text *)
(* is read as it was written, how it is cut into tokens, that search_phrase *)
(* counts every occurrence of a phrase exactly once, and, from both, that  *)
(* an excerpt of a document is found in it.                                *)
(***************************************************************************)
EXTENDS PhraseSearch, Tokenizer, PostingsProofs

-----------------------------------------------------------------------------
(***************************************************************************)
(* Concatenation.                                                          *)
(***************************************************************************)
Builds(all, parts) ==
    /\ all[0] = <<>>
    /\ \A n \in 1..Len(parts) : all[n] = all[n - 1] \o parts[n]

LEMMA Concatenation ==
    ASSUME NEW S, NEW parts \in Seq(Seq(S))
    PROVE  \E all \in [0..Len(parts) -> Seq(S)] :
               Builds(all, parts) /\ Concatenated(parts) = all[Len(parts)]
  <1> DEFINE m == Len(parts)
             IsAll(all) == all = [n \in 0..m |-> IF n = 0 THEN <<>> ELSE all[n - 1] \o parts[n]]
             q == CHOOSE all : IsAll(all)
             step == [n \in Nat \ {0} |-> [x \in Seq(S) |-> IF n <= m THEN x \o parts[n] ELSE x]]
  <1>1. m \in Nat /\ \A n \in 1..m : parts[n] \in Seq(S)
    BY ElementOfSeq
  <1>2. Concatenated(parts) = q[m]
    BY DEF Concatenated
  <1>3. ASSUME NEW n \in Nat \ {0}, NEW x \in Seq(S)
        PROVE  (IF n <= m THEN x \o parts[n] ELSE x) \in Seq(S)
    <2>1. n <= m => n \in 1..m
      BY <1>1
    <2>2. n <= m => x \o parts[n] \in Seq(S)
      BY <1>1, <2>1
    <2> QED BY <2>2
  <1>4. step \in [Nat \ {0} -> [Seq(S) -> Seq(S)]]
    BY <1>3
  <1>5. ASSUME NEW n \in 1..m, NEW x \in Seq(S) PROVE step[n][x] = x \o parts[n]
    <2>1. n \in Nat \ {0} /\ n <= m
      BY <1>1
    <2> HIDE DEF m
    <2> QED BY <2>1
  <1>6. <<>> \in Seq(S)
    OBVIOUS
  <1> HIDE DEF m, q, step
  <1>7. PICK f \in [0..m -> Seq(S)] : Recursive(f, m, <<>>, step)
    BY <1>1, <1>4, <1>6, RecursionUpTo
  <1>8. f[0] = <<>> /\ \A n \in 1..m : f[n] = f[n - 1] \o parts[n]
    <2>1. ASSUME NEW n \in 1..m PROVE f[n] = f[n - 1] \o parts[n]
      <3>1. n - 1 \in 0..m
        BY <1>1
      <3>2. f[n] = step[n][f[n - 1]] /\ f[n - 1] \in Seq(S)
        BY <1>7, <3>1 DEF Recursive
      <3> QED BY <1>5, <3>2
    <2> QED BY <1>7, <2>1 DEF Recursive
  <1>9. IsAll(f)
    <2>1. \A n \in 0..m : f[n] = IF n = 0 THEN <<>> ELSE f[n - 1] \o parts[n]
      <3> TAKE n \in 0..m
      <3>1. n = 0 \/ n \in 1..m
        BY <1>1
      <3>2. CASE n = 0
        BY <1>8, <3>2
      <3>3. CASE n \in 1..m
        BY <1>8, <3>3
      <3> QED BY <3>1, <3>2, <3>3
    <2>2. f = [n \in 0..m |-> f[n]]
      BY <1>7
    <2> QED BY <2>1, <2>2
  <1>10. IsAll(q)
    BY <1>9 DEF q
  <1>11. q[0] = <<>> /\ \A n \in 1..m : q[n] = q[n - 1] \o parts[n]
    <2>1. \A n \in 0..m : q[n] = IF n = 0 THEN <<>> ELSE q[n - 1] \o parts[n]
      BY <1>10
    <2> HIDE DEF IsAll
    <2>2. 0 \in 0..m
      BY <1>1
    <2>3. ASSUME NEW n \in 1..m PROVE q[n] = q[n - 1] \o parts[n]
      <3>1. n \in 0..m /\ n # 0
        BY <1>1
      <3> QED BY <2>1, <3>1
    <2>4. q[0] = <<>>
      BY <2>1, <2>2
    <2> QED BY <2>3, <2>4
  <1>12. \A n \in 0..m : q[n] = f[n]
    <2>1. \A n \in 1..m : q[n - 1] = f[n - 1] => q[n] = f[n]
      BY <1>8, <1>11
    <2>2. q[0] = f[0] /\ m \in Nat
      BY <1>1, <1>8, <1>11
    <2> HIDE DEF IsAll
    <2>3. ASSUME NEW n \in 0..m PROVE q[n] = f[n]
      <3>1. n \in Nat /\ 1..n \subseteq 1..m
        BY <2>2
      <3>2. GoAlike(q, f, n)
        BY <2>1, <2>2, <3>1 DEF GoAlike
      <3> QED BY <3>1, <3>2, EndAlike
    <2> QED BY <2>3
  <1>13. m \in 0..m
    BY <1>1
  <1>14. Concatenated(parts) = f[m]
    BY <1>2, <1>12, <1>13
  <1>15. Builds(f, parts)
    BY <1>8 DEF Builds, m
  <1> QED BY <1>7, <1>14, <1>15 DEF m

\* Where the parts are in what is built of them.
Contains(whole, part, place) ==
    /\ place + Len(part) <= Len(whole)
    /\ \A i \in 1..Len(part) : whole[place + i] = part[i]

LEMMA PartsAreThere ==
    ASSUME NEW S, NEW parts \in Seq(Seq(S)), NEW all \in [0..Len(parts) -> Seq(S)],
           Builds(all, parts), NEW n \in 0..Len(parts)
    PROVE  \A k \in 1..n : /\ Len(all[k]) = Len(all[k - 1]) + Len(parts[k])
                           /\ Contains(all[n], parts[k], Len(all[k - 1]))
  <1> DEFINE m == Len(parts)
             Good(j) == \A k \in 1..j : Contains(all[j], parts[k], Len(all[k - 1]))
             G == {j \in 0..m : Good(j)}
  <1>1. /\ m \in Nat
        /\ \A k \in 1..m : parts[k] \in Seq(S) /\ all[k] \in Seq(S) /\ all[k - 1] \in Seq(S)
        /\ \A k \in 1..m : all[k] = all[k - 1] \o parts[k]
    <2>1. m \in Nat /\ \A k \in 1..m : parts[k] \in Seq(S)
      BY ElementOfSeq
    <2>2. ASSUME NEW k \in 1..m PROVE all[k] \in Seq(S) /\ all[k - 1] \in Seq(S)
      <3>1. k \in 0..m /\ k - 1 \in 0..m
        BY <2>1
      <3> QED BY <3>1
    <2>3. \A k \in 1..m : all[k] = all[k - 1] \o parts[k]
      BY DEF Builds
    <2> QED BY <2>1, <2>2, <2>3
  <1>2. ASSUME NEW k \in 1..m
        PROVE  /\ Len(all[k]) = Len(all[k - 1]) + Len(parts[k])
               /\ Len(all[k - 1]) \in Nat /\ Len(parts[k]) \in Nat
               /\ \A i \in 1..Len(all[k - 1]) : all[k][i] = all[k - 1][i]
               /\ \A i \in 1..Len(parts[k]) : all[k][Len(all[k - 1]) + i] = parts[k][i]
    <2> DEFINE x == all[k - 1]
               y == parts[k]
    <2>1. x \in Seq(S) /\ y \in Seq(S) /\ all[k] = x \o y
      BY <1>1
    <2> HIDE DEF x, y
    <2>2. /\ Len(x \o y) = Len(x) + Len(y) /\ Len(x) \in Nat /\ Len(y) \in Nat
          /\ \A i \in 1..Len(x) : (x \o y)[i] = x[i]
          /\ \A i \in 1..Len(y) : (x \o y)[Len(x) + i] = y[i]
      BY <2>1
    <2> QED BY <2>1, <2>2 DEF x, y
  <1>3. 0 \in G
    BY <1>1
  <1>4. ASSUME NEW j \in 1..m, j - 1 \in G PROVE j \in G
    <2>1. ASSUME NEW k \in 1..j PROVE Contains(all[j], parts[k], Len(all[k - 1]))
      <3>1. CASE k = j
        <4> DEFINE a == Len(all[j - 1])
                   p == parts[j]
                   v == all[j]
        <4>1. /\ Len(v) = a + Len(p) /\ a \in Nat /\ Len(p) \in Nat
              /\ \A i \in 1..Len(p) : v[a + i] = p[i]
          BY <1>2
        <4> HIDE DEF a, p, v
        <4>2. Contains(v, p, a)
          BY <4>1 DEF Contains
        <4> QED BY <3>1, <4>2 DEF a, p, v
      <3>2. CASE k # j
        <4>1. k \in 1..(j - 1) /\ k \in 1..m
          BY <3>2, <1>1
        <4>2. Contains(all[j - 1], parts[k], Len(all[k - 1]))
          BY <1>4, <4>1
        <4> DEFINE a == Len(all[k - 1])
                   p == parts[k]
                   w == all[j - 1]
                   v == all[j]
        <4>3. /\ a \in Nat /\ Len(p) \in Nat /\ Len(w) \in Nat
              /\ Len(v) = Len(w) + Len(parts[j]) /\ Len(parts[j]) \in Nat
              /\ \A i \in 1..Len(w) : v[i] = w[i]
          BY <1>2, <4>1
        <4>4. a + Len(p) <= Len(w) /\ \A i \in 1..Len(p) : w[a + i] = p[i]
          BY <4>2 DEF Contains
        <4> HIDE DEF a, p, w, v
        <4>5. \A i \in 1..Len(p) : a + i \in 1..Len(w)
          BY <4>3, <4>4
        <4>6. Contains(v, p, a)
          <5>1. \A i \in 1..Len(p) : v[a + i] = p[i]
            BY <4>3, <4>4, <4>5
          <5>2. a + Len(p) <= Len(v)
            BY <4>3, <4>4
          <5> QED BY <5>1, <5>2 DEF Contains
        <4> QED BY <4>6 DEF a, p, w, v
      <3> QED BY <3>1, <3>2
    <2> QED BY <1>1, <2>1
  <1> HIDE DEF G
  <1>5. 0..m \subseteq G
    BY <1>1, <1>3, <1>4, Induction
  <1>6. Good(n)
    BY <1>5 DEF G
  <1> HIDE DEF Good
  <1>7. \A k \in 1..n : k \in 1..m
    BY <1>1
  <1> QED BY <1>2, <1>6, <1>7 DEF Good

-----------------------------------------------------------------------------
(***************************************************************************)
(* One character.                                                          *)
(***************************************************************************)
LEMMA Quotients ==
    ASSUME NEW u, NEW z, NEW c, Extended(u, z, c)
    PROVE  /\ u \in Nat /\ z \in Nat /\ c \in Nat
           /\ u \div 64 = z
           /\ u % 64 = c
  BY DEF Extended

LEMMA QuotientOfQuotient ==
    ASSUME NEW u \in Nat
    PROVE  u \div 64 ^ 2 = (u \div 64) \div 64 /\ u \div 64 ^ 3 = ((u \div 64) \div 64) \div 64
  OBVIOUS

LEMMA SmallRemainder ==
    ASSUME NEW a \in Nat
    PROVE  /\ a < 32 => a % 32 = a
           /\ a < 16 => a % 16 = a
           /\ a < 8 => a % 8 = a
  OBVIOUS

\* What WithContinuations computes, when it is known step by step.
Continues(f, first, bytes) ==
    /\ Len(bytes) \in Nat
    /\ f \in [0..Len(bytes) -> Nat]
    /\ \A n \in 0..Len(bytes) : f[n] = IF n = 0 THEN first
                                       ELSE f[n - 1] * 64 + (bytes[n] % 64)

LEMMA Continued ==
    ASSUME NEW first, NEW bytes, NEW f, Continues(f, first, bytes)
    PROVE  WithContinuations(first, bytes) = f[Len(bytes)]
  <1> DEFINE m == Len(bytes)
             Step(x, n) == x * 64 + (bytes[n] % 64)
             IsAll(u) == u = [n \in 0..m |-> IF n = 0 THEN first ELSE Step(u[n - 1], n)]
             q == CHOOSE u : IsAll(u)
  <1>1. WithContinuations(first, bytes) = q[m]
    BY DEF WithContinuations
  <1>2. IsAll(f)
    <2>1. f = [n \in 0..m |-> f[n]]
      BY DEF Continues
    <2>2. \A n \in 0..m : f[n] = IF n = 0 THEN first ELSE Step(f[n - 1], n)
      BY DEF Continues
    <2> HIDE DEF Step, m
    <2> QED BY <2>1, <2>2
  <1>3. IsAll(q)
    BY <1>2
  <1> HIDE DEF Step, q
  <1>4. \A n \in 0..m : f[n] = IF n = 0 THEN first ELSE Step(f[n - 1], n)
    BY DEF Continues, Step
  <1>5. \A n \in 0..m : q[n] = IF n = 0 THEN first ELSE Step(q[n - 1], n)
    BY <1>3
  <1>6. m \in Nat
    BY DEF Continues
  <1> HIDE DEF m, IsAll
  <1>7. GoAlike(q, f, m)
    <2>1. 0 \in 0..m
      BY <1>6
    <2>2. q[0] = f[0]
      BY <1>4, <1>5, <2>1
    <2>3. ASSUME NEW n \in 1..m, q[n - 1] = f[n - 1] PROVE q[n] = f[n]
      <3>1. n \in 0..m /\ n # 0
        BY <1>6
      <3> QED BY <1>4, <1>5, <2>3, <3>1
    <2> QED BY <2>2, <2>3 DEF GoAlike
  <1>8. q[m] = f[m]
    BY <1>6, <1>7, EndAlike
  <1> QED BY <1>1, <1>8 DEF m

LEMMA ContinuationBits ==
    ASSUME NEW u, NEW z, NEW c, Extended(u, z, c)
    PROVE  z * 64 + ((128 + c) % 64) = u
  BY DEF Extended

LEMMA OneContinuation ==
    ASSUME NEW u, NEW a, NEW b, Extended(u, a, b),
           NEW rest, Len(rest) = 1, rest[1] = 128 + b
    PROVE  WithContinuations(a, rest) = u
  <1> DEFINE f == [n \in 0..1 |-> IF n = 0 THEN a ELSE u]
  <1>1. f[0] = a /\ f[1] = u
    OBVIOUS
  <1>2. u = a * 64 + (rest[1] % 64)
    BY ContinuationBits
  <1>3. \A n \in 0..1 : f[n] = IF n = 0 THEN a ELSE f[n - 1] * 64 + (rest[n] % 64)
    <2>1. f[1 - 1] = a
      BY <1>1
    <2>2. f[1] = f[1 - 1] * 64 + (rest[1] % 64)
      BY <1>1, <1>2, <2>1
    <2> HIDE DEF f
    <2> QED BY <1>1, <2>2
  <1>4. f \in [0..1 -> Nat]
    BY Quotients
  <1> HIDE DEF f
  <1>5. Continues(f, a, rest)
    BY <1>3, <1>4 DEF Continues
  <1>6. WithContinuations(a, rest) = f[Len(rest)]
    BY <1>5, Continued
  <1> QED BY <1>1, <1>6

LEMMA TwoContinuations ==
    ASSUME NEW u, NEW a, NEW b, NEW c, NEW z, Extended(z, a, b), Extended(u, z, c),
           NEW rest, Len(rest) = 2, rest[1] = 128 + b, rest[2] = 128 + c
    PROVE  WithContinuations(a, rest) = u
  <1> DEFINE f == [n \in 0..2 |-> IF n = 0 THEN a ELSE IF n = 1 THEN z ELSE u]
  <1>1. f[0] = a /\ f[1] = z /\ f[2] = u
    OBVIOUS
  <1>2. z = a * 64 + (rest[1] % 64) /\ u = z * 64 + (rest[2] % 64)
    BY ContinuationBits
  <1>3. \A n \in 0..2 : f[n] = IF n = 0 THEN a ELSE f[n - 1] * 64 + (rest[n] % 64)
    <2>1. f[1 - 1] = a /\ f[2 - 1] = z
      BY <1>1
    <2>2. f[1] = f[1 - 1] * 64 + (rest[1] % 64)
      BY <1>1, <1>2, <2>1
    <2>3. f[2] = f[2 - 1] * 64 + (rest[2] % 64)
      BY <1>1, <1>2, <2>1
    <2> HIDE DEF f
    <2> QED BY <1>1, <2>2, <2>3
  <1>4. f \in [0..2 -> Nat]
    BY Quotients
  <1> HIDE DEF f
  <1>5. Continues(f, a, rest)
    BY <1>3, <1>4 DEF Continues
  <1>6. WithContinuations(a, rest) = f[Len(rest)]
    BY <1>5, Continued
  <1> QED BY <1>1, <1>6

LEMMA ThreeContinuations ==
    ASSUME NEW u, NEW a, NEW b, NEW c, NEW d, NEW z, NEW y,
           Extended(z, a, b), Extended(y, z, c), Extended(u, y, d),
           NEW rest, Len(rest) = 3, rest[1] = 128 + b, rest[2] = 128 + c, rest[3] = 128 + d
    PROVE  WithContinuations(a, rest) = u
  <1> DEFINE f == [n \in 0..3 |-> IF n = 0 THEN a ELSE IF n = 1 THEN z
                                  ELSE IF n = 2 THEN y ELSE u]
  <1>1. f[0] = a /\ f[1] = z /\ f[2] = y /\ f[3] = u
    OBVIOUS
  <1>2. /\ z = a * 64 + (rest[1] % 64)
        /\ y = z * 64 + (rest[2] % 64)
        /\ u = y * 64 + (rest[3] % 64)
    BY ContinuationBits
  <1>3. \A n \in 0..3 : f[n] = IF n = 0 THEN a ELSE f[n - 1] * 64 + (rest[n] % 64)
    <2>1. f[1 - 1] = a /\ f[2 - 1] = z /\ f[3 - 1] = y
      BY <1>1
    <2>2. f[1] = f[1 - 1] * 64 + (rest[1] % 64)
      BY <1>1, <1>2, <2>1
    <2>3. f[2] = f[2 - 1] * 64 + (rest[2] % 64)
      BY <1>1, <1>2, <2>1
    <2>4. f[3] = f[3 - 1] * 64 + (rest[3] % 64)
      BY <1>1, <1>2, <2>1
    <2> HIDE DEF f
    <2> QED BY <1>1, <2>2, <2>3, <2>4
  <1>4. f \in [0..3 -> Nat]
    BY Quotients
  <1> HIDE DEF f
  <1>5. Continues(f, a, rest)
    BY <1>3, <1>4 DEF Continues
  <1>6. WithContinuations(a, rest) = f[Len(rest)]
    BY <1>5, Continued
  <1> QED BY <1>1, <1>6

\* utf8toutf32 reads the character back.
Decodes(u, bytes) ==
    IF Len(bytes) = 1 THEN bytes[1] = u
    ELSE \A rest :
            Len(rest) = Len(bytes) - 1 /\ (\A i \in 1..Len(rest) : rest[i] = bytes[i + 1])
            => WithContinuations(bytes[1] % 2 ^ (7 - Len(bytes)), rest) = u

\* utf32toutf8 writes what RFC 3629 says, and as many bytes as were counted.
EncodedRightly(u, bytes) ==
    /\ Decodes(u, bytes)
    /\ ToUtf8(u) = bytes
    /\ Size(u) = Len(bytes)
    /\ Skip(bytes[1]) = Len(bytes)

LongDecoded(u, bytes, k) ==
    \A rest : Len(rest) = k /\ (\A i \in 1..k : rest[i] = bytes[i + 1])
              => WithContinuations(bytes[1] % 2 ^ (6 - k), rest) = u

LEMMA LongDecodes ==
    ASSUME NEW u, NEW bytes, NEW k \in Nat \ {0}, Len(bytes) = k + 1,
           LongDecoded(u, bytes, k)
    PROVE  Decodes(u, bytes)
  <1>1. ASSUME NEW rest, Len(rest) = Len(bytes) - 1,
               \A i \in 1..Len(rest) : rest[i] = bytes[i + 1]
        PROVE  WithContinuations(bytes[1] % 2 ^ (7 - Len(bytes)), rest) = u
    <2>1. Len(rest) = k /\ \A i \in 1..k : rest[i] = bytes[i + 1]
      BY <1>1
    <2>2. 7 - Len(bytes) = 6 - k
      OBVIOUS
    <2> QED BY <2>1, <2>2 DEF LongDecoded
  <1>2. Len(bytes) # 1
    OBVIOUS
  <1> QED BY <1>1, <1>2, Zenon DEF Decodes

LEMMA OneByte ==
    ASSUME NEW u \in Nat, u < 2^7
    PROVE  EncodedRightly(u, <<u>>)
  <1>1. ToUtf8(u) = <<u>>
    BY DEF ToUtf8
  <1>2. Size(u) = 1
    BY DEF Size
  <1>3. Skip(u) = 1
    BY DEF Skip
  <1>4. Len(<<u>>) = 1 /\ <<u>>[1] = u
    OBVIOUS
  <1> QED BY <1>1, <1>2, <1>3, <1>4 DEF EncodedRightly, Decodes

LEMMA TwoBytes ==
    ASSUME NEW u \in Nat, 2^7 <= u, u < 2^11, NEW a \in Nat, a < 32, NEW b, Extended(u, a, b)
    PROVE  EncodedRightly(u, <<192 + a, 128 + b>>)
  <1>1. u \div 64 = a /\ u % 64 = b /\ b \in Nat
    BY Quotients
  <1>2. 192 + ((u \div 64) % 32) = 192 + a
    BY <1>1, SmallRemainder
  <1>3. Continuation(u, 0) = 128 + b
    BY <1>1 DEF Continuation
  <1>4. ToUtf8(u) = <<192 + ((u \div 64) % 32), Continuation(u, 0)>>
    BY DEF ToUtf8
  <1>5. Size(u) = 2
    BY DEF Size
  <1>6. Skip(192 + a) = 2
    BY DEF Skip
  <1> DEFINE x == 192 + a
             y == 128 + b
  <1>10. x % 32 = a
    OBVIOUS
  <1>11. ASSUME NEW rest, Len(rest) = 1, rest[1] = y PROVE WithContinuations(x % 32, rest) = u
    BY <1>10, <1>11, OneContinuation
  <1> HIDE DEF x, y
  <1>7. Len(<<x, y>>) = 2 /\ <<x, y>>[1] = x
    OBVIOUS
  <1>12. Decodes(u, <<x, y>>)
    <2> DEFINE bytes == <<x, y>>
    <2>1. ASSUME NEW rest, Len(rest) = 1, \A i \in 1..1 : rest[i] = bytes[i + 1]
          PROVE  WithContinuations(bytes[1] % 2 ^ (6 - 1), rest) = u
      <3>2. rest[1] = y
        BY <2>1
      <3>3. 2 ^ (6 - 1) = 32
        OBVIOUS
      <3> QED BY <1>7, <1>11, <2>1, <3>2, <3>3
    <2>2. Len(bytes) = 1 + 1 /\ 1 \in Nat \ {0}
      BY <1>7
    <2> HIDE DEF bytes
    <2>3. LongDecoded(u, bytes, 1)
      BY <2>1, Zenon DEF LongDecoded
    <2>4. Decodes(u, bytes)
      BY <2>2, <2>3, LongDecodes, Zenon
    <2> QED BY <2>4 DEF bytes
  <1> QED BY <1>2, <1>3, <1>4, <1>5, <1>6, <1>7, <1>12 DEF EncodedRightly, x, y

LEMMA ThreeBytes ==
    ASSUME NEW u \in Nat, 2^11 <= u, u < 2^16, NEW a \in Nat, a < 16, NEW b, NEW c, NEW z,
           Extended(z, a, b), Extended(u, z, c)
    PROVE  EncodedRightly(u, <<224 + a, 128 + b, 128 + c>>)
  <1>1. u \div 64 = z /\ u % 64 = c /\ c \in Nat
    BY Quotients
  <1>2. z \div 64 = a /\ z % 64 = b /\ b \in Nat
    BY Quotients
  <1>3. u \div 64 ^ 2 = a
    BY <1>1, <1>2, QuotientOfQuotient
  <1>4. 224 + ((u \div 64 ^ 2) % 16) = 224 + a
    BY <1>3, SmallRemainder
  <1>5. Continuation(u, 0) = 128 + c
    BY <1>1 DEF Continuation
  <1>6. Continuation(u, 1) = 128 + b
    BY <1>1, <1>2 DEF Continuation
  <1>7. ToUtf8(u) = <<224 + ((u \div 64 ^ 2) % 16), Continuation(u, 1), Continuation(u, 0)>>
    BY DEF ToUtf8
  <1>8. Size(u) = 3
    BY DEF Size
  <1>9. Skip(224 + a) = 3
    BY DEF Skip
  <1> DEFINE x == 224 + a
             y == 128 + b
             w == 128 + c
  <1>11. x % 16 = a
    OBVIOUS
  <1>12. ASSUME NEW rest, Len(rest) = 2, rest[1] = y, rest[2] = w
         PROVE  WithContinuations(x % 16, rest) = u
    BY <1>11, <1>12, TwoContinuations
  <1> HIDE DEF x, y, w
  <1>10. Len(<<x, y, w>>) = 3 /\ <<x, y, w>>[1] = x
    OBVIOUS
  <1>13. Decodes(u, <<x, y, w>>)
    <2> DEFINE bytes == <<x, y, w>>
    <2>1. ASSUME NEW rest, Len(rest) = 2, \A i \in 1..2 : rest[i] = bytes[i + 1]
          PROVE  WithContinuations(bytes[1] % 2 ^ (6 - 2), rest) = u
      <3>2. rest[1] = y /\ rest[2] = w
        BY <2>1
      <3>3. 2 ^ (6 - 2) = 16
        OBVIOUS
      <3> QED BY <1>10, <1>12, <2>1, <3>2, <3>3
    <2>2. Len(bytes) = 2 + 1 /\ 2 \in Nat \ {0}
      BY <1>10
    <2> HIDE DEF bytes
    <2>3. LongDecoded(u, bytes, 2)
      BY <2>1, Zenon DEF LongDecoded
    <2>4. Decodes(u, bytes)
      BY <2>2, <2>3, LongDecodes, Zenon
    <2> QED BY <2>4 DEF bytes
  <1> QED BY <1>4, <1>5, <1>6, <1>7, <1>8, <1>9, <1>10, <1>13 DEF EncodedRightly, x, y, w

\* u is made of the bits of a and three times six more; z and y are on the way.
MadeOf(u, a, b, c, d, z, y) ==
    /\ u \in Nat /\ 2^16 <= u /\ a \in Nat /\ a < 8
    /\ Extended(z, a, b) /\ Extended(y, z, c) /\ Extended(u, y, d)

FourOf(a, b, c, d) == <<240 + a, 128 + b, 128 + c, 128 + d>>

LEMMA FourBytes ==
    ASSUME NEW u, NEW a, NEW b, NEW c, NEW d, NEW z, NEW y, MadeOf(u, a, b, c, d, z, y)
    PROVE  EncodedRightly(u, FourOf(a, b, c, d))
  <1>0. /\ u \in Nat /\ 2^16 <= u /\ a \in Nat /\ a < 8
        /\ Extended(z, a, b) /\ Extended(y, z, c) /\ Extended(u, y, d)
    BY DEF MadeOf
  <1>1. u \div 64 = y /\ u % 64 = d /\ d \in Nat
    BY <1>0, Quotients
  <1>2. y \div 64 = z /\ y % 64 = c /\ c \in Nat
    BY <1>0, Quotients
  <1>3. z \div 64 = a /\ z % 64 = b /\ b \in Nat
    BY <1>0, Quotients
  <1>4. u \div 64 ^ 2 = z /\ u \div 64 ^ 3 = a
    <2>1. u \div 64 ^ 2 = (u \div 64) \div 64 /\ u \div 64 ^ 3 = ((u \div 64) \div 64) \div 64
      BY <1>0, QuotientOfQuotient
    <2> QED BY <1>1, <1>2, <1>3, <2>1, Zenon
  <1>5. 240 + ((u \div 64 ^ 3) % 8) = 240 + a
    <2>1. a % 8 = a
      BY <1>0, SmallRemainder
    <2> QED BY <1>4, <2>1, Zenon
  <1>6. Continuation(u, 0) = 128 + d
    <2>1. u \in Nat
      BY <1>0
    <2> QED BY <1>1, <2>1 DEF Continuation
  <1>7. Continuation(u, 1) = 128 + c
    BY <1>1, <1>2 DEF Continuation
  <1>8. Continuation(u, 2) = 128 + b
    BY <1>3, <1>4 DEF Continuation
  <1>9. ToUtf8(u) = <<240 + ((u \div 64 ^ 3) % 8), Continuation(u, 2), Continuation(u, 1),
                      Continuation(u, 0)>>
    BY <1>0 DEF ToUtf8
  <1>10. Size(u) = 4
    BY <1>0 DEF Size
  <1>11. Skip(240 + a) = 4
    BY <1>0 DEF Skip
  <1> DEFINE x1 == 240 + a
             x2 == 128 + b
             x3 == 128 + c
             x4 == 128 + d
  <1>13. x1 % 8 = a
    BY <1>0
  <1>14. ASSUME NEW rest, Len(rest) = 3, rest[1] = x2, rest[2] = x3, rest[3] = x4
         PROVE  WithContinuations(x1 % 8, rest) = u
    BY <1>0, <1>13, <1>14, ThreeContinuations
  <1> HIDE DEF x1, x2, x3, x4
  <1>12. Len(<<x1, x2, x3, x4>>) = 4 /\ <<x1, x2, x3, x4>>[1] = x1
    OBVIOUS
  <1>15. Decodes(u, <<x1, x2, x3, x4>>)
    <2> DEFINE bytes == <<x1, x2, x3, x4>>
    <2>1. ASSUME NEW rest, Len(rest) = 3, \A i \in 1..3 : rest[i] = bytes[i + 1]
          PROVE  WithContinuations(bytes[1] % 2 ^ (6 - 3), rest) = u
      <3>2. rest[1] = x2 /\ rest[2] = x3 /\ rest[3] = x4
        BY <2>1
      <3>3. 2 ^ (6 - 3) = 8
        OBVIOUS
      <3> QED BY <1>12, <1>14, <2>1, <3>2, <3>3
    <2>2. Len(bytes) = 3 + 1 /\ 3 \in Nat \ {0}
      BY <1>12
    <2> HIDE DEF bytes
    <2>3. LongDecoded(u, bytes, 3)
      BY <2>1, Zenon DEF LongDecoded
    <2>4. Decodes(u, bytes)
      BY <2>2, <2>3, LongDecodes, Zenon
    <2> QED BY <2>4 DEF bytes
  <1> QED BY <1>5, <1>6, <1>7, <1>8, <1>9, <1>10, <1>11, <1>12, <1>15
          DEF EncodedRightly, FourOf, x1, x2, x3, x4

LEMMA SmallNumber ==
    ASSUME NEW n \in Nat, NEW x \in 0..n
    PROVE  x \in Nat /\ x < n + 1
  OBVIOUS

\* A character of each length: what it is made of.
LEMMA AllEncodedRightly ==
    ASSUME NEW u, NEW bytes, IsEncoding(bytes, u)
    PROVE  EncodedRightly(u, bytes) /\ bytes \in Seq(Nat) /\ Len(bytes) \in Nat /\ Len(bytes) > 0
  <1> DEFINE Typed == bytes \in Seq(Nat) /\ Len(bytes) \in Nat /\ Len(bytes) > 0
  <1>1. u \in Nat
    BY DEF IsEncoding
  <1>2. CASE InOneByte(bytes, u)
    <2>1. u < 2^7 /\ bytes = <<u>>
      BY <1>2 DEF InOneByte
    <2> QED BY <1>1, <2>1, OneByte
  <1>3. CASE InTwoBytes(bytes, u)
    <2>1. 2^7 <= u /\ u < 2^11
      BY <1>3, Zenon DEF InTwoBytes
    <2>2. PICK a \in 0..31, b \in 0..63 : Extended(u, a, b) /\ bytes = <<192 + a, 128 + b>>
      BY <1>3, Zenon DEF InTwoBytes
    <2>3. a \in Nat /\ a < 32 /\ b \in Nat
      OBVIOUS
    <2> DEFINE x == 192 + a
               y == 128 + b
    <2>4. x \in Nat /\ y \in Nat
      BY <2>3
    <2>5. bytes = <<x, y>>
      BY <2>2
    <2>6. EncodedRightly(u, <<x, y>>)
      BY <1>1, <2>1, <2>2, <2>3, TwoBytes
    <2> HIDE DEF x, y
    <2> QED BY <2>4, <2>5, <2>6
  <1>4. CASE InThreeBytes(bytes, u)
    <2>1. 2^11 <= u /\ u < 2^16
      BY <1>4, Zenon DEF InThreeBytes
    <2>2. PICK a \in 0..15, b, c \in 0..63 :
              Extended(u, a * 64 + b, c) /\ bytes = <<224 + a, 128 + b, 128 + c>>
      BY <1>4, Zenon DEF InThreeBytes
    <2>3. a \in Nat /\ a < 16 /\ b \in Nat /\ c \in Nat
      OBVIOUS
    <2> DEFINE z == a * 64 + b
               x == 224 + a
               y == 128 + b
               w == 128 + c
    <2>4. Extended(z, a, b)
      BY <2>3 DEF Extended
    <2>5. Extended(u, z, c)
      BY <2>2
    <2>6. x \in Nat /\ y \in Nat /\ w \in Nat
      BY <2>3
    <2>7. bytes = <<x, y, w>>
      BY <2>2
    <2> HIDE DEF z
    <2>8. EncodedRightly(u, <<x, y, w>>)
      BY <1>1, <2>1, <2>3, <2>4, <2>5, ThreeBytes, ZenonT(60)
    <2> HIDE DEF x, y, w
    <2> QED BY <2>6, <2>7, <2>8
  <1>5. CASE InFourBytes(bytes, u)
    <2>1. 2^16 <= u
      BY <1>5 DEF InFourBytes
    <2>2. PICK a \in 0..7, b, c, d \in 0..63 :
              /\ Extended(u, (a * 64 + b) * 64 + c, d)
              /\ bytes = <<240 + a, 128 + b, 128 + c, 128 + d>>
      BY <1>5, Zenon DEF InFourBytes
    <2>3. a \in Nat /\ a < 8 /\ b \in Nat /\ c \in Nat /\ d \in Nat
      OBVIOUS
    <2> DEFINE z == a * 64 + b
               y == z * 64 + c
               x1 == 240 + a
               x2 == 128 + b
               x3 == 128 + c
               x4 == 128 + d
    <2>4. Extended(z, a, b) /\ z \in Nat
      BY <2>3 DEF Extended
    <2>5. Extended(u, y, d)
      BY <2>2
    <2>6. x1 \in Nat /\ x2 \in Nat /\ x3 \in Nat /\ x4 \in Nat
      BY <2>3
    <2>7. bytes = <<x1, x2, x3, x4>>
      BY <2>2
    <2> HIDE DEF z
    <2>8. Extended(y, z, c)
      BY <2>4 DEF Extended
    <2> HIDE DEF y
    <2>9. EncodedRightly(u, <<x1, x2, x3, x4>>)
      <3>1. MadeOf(u, a, b, c, d, z, y)
        BY <1>1, <2>1, <2>3, <2>4, <2>5, <2>8, Zenon DEF MadeOf
      <3>2. EncodedRightly(u, FourOf(a, b, c, d))
        BY <3>1, FourBytes, Zenon
      <3> QED BY <3>2 DEF FourOf
    <2> HIDE DEF x1, x2, x3, x4
    <2> QED BY <2>6, <2>7, <2>9
  <1> QED BY <1>2, <1>3, <1>4, <1>5 DEF IsEncoding

LEMMA ReadBack ==
    ASSUME NEW u, NEW bytes, IsEncoding(bytes, u),
           NEW string \in Seq(Nat), NEW n \in Nat, Contains(string, bytes, n)
    PROVE  Skip(string[n + 1]) = Len(bytes) /\ CharacterAt(string, n + 1) = u
  <1> DEFINE m == Len(bytes)
             b == string[n + 1]
             rest == SubSeq(string, n + 1 + 1, n + 1 + m - 1)
  <1>1. EncodedRightly(u, bytes) /\ bytes \in Seq(Nat) /\ m \in Nat /\ m > 0
    BY AllEncodedRightly
  <1>2. n + m <= Len(string) /\ \A i \in 1..m : string[n + i] = bytes[i]
    BY DEF Contains
  <1>3. b = bytes[1] /\ Skip(b) = m
    BY <1>1, <1>2 DEF EncodedRightly
  <1>4. Len(rest) = m - 1 /\ \A i \in 1..(m - 1) : rest[i] = bytes[i + 1]
    <2>1. Len(string) \in Nat
      OBVIOUS
    <2>2. n + 1 + m - 1 = n + m /\ n + 1 + 1 = n + 2
      BY <1>1
    <2> HIDE DEF m
    <2>3. rest = SubSeq(string, n + 2, n + m)
      BY <2>2
    <2>4. Len(rest) = m - 1 /\ \A i \in 1..(m - 1) : rest[i] = string[n + 2 + i - 1]
      <3>1. n + 2 \in 1..(Len(string) + 1) /\ n + m \in (n + 1)..Len(string)
        BY <1>1, <1>2, <2>1
      <3> QED BY <1>1, <2>1, <2>3, <3>1
    <2>5. ASSUME NEW i \in 1..(m - 1) PROVE rest[i] = bytes[i + 1]
      <3>1. i + 1 \in 1..m /\ n + 2 + i - 1 = n + (i + 1)
        BY <1>1
      <3> QED BY <1>2, <2>4, <3>1
    <2> QED BY <2>4, <2>5
  <1>5. Decodes(u, bytes)
    BY <1>1 DEF EncodedRightly
  <1>6. CharacterAt(string, n + 1) =
            IF m = 1 THEN b ELSE WithContinuations(b % 2 ^ (7 - m), rest)
    BY <1>3 DEF CharacterAt
  <1> HIDE DEF m, b, rest
  <1>7. CASE m = 1
    BY <1>3, <1>5, <1>6, <1>7 DEF Decodes, m, b
  <1>8. CASE m # 1
    <2>1. WithContinuations(bytes[1] % 2 ^ (7 - m), rest) = u
      BY <1>4, <1>5, <1>8 DEF Decodes, m
    <2> QED BY <1>3, <1>6, <1>8, <2>1 DEF b, m
  <1> QED BY <1>3, <1>7, <1>8 DEF m, b

-----------------------------------------------------------------------------
(***************************************************************************)
(* A text.                                                                 *)
(***************************************************************************)
Parts(s) == [i \in 1..Len(s) |-> Encoding[s[i]]]

LEMMA PartTypes ==
    ASSUME NEW s \in Seq(Characters)
    PROVE  /\ Parts(s) \in Seq(Seq(Nat)) /\ Len(Parts(s)) = Len(s)
           /\ \A i \in 1..Len(s) : /\ Parts(s)[i] = Encoding[s[i]]
                                   /\ IsEncoding(Parts(s)[i], s[i])
                                   /\ Len(Parts(s)[i]) \in Nat /\ Len(Parts(s)[i]) > 0
                                   /\ ToUtf8(s[i]) = Parts(s)[i]
                                   /\ Size(s[i]) = Len(Parts(s)[i])
  <1>1. Len(s) \in Nat /\ \A i \in 1..Len(s) : s[i] \in Characters
    BY ElementOfSeq
  <1>2. \A u \in Characters : IsEncoding(Encoding[u], u)
    BY CharactersAssumption
  <1>3. ASSUME NEW i \in 1..Len(s)
        PROVE  /\ Parts(s)[i] = Encoding[s[i]]
               /\ IsEncoding(Parts(s)[i], s[i])
               /\ Parts(s)[i] \in Seq(Nat)
               /\ Len(Parts(s)[i]) \in Nat /\ Len(Parts(s)[i]) > 0
               /\ ToUtf8(s[i]) = Parts(s)[i]
               /\ Size(s[i]) = Len(Parts(s)[i])
    <2>1. Parts(s)[i] = Encoding[s[i]]
      BY DEF Parts
    <2>2. IsEncoding(Parts(s)[i], s[i])
      BY <1>1, <1>2, <2>1
    <2>3. /\ EncodedRightly(s[i], Parts(s)[i]) /\ Parts(s)[i] \in Seq(Nat)
          /\ Len(Parts(s)[i]) \in Nat /\ Len(Parts(s)[i]) > 0
      BY <2>2, AllEncodedRightly
    <2> QED BY <2>1, <2>2, <2>3 DEF EncodedRightly
  <1>4. Parts(s) = [i \in 1..Len(s) |-> Parts(s)[i]]
    BY DEF Parts
  <1>5. Parts(s) \in [1..Len(s) -> Seq(Nat)]
    BY <1>3, <1>4
  <1>6. Parts(s) \in Seq(Seq(Nat)) /\ Len(Parts(s)) = Len(s)
    BY <1>1, <1>5, FunctionIsSeq
  <1> QED BY <1>3, <1>6

\* The bytes of the first characters.
BytesUpTo(all, s) ==
    /\ all \in [0..Len(s) -> Seq(Nat)]
    /\ all[0] = <<>>
    /\ all[Len(s)] = Bytes(s)
    /\ \A n \in 1..Len(s) : /\ Len(all[n - 1]) \in Nat /\ Len(all[n]) \in Nat
                            /\ Len(all[n]) = Len(all[n - 1]) + Len(Parts(s)[n])
                            /\ Contains(Bytes(s), Parts(s)[n], Len(all[n - 1]))

LEMMA BytesAreBuilt ==
    ASSUME NEW s \in Seq(Characters)
    PROVE  \E all : BytesUpTo(all, s)
  <1> DEFINE p == Parts(s)
             m == Len(s)
  <1>1. p \in Seq(Seq(Nat)) /\ Len(p) = m /\ m \in Nat
    BY PartTypes
  <1>2. Bytes(s) = Concatenated(p)
    BY DEF Bytes, Parts
  <1> HIDE DEF p, m
  <1>3. PICK all \in [0..Len(p) -> Seq(Nat)] :
            Builds(all, p) /\ Concatenated(p) = all[Len(p)]
    BY <1>1, Concatenation
  <1>4. Len(p) \in 0..Len(p)
    BY <1>1
  <1>5. \A k \in 1..Len(p) : /\ Len(all[k]) = Len(all[k - 1]) + Len(p[k])
                             /\ Contains(all[Len(p)], p[k], Len(all[k - 1]))
    BY <1>1, <1>3, <1>4, PartsAreThere
  <1>6. \A k \in 1..m : Len(all[k]) \in Nat /\ Len(all[k - 1]) \in Nat
    <2>1. ASSUME NEW k \in 1..m PROVE Len(all[k]) \in Nat /\ Len(all[k - 1]) \in Nat
      <3>1. k \in 0..Len(p) /\ k - 1 \in 0..Len(p)
        BY <1>1
      <3>2. all[k] \in Seq(Nat) /\ all[k - 1] \in Seq(Nat)
        BY <3>1
      <3> QED BY <3>2
    <2> QED BY <2>1
  <1>7. BytesUpTo(all, s)
    BY <1>1, <1>2, <1>3, <1>5, <1>6 DEF BytesUpTo, Builds, p, m
  <1> QED BY <1>7

\* A text is written as the program was given it, and a 0 behind it.
LEMMA WrittenAsGiven ==
    ASSUME NEW s \in Seq(Characters)
    PROVE  utf32toutf8(s) = Append(Bytes(s), 0)
  <1>1. [i \in 1..Len(s) |-> ToUtf8(s[i])] = [i \in 1..Len(s) |-> Encoding[s[i]]]
    BY PartTypes
  <1> QED BY <1>1 DEF utf32toutf8, Bytes

LEMMA BytesType ==
    ASSUME NEW s \in Seq(Characters)
    PROVE  Bytes(s) \in Seq(Nat) /\ Len(Bytes(s)) \in Nat
  <1>1. PICK all : BytesUpTo(all, s)
    BY BytesAreBuilt
  <1>2. Len(s) \in 0..Len(s)
    OBVIOUS
  <1>3. Bytes(s) \in Seq(Nat)
    BY <1>1, <1>2 DEF BytesUpTo
  <1> QED BY <1>3

\* uchar2utf8_size counts the bytes that are written.
LEMMA SizeIsRight ==
    ASSUME NEW s \in Seq(Characters)
    PROVE  uchar2utf8_size(s) = Len(Bytes(s))
  <1> DEFINE m == Len(s)
             Step(x, n) == x + Size(s[n])
             IsAll(f) == f = [n \in 0..m |-> IF n = 0 THEN 0 ELSE Step(f[n - 1], n)]
             q == CHOOSE f : IsAll(f)
  <1>1. uchar2utf8_size(s) = q[m]
    BY DEF uchar2utf8_size
  <1>2. PICK all : BytesUpTo(all, s)
    BY BytesAreBuilt
  <1> DEFINE g == [n \in 0..m |-> Len(all[n])]
  <1>3. m \in Nat
    OBVIOUS
  <1>4. \A n \in 0..m : g[n] = IF n = 0 THEN 0 ELSE Step(g[n - 1], n)
    <2>1. g[0] = 0
      BY <1>2, <1>3 DEF BytesUpTo
    <2>2. ASSUME NEW n \in 1..m PROVE g[n] = g[n - 1] + Size(s[n])
      <3>1. n \in 0..m /\ n - 1 \in 0..m
        BY <1>3
      <3>2. Len(all[n]) = Len(all[n - 1]) + Len(Parts(s)[n])
        BY <1>2 DEF BytesUpTo
      <3>3. Size(s[n]) = Len(Parts(s)[n])
        BY PartTypes
      <3> QED BY <3>1, <3>2, <3>3
    <2> HIDE DEF g
    <2>3. ASSUME NEW n \in 0..m, n # 0 PROVE n \in 1..m
      BY <1>3, <2>3
    <2> QED BY <2>1, <2>2, <2>3
  <1>5. g = [n \in 0..m |-> g[n]]
    OBVIOUS
  <1>6. g[m] = Len(Bytes(s))
    BY <1>2, <1>3 DEF BytesUpTo
  <1> HIDE DEF g, Step
  <1>7. IsAll(g)
    BY <1>4, <1>5
  <1>8. IsAll(q)
    BY <1>7
  <1> HIDE DEF q
  <1>9. \A n \in 0..m : q[n] = IF n = 0 THEN 0 ELSE Step(q[n - 1], n)
    BY <1>8
  <1> HIDE DEF m, IsAll
  <1>10. GoAlike(q, g, m)
    <2>1. 0 \in 0..m
      BY <1>3
    <2>2. q[0] = g[0]
      BY <1>4, <1>9, <2>1
    <2>3. ASSUME NEW n \in 1..m, q[n - 1] = g[n - 1] PROVE q[n] = g[n]
      <3>1. n \in 0..m /\ n # 0
        BY <1>3
      <3> QED BY <1>4, <1>9, <2>3, <3>1
    <2> QED BY <2>2, <2>3 DEF GoAlike
  <1>11. q[m] = g[m]
    BY <1>3, <1>10, EndAlike
  <1> QED BY <1>1, <1>6, <1>11

LEMMA OneMoreElement ==
    ASSUME NEW S, NEW s \in Seq(S), NEW n \in 1..Len(s)
    PROVE  Append(SubSeq(s, 1, n - 1), s[n]) = SubSeq(s, 1, n)
  <1> DEFINE x == SubSeq(s, 1, n - 1)
             y == SubSeq(s, 1, n)
  <1>1. Len(s) \in Nat /\ \A i \in 1..Len(s) : s[i] \in S
    BY ElementOfSeq
  <1>2. x \in Seq(S) /\ Len(x) = n - 1 /\ \A i \in 1..(n - 1) : x[i] = s[i]
    BY <1>1
  <1>3. y \in Seq(S) /\ Len(y) = n /\ \A i \in 1..n : y[i] = s[i]
    BY <1>1
  <1> HIDE DEF x, y
  <1>4. s[n] \in S
    BY <1>1
  <1> DEFINE z == Append(x, s[n])
  <1>5. z \in Seq(S) /\ Len(z) = n /\ z[n] = s[n] /\ \A i \in 1..(n - 1) : z[i] = x[i]
    BY <1>1, <1>2, <1>4
  <1> HIDE DEF z
  <1>6. \A i \in 1..n : z[i] = y[i]
    <2>1. ASSUME NEW i \in 1..n PROVE z[i] = y[i]
      <3>1. i = n \/ i \in 1..(n - 1)
        OBVIOUS
      <3> QED BY <1>2, <1>3, <1>5, <3>1
    <2> QED BY <2>1
  <1>7. z = y
    BY <1>3, <1>5, <1>6, SeqEqual
  <1> QED BY <1>7 DEF x, y, z

LEMMA AllElements ==
    ASSUME NEW S, NEW s \in Seq(S)
    PROVE  SubSeq(s, 1, Len(s)) = s
  OBVIOUS

\* What is read is what was written.
LEMMA ReadAsWritten ==
    ASSUME NEW s \in Seq(Characters)
    PROVE  utf8toutf32(Bytes(s)) = s
  <1> DEFINE m == Len(s)
             string == Bytes(s)
             L == Len(string)
             first == [text |-> <<>>, at |-> 1]
             IsAll(f) == f = [n \in 0..L |-> IF n = 0 THEN first ELSE OneMoreRead(string, f[n - 1])]
             q == CHOOSE f : IsAll(f)
  <1>1. utf8toutf32(string) = q[L].text
    BY DEF utf8toutf32
  <1>2. PICK all : BytesUpTo(all, s)
    BY BytesAreBuilt
  <1>3. m \in Nat /\ string \in Seq(Nat) /\ L \in Nat
    BY BytesType
  <1> DEFINE Scan(n) == [text |-> SubSeq(s, 1, n), at |-> Len(all[n]) + 1]
             g == [n \in 0..L |-> IF n <= m THEN Scan(n) ELSE Scan(m)]
  <1> HIDE DEF string, L, m, q
  <1>4. ASSUME NEW n \in 1..m
        PROVE  /\ Len(all[n - 1]) \in Nat /\ Len(all[n]) \in Nat
               /\ Len(Parts(s)[n]) \in Nat /\ Len(Parts(s)[n]) > 0
               /\ Len(all[n]) = Len(all[n - 1]) + Len(Parts(s)[n])
               /\ Contains(string, Parts(s)[n], Len(all[n - 1]))
               /\ IsEncoding(Parts(s)[n], s[n])
    BY <1>2, PartTypes DEF BytesUpTo, m, string
  <1>5. all[0] = <<>> /\ Len(all[m]) = L
    BY <1>2 DEF BytesUpTo, m, string, L
  <1>6. m <= L
    <2> DEFINE G == {n \in 0..m : n <= Len(all[n])}
    <2>1. 0 \in G
      BY <1>3, <1>5
    <2>2. ASSUME NEW n \in 1..m, n - 1 \in G PROVE n \in G
      <3>1. n - 1 <= Len(all[n - 1]) /\ n \in 0..m
        BY <1>3, <2>2
      <3>2. /\ Len(all[n - 1]) \in Nat /\ Len(Parts(s)[n]) \in Nat /\ Len(Parts(s)[n]) > 0
            /\ Len(all[n]) = Len(all[n - 1]) + Len(Parts(s)[n])
        BY <1>4
      <3>3. n <= Len(all[n])
        <4> DEFINE x == Len(all[n - 1])
                   y == Len(Parts(s)[n])
                   z == Len(all[n])
        <4>1. n \in Nat /\ n - 1 <= x /\ x \in Nat /\ y \in Nat /\ y > 0 /\ z = x + y
          BY <1>3, <3>1, <3>2
        <4> HIDE DEF x, y, z
        <4>2. n <= z
          BY <4>1
        <4> QED BY <4>2 DEF z
      <3> QED BY <3>1, <3>3
    <2> HIDE DEF G
    <2>3. 0..m \subseteq G
      BY <1>3, <2>1, <2>2, Induction
    <2>4. m \in G
      BY <1>3, <2>3
    <2> QED BY <1>5, <2>4 DEF G
  <1>7. ASSUME NEW n \in 1..m PROVE OneMoreRead(string, Scan(n - 1)) = Scan(n)
    <2> DEFINE place == Len(all[n - 1])
               part == Parts(s)[n]
    <2>1. place \in Nat /\ place + 1 <= L /\ Len(all[n]) = place + Len(part)
      <3>1. place + Len(part) <= L
        BY <1>4 DEF Contains, L
      <3>2. /\ place \in Nat /\ Len(part) \in Nat /\ Len(part) > 0
            /\ Len(all[n]) = place + Len(part)
        BY <1>4
      <3> HIDE DEF place, part
      <3> QED BY <1>3, <3>1, <3>2
    <2>2. Skip(string[place + 1]) = Len(part) /\ CharacterAt(string, place + 1) = s[n]
      <3>1. /\ place \in Nat /\ Contains(string, part, place) /\ IsEncoding(part, s[n])
            /\ string \in Seq(Nat)
        BY <1>3, <1>4
      <3> HIDE DEF place, part
      <3> QED BY <3>1, ReadBack
    <2>3. Append(SubSeq(s, 1, n - 1), s[n]) = SubSeq(s, 1, n)
      BY OneMoreElement DEF m
    <2> HIDE DEF part
    <2>4. (place + 1) + Len(part) = Len(all[n]) + 1
      <3>1. Len(part) \in Nat
        BY <1>4 DEF part
      <3> HIDE DEF place
      <3> QED BY <2>1, <3>1
    <2> HIDE DEF place
    <2> DEFINE scan == [text |-> SubSeq(s, 1, n - 1), at |-> place + 1]
    <2>5. scan.text = SubSeq(s, 1, n - 1) /\ scan.at = place + 1
      OBVIOUS
    <2>6. Scan(n - 1) = scan
      BY DEF place
    <2>7. ~ (scan.at > Len(string))
      BY <1>3, <2>1, <2>5 DEF L
    <2> HIDE DEF scan
    <2>8. OneMoreRead(string, scan) = [text |-> SubSeq(s, 1, n), at |-> Len(all[n]) + 1]
      BY <2>2, <2>3, <2>4, <2>5, <2>7 DEF OneMoreRead
    <2> QED BY <2>6, <2>8
  <1>8. OneMoreRead(string, Scan(m)) = Scan(m)
    <2> DEFINE scan == Scan(m)
    <2>1. scan.at = L + 1
      BY <1>5
    <2>2. scan.at > Len(string)
      BY <1>3, <2>1 DEF L
    <2> HIDE DEF scan
    <2>3. OneMoreRead(string, scan) = scan
      BY <2>2 DEF OneMoreRead
    <2> QED BY <2>3 DEF scan
  <1>9. Scan(0) = first
    <2>1. SubSeq(s, 1, 0) = <<>> /\ Len(all[0]) + 1 = 1
      BY <1>5
    <2> QED BY <2>1
  <1>10. Scan(m).text = s
    BY AllElements DEF m
  <1> HIDE DEF Scan
  <1>11. \A n \in 0..L : g[n] = IF n = 0 THEN first ELSE OneMoreRead(string, g[n - 1])
    <2>1. g[0] = first
      BY <1>3, <1>9
    <2>2. ASSUME NEW n \in 1..L PROVE g[n] = OneMoreRead(string, g[n - 1])
      <3>1. n \in 0..L /\ n - 1 \in 0..L
        BY <1>3
      <3>2. CASE n <= m
        <4>1. g[n] = Scan(n) /\ g[n - 1] = Scan(n - 1) /\ n \in 1..m
          BY <1>3, <3>1, <3>2
        <4> QED BY <1>7, <4>1
      <3>3. CASE ~ (n <= m)
        <4>1. g[n] = Scan(m)
          BY <3>1, <3>3
        <4>2. g[n - 1] = Scan(m)
          <5>1. n - 1 = m \/ ~ (n - 1 <= m)
            BY <1>3, <3>3
          <5> QED BY <3>1, <5>1
        <4> QED BY <1>8, <4>1, <4>2
      <3> QED BY <3>2, <3>3
    <2> HIDE DEF g
    <2>3. ASSUME NEW n \in 0..L, n # 0 PROVE n \in 1..L
      BY <1>3, <2>3
    <2> QED BY <2>1, <2>2, <2>3
  <1>12. g = [n \in 0..L |-> g[n]]
    OBVIOUS
  <1>13. g[L].text = s
    <2>1. L \in 0..L
      BY <1>3
    <2>2. L <= m => L = m
      BY <1>3, <1>6
    <2>3. g[L] = Scan(m)
      BY <2>1, <2>2
    <2> QED BY <1>10, <2>3
  <1> HIDE DEF g, first
  <1>14. IsAll(g)
    BY <1>11, <1>12
  <1>15. IsAll(q)
    BY <1>14 DEF q
  <1>16. \A n \in 0..L : q[n] = IF n = 0 THEN first ELSE OneMoreRead(string, q[n - 1])
    BY <1>15
  <1> HIDE DEF IsAll
  <1>17. GoAlike(q, g, L)
    <2>1. 0 \in 0..L
      BY <1>3
    <2>2. q[0] = g[0]
      BY <1>11, <1>16, <2>1
    <2>3. ASSUME NEW n \in 1..L, q[n - 1] = g[n - 1] PROVE q[n] = g[n]
      <3>1. n \in 0..L /\ n # 0
        BY <1>3
      <3> QED BY <1>11, <1>16, <2>3, <3>1
    <2> QED BY <2>2, <2>3 DEF GoAlike
  <1>18. q[L] = g[L]
    BY <1>3, <1>17, EndAlike
  <1> QED BY <1>1, <1>13, <1>18 DEF string

-----------------------------------------------------------------------------
(***************************************************************************)
(* The tokens of a text, said without the loop: where they begin and end,  *)
(* and how many come before a place.                                       *)
(***************************************************************************)
Begins(s, i) == s[i] \notin Ignored /\ (s[i] \in Latin => i = 1 \/ s[i - 1] \notin Latin)

IsWord(s, i, j) ==
    /\ \A k \in i..(j - 1) : s[k] \in Latin
    /\ j = Len(s) + 1 \/ s[j] \notin Latin

IsGram(s, i, j) ==
    /\ \A k \in i..(j - 1) : s[k] \in Other
    /\ j <= i + N
    /\ j = i + N \/ j = Len(s) + 1 \/ s[j] \notin Other

IsToken(s, i, j) ==
    /\ i \in 1..Len(s) /\ j \in (i + 1)..(Len(s) + 1)
    /\ IF s[i] \in Latin THEN IsWord(s, i, j) ELSE IsGram(s, i, j)

TokensBefore(s, i) == Cardinality({k \in 1..(i - 1) : Begins(s, k)})

\* The place i is not inside a word.
NotInWord(s, i) == i \in 2..Len(s) => s[i - 1] \notin Latin \/ s[i] \notin Latin

LEMMA OneEnd ==
    ASSUME NEW s, Len(s) \in Nat, NEW i, NEW j, NEW k, IsToken(s, i, j), IsToken(s, i, k)
    PROVE  j = k
  <1>1. /\ i \in Nat /\ j \in Nat /\ k \in Nat /\ i < j /\ i < k
        /\ j <= Len(s) + 1 /\ k <= Len(s) + 1 /\ N \in Nat
    BY TokenLengthAssumption DEF IsToken
  <1>2. CASE s[i] \in Latin
    <2>1. IsWord(s, i, j) /\ IsWord(s, i, k)
      BY <1>2 DEF IsToken
    <2>2. ~ (j < k)
      <3>1. j < k => j \in i..(k - 1) /\ j # Len(s) + 1
        BY <1>1
      <3> QED BY <2>1, <3>1 DEF IsWord
    <2>3. ~ (k < j)
      <3>1. k < j => k \in i..(j - 1) /\ k # Len(s) + 1
        BY <1>1
      <3> QED BY <2>1, <3>1 DEF IsWord
    <2> QED BY <1>1, <2>2, <2>3
  <1>3. CASE s[i] \notin Latin
    <2>1. IsGram(s, i, j) /\ IsGram(s, i, k)
      BY <1>3 DEF IsToken
    <2>2. ~ (j < k)
      <3>1. j < k /\ k <= i + N => j \in i..(k - 1) /\ j # Len(s) + 1 /\ j # i + N
        BY <1>1
      <3> QED BY <2>1, <3>1 DEF IsGram
    <2>3. ~ (k < j)
      <3>1. k < j /\ j <= i + N => k \in i..(j - 1) /\ k # Len(s) + 1 /\ k # i + N
        BY <1>1
      <3> QED BY <2>1, <3>1 DEF IsGram
    <2> QED BY <1>1, <2>2, <2>3
  <1> QED BY <1>2, <1>3

LEMMA TokensBeforeFirst ==
    ASSUME NEW s
    PROVE  TokensBefore(s, 1) = 0
  <1>1. {k \in 1..(1 - 1) : Begins(s, k)} = {}
    OBVIOUS
  <1> QED BY <1>1, FS_EmptySet DEF TokensBefore

LEMMA OneMoreToken ==
    ASSUME NEW s, NEW i \in Nat \ {0}
    PROVE  /\ TokensBefore(s, i) \in 0..(i - 1)
           /\ TokensBefore(s, i + 1) = TokensBefore(s, i) + (IF Begins(s, i) THEN 1 ELSE 0)
  <1> DEFINE A == {k \in 1..(i - 1) : Begins(s, k)}
             B == {k \in 1..((i + 1) - 1) : Begins(s, k)}
  <1>1. 1 \in Int /\ i - 1 \in Nat
    OBVIOUS
  <1>2. IsFiniteSet(1..(i - 1)) /\ Cardinality(1..(i - 1)) = i - 1
    BY <1>1, FS_Interval, IntervalCardinality
  <1>3. A \subseteq 1..(i - 1)
    OBVIOUS
  <1>4. IsFiniteSet(A) /\ Cardinality(A) <= i - 1 /\ Cardinality(A) \in Nat
    <2> HIDE DEF A
    <2> QED BY <1>2, <1>3, FS_Subset, FS_CardinalityType
  <1>5. i \notin A
    OBVIOUS
  <1>6. B = IF Begins(s, i) THEN A \cup {i} ELSE A
    <2>1. \A k : k \in 1..((i + 1) - 1) <=> k \in 1..(i - 1) \/ k = i
      OBVIOUS
    <2>2. CASE Begins(s, i)
      <3>1. \A k : k \in B <=> k \in A \/ k = i
        BY <2>1, <2>2
      <3> HIDE DEF A, B
      <3> QED BY <2>2, <3>1
    <2>3. CASE ~ Begins(s, i)
      <3>1. \A k : k \in B <=> k \in A
        BY <2>1, <2>3
      <3> HIDE DEF A, B
      <3> QED BY <2>3, <3>1
    <2> QED BY <2>2, <2>3
  <1> HIDE DEF A, B
  <1>7. Cardinality(A \cup {i}) = Cardinality(A) + 1
    BY <1>4, <1>5, FS_AddElement
  <1>8. Cardinality(B) = Cardinality(A) + (IF Begins(s, i) THEN 1 ELSE 0)
    BY <1>4, <1>6, <1>7
  <1>9. Cardinality(A) \in 0..(i - 1)
    BY <1>1, <1>4
  <1> QED BY <1>8, <1>9 DEF TokensBefore, A, B

\* Nothing but the token at i begins between t and j.
LEMMA NoOtherTokenBetween ==
    ASSUME NEW s, NEW b \in Nat \ {0}, NEW i \in Nat, b <= i, NEW j \in Nat, i < j,
           Begins(s, i), \A k \in b..(j - 1) : k # i => ~ Begins(s, k)
    PROVE  TokensBefore(s, i) = TokensBefore(s, b) /\ TokensBefore(s, j) = TokensBefore(s, b) + 1
  <1> DEFINE Right(n) == TokensBefore(s, b + n) =
                             TokensBefore(s, b) + (IF b + n > i THEN 1 ELSE 0)
             m == j - b
             G == {n \in 0..m : Right(n)}
  <1>1. m \in Nat /\ b + m = j /\ TokensBefore(s, b) \in Nat
    BY OneMoreToken
  <1>2. 0 \in G
    BY <1>1
  <1>3. ASSUME NEW n \in 1..m, n - 1 \in G PROVE n \in G
    <2> DEFINE k == b + (n - 1)
    <2>1. k \in Nat \ {0} /\ k \in b..(j - 1) /\ b + n = k + 1 /\ n \in 0..m
      BY <1>1
    <2>2. TokensBefore(s, k) = TokensBefore(s, b) + (IF k > i THEN 1 ELSE 0)
      BY <1>3
    <2> HIDE DEF k
    <2>3. TokensBefore(s, k + 1) = TokensBefore(s, k) + (IF Begins(s, k) THEN 1 ELSE 0)
      BY <2>1, OneMoreToken
    <2>4. CASE k = i
      <3>1. ~ (k > i) /\ k + 1 > i
        BY <2>1, <2>4
      <3>2. TokensBefore(s, k + 1) = TokensBefore(s, b) + 1
        BY <1>1, <2>2, <2>3, <2>4, <3>1
      <3> QED BY <2>1, <3>1, <3>2
    <2>5. CASE k # i
      <3>1. k > i <=> k + 1 > i
        BY <2>1, <2>5
      <3>2. ~ Begins(s, k)
        BY <2>1, <2>5
      <3>3. TokensBefore(s, k + 1) = TokensBefore(s, b) + (IF k + 1 > i THEN 1 ELSE 0)
        BY <1>1, <2>2, <2>3, <3>1, <3>2
      <3> QED BY <2>1, <3>3
    <2> QED BY <2>4, <2>5
  <1> HIDE DEF G
  <1>4. 0..m \subseteq G
    BY <1>1, <1>2, <1>3, Induction
  <1>5. i - b \in 0..m /\ b + (i - b) = i /\ m \in 0..m
    BY <1>1
  <1>6. Right(i - b) /\ Right(m)
    BY <1>4, <1>5 DEF G
  <1> QED BY <1>1, <1>5, <1>6

-----------------------------------------------------------------------------
(***************************************************************************)
(* What ngram_next finds.                                                  *)
(***************************************************************************)
LEMMA First ==
    ASSUME text \in Seq(Characters), NEW i \in 1..(Len(text) + 1), NEW C
    PROVE  /\ FirstFrom(i, C) \in i..(Len(text) + 1)
           /\ FirstFrom(i, C) = Len(text) + 1 \/ text[FirstFrom(i, C)] \in C
           /\ \A k \in i..(FirstFrom(i, C) - 1) : text[k] \notin C
  <1> DEFINE L == Len(text)
             Hit(j) == j = L + 1 \/ text[j] \in C
             Fits(j) == Hit(j) /\ \A k \in i..(j - 1) : text[k] \notin C
             T == {j \in i..(L + 1) : Hit(j)}
  <1>1. L \in Nat /\ i \in 1..(L + 1)
    OBVIOUS
  <1>2. FirstFrom(i, C) = CHOOSE j \in i..(L + 1) : Fits(j)
    BY DEF FirstFrom
  <1> HIDE DEF L
  <1>3. L + 1 \in T /\ T \in SUBSET Nat
    BY <1>1
  <1>4. PICK x \in T : \A y \in T : x <= y
    BY <1>3, LeastNumber
  <1>5. \A k \in i..(x - 1) : text[k] \notin C
    <2>1. ASSUME NEW k \in i..(x - 1), text[k] \in C PROVE FALSE
      <3>1. k \in T
        BY <1>1, <2>1
      <3> QED BY <1>1, <1>4, <3>1
    <2> QED BY <2>1
  <1>6. x \in i..(L + 1) /\ Fits(x)
    BY <1>5
  <1> HIDE DEF Fits
  <1>7. FirstFrom(i, C) \in i..(L + 1) /\ Fits(FirstFrom(i, C))
    BY <1>2, <1>6
  <1> QED BY <1>7 DEF Fits, L

\* The characters between t and the token are ignored.
LEMMA WhereItStarts ==
    ASSUME text \in Seq(Characters), t \in 1..(Len(text) + 1)
    PROVE  /\ Start \in t..(Len(text) + 1)
           /\ Start <= Len(text) => text[Start] \notin Ignored
           /\ \A k \in t..(Start - 1) : text[k] \in Ignored
  <1> DEFINE C == Characters \ Ignored
             j == FirstFrom(t, C)
  <1>1. Start = j
    BY DEF Start
  <1>2. /\ j \in t..(Len(text) + 1)
        /\ j = Len(text) + 1 \/ text[j] \in C
        /\ \A k \in t..(j - 1) : text[k] \notin C
    BY First
  <1>3. Len(text) \in Nat /\ \A k \in 1..Len(text) : text[k] \in Characters
    BY ElementOfSeq
  <1> HIDE DEF j
  <1>4. \A k \in t..(j - 1) : k \in 1..Len(text)
    BY <1>2, <1>3
  <1> QED BY <1>1, <1>2, <1>3, <1>4

LEMMA WhereItEnds ==
    ASSUME text \in Seq(Characters), t \in 1..(Len(text) + 1), Start <= Len(text)
    PROVE  /\ Start \in 1..Len(text)
           /\ End \in (Start + 1)..(Len(text) + 1)
           /\ IsToken(text, Start, End)
           /\ IF text[Start] \in Latin THEN Following = End
              ELSE text[Start] \in Other /\ Following = Start + 1
  <1>1. Len(text) \in Nat /\ \A k \in 1..Len(text) : text[k] \in Characters
    BY ElementOfSeq
  <1>2. Start \in 1..Len(text) /\ text[Start] \notin Ignored
    BY <1>1, WhereItStarts
  <1> DEFINE b == Start
  <1>3. b \in 1..(Len(text) + 1)
    BY <1>1, <1>2
  <1>4. CASE text[b] \in Latin
    <2> DEFINE e == FirstFrom(b, Characters \ Latin)
    <2>1. End = e /\ Following = End
      BY <1>4 DEF End, Following, AtWord
    <2> HIDE DEF b
    <2>2. /\ e \in b..(Len(text) + 1)
          /\ e = Len(text) + 1 \/ text[e] \in Characters \ Latin
          /\ \A k \in b..(e - 1) : text[k] \notin Characters \ Latin
      BY <1>3, First
    <2> HIDE DEF e
    <2>3. e # b
      BY <1>1, <1>2, <1>4, <2>2 DEF b
    <2>4. e \in (b + 1)..(Len(text) + 1)
      BY <1>1, <1>3, <2>2, <2>3
    <2>5. \A k \in b..(e - 1) : text[k] \in Latin
      <3>1. \A k \in b..(e - 1) : k \in 1..Len(text)
        BY <1>1, <1>3, <2>2
      <3> QED BY <1>1, <2>2, <3>1
    <2>6. e = Len(text) + 1 \/ text[e] \notin Latin
      BY <2>2
    <2>7. IsToken(text, b, e)
      BY <1>2, <1>4, <2>4, <2>5, <2>6 DEF IsToken, IsWord, b
    <2> QED BY <1>2, <1>4, <2>1, <2>4, <2>7 DEF b
  <1>5. CASE text[b] \notin Latin
    <2> DEFINE run == FirstFrom(b, Characters \ Other)
               e == End
    <2>1. e = (IF run < b + N THEN run ELSE b + N) /\ Following = b + 1
      BY <1>5 DEF End, Following, AtWord
    <2>2. text[b] \in Other /\ N \in Nat \ {0}
      BY <1>1, <1>2, <1>5, TokenLengthAssumption DEF Characters
    <2> HIDE DEF b, e
    <2>3. /\ run \in b..(Len(text) + 1)
          /\ run = Len(text) + 1 \/ text[run] \in Characters \ Other
          /\ \A k \in b..(run - 1) : text[k] \notin Characters \ Other
      BY <1>3, First
    <2> HIDE DEF run
    <2>4. run # b
      BY <1>1, <1>2, <2>2, <2>3 DEF b
    <2>5. e \in (b + 1)..(Len(text) + 1) /\ e <= b + N /\ e <= run
      BY <1>1, <1>3, <2>1, <2>2, <2>3, <2>4
    <2>6. \A k \in b..(e - 1) : text[k] \in Other
      <3>1. \A k \in b..(e - 1) : k \in 1..Len(text) /\ k \in b..(run - 1)
        BY <1>1, <1>3, <2>3, <2>5
      <3> QED BY <1>1, <2>3, <3>1
    <2>7. e = b + N \/ e = Len(text) + 1 \/ text[e] \notin Other
      BY <2>1, <2>3
    <2>8. IsToken(text, b, e)
      BY <1>2, <1>5, <2>5, <2>6, <2>7 DEF IsToken, IsGram, b
    <2> QED BY <1>2, <1>5, <2>1, <2>2, <2>5, <2>8 DEF b, e
  <1> QED BY <1>4, <1>5

-----------------------------------------------------------------------------
(***************************************************************************)
(* The invariant of the loop.                                              *)
(***************************************************************************)
TextTypes ==
    /\ document \in Seq(Characters)
    /\ from \in 1..Len(document)
    /\ Len(query) \in 1..Len(document) /\ from + Len(query) - 1 <= Len(document)
    /\ query = SubSeq(document, from, from + Len(query) - 1)
    /\ text = IF phase = "document" THEN document ELSE query
    /\ t \in 1..(Len(text) + 1)
    /\ phase \in {"document", "query", "done"}

\* The count is the number of tokens before t, which is never inside a word.
CountedRightly == NotInWord(text, t) /\ position = TokensBefore(text, t)

AsRecord(s, i, j) ==
    [position |-> TokensBefore(s, i), token |-> Bytes(SubSeq(s, i, j - 1))]

\* The document's tokens that were passed are posted.
PassedArePosted ==
    \A i \in 1..Len(document), j \in 1..(Len(document) + 1) :
        /\ Begins(document, i) /\ IsToken(document, i, j)
        /\ phase = "document" => i < t
        => AsRecord(document, i, j) \in posted

\* What is posted and asked for are tokens.
PostedAreTokens ==
    \A x \in posted : \E i \in 1..Len(document), j \in 1..(Len(document) + 1) :
        IsToken(document, i, j) /\ x = AsRecord(document, i, j)

AskedAreTokens ==
    \A x \in asked : \E i \in 1..Len(query), j \in 1..(Len(query) + 1) :
        /\ Begins(query, i) /\ IsToken(query, i, j) /\ j - i >= N
        /\ x = AsRecord(query, i, j)

SplitInv ==
    /\ TextTypes
    /\ CountedRightly
    /\ PassedArePosted
    /\ PostedAreTokens
    /\ AskedAreTokens

LEMMA AnExcerpt ==
    ASSUME NEW S, NEW s \in Seq(S), NEW i \in 1..Len(s), NEW j \in i..Len(s)
    PROVE  /\ SubSeq(s, i, j) \in Seq(S) /\ Len(SubSeq(s, i, j)) = j - i + 1
           /\ \A k \in 1..(j - i + 1) : SubSeq(s, i, j)[k] = s[i + k - 1]
  <1>1. Len(s) \in Nat /\ \A k \in 1..Len(s) : s[k] \in S
    BY ElementOfSeq
  <1> QED BY <1>1

LEMMA TypesOfTexts ==
    ASSUME TextTypes
    PROVE  /\ query \in Seq(Characters) /\ text \in Seq(Characters)
           /\ Len(document) \in Nat /\ Len(query) \in Nat /\ Len(text) \in Nat
           /\ from \in Nat /\ t \in Nat
           /\ \A k \in 1..Len(query) : query[k] = document[from + k - 1]
  <1> DEFINE j == from + Len(query) - 1
  <1>1. /\ document \in Seq(Characters) /\ from \in 1..Len(document)
        /\ Len(query) \in 1..Len(document) /\ j <= Len(document)
        /\ query = SubSeq(document, from, j)
        /\ t \in 1..(Len(text) + 1)
        /\ text = document \/ text = query
    BY DEF TextTypes
  <1>2. Len(document) \in Nat /\ Len(query) \in Nat /\ from \in Nat
    BY <1>1
  <1>3. j \in from..Len(document) /\ j - from + 1 = Len(query)
    BY <1>1, <1>2
  <1> HIDE DEF j
  <1>4. query \in Seq(Characters) /\ \A k \in 1..Len(query) : query[k] = document[from + k - 1]
    <2>1. /\ SubSeq(document, from, j) \in Seq(Characters)
          /\ \A k \in 1..(j - from + 1) : SubSeq(document, from, j)[k] = document[from + k - 1]
      BY <1>1, <1>3, AnExcerpt
    <2>2. j - from + 1 = Len(query) /\ SubSeq(document, from, j) = query
      BY <1>1, <1>3
    <2> QED BY <2>1, <2>2, Zenon
  <1>5. text \in Seq(Characters) /\ Len(text) \in Nat
    BY <1>1, <1>2, <1>4, Zenon
  <1>6. t \in Nat
    BY <1>1, <1>5
  <1> QED BY <1>2, <1>4, <1>5, <1>6

\* Of what is written a token takes all but the 0.
LEMMA TokenWithoutEnd ==
    ASSUME NEW s \in Seq(Characters)
    PROVE  SubSeq(utf32toutf8(s), 1, uchar2utf8_size(s)) = Bytes(s)
  <1> DEFINE bytes == Bytes(s)
             m == Len(bytes)
  <1>1. bytes \in Seq(Nat) /\ m \in Nat
    BY BytesType
  <1>2. utf32toutf8(s) = Append(bytes, 0) /\ uchar2utf8_size(s) = m
    BY WrittenAsGiven, SizeIsRight
  <1> HIDE DEF bytes
  <1>3. SubSeq(Append(bytes, 0), 1, m) = bytes
    BY <1>1
  <1> QED BY <1>2, <1>3 DEF bytes

LEMMA TokenIsPiece ==
    ASSUME NEW s \in Seq(Characters), NEW i, NEW j, IsToken(s, i, j)
    PROVE  /\ i \in Nat /\ j \in Nat /\ i < j /\ j - 1 \in i..Len(s)
           /\ SubSeq(s, i, j - 1) \in Seq(Characters)
           /\ Len(SubSeq(s, i, j - 1)) = j - i
           /\ SubSeq(utf32toutf8(SubSeq(s, i, j - 1)), 1, uchar2utf8_size(SubSeq(s, i, j - 1)))
                 = Bytes(SubSeq(s, i, j - 1))
  <1>1. Len(s) \in Nat /\ i \in 1..Len(s) /\ j \in (i + 1)..(Len(s) + 1)
    BY DEF IsToken
  <1>2. j - 1 \in i..Len(s) /\ (j - 1) - i + 1 = j - i /\ i \in Nat /\ j \in Nat /\ i < j
    BY <1>1
  <1>3. SubSeq(s, i, j - 1) \in Seq(Characters) /\ Len(SubSeq(s, i, j - 1)) = j - i
    BY <1>1, <1>2, AnExcerpt
  <1> QED BY <1>2, <1>3, TokenWithoutEnd

LEMMA InitSplitInv == SplitInit => SplitInv
  <1> SUFFICES ASSUME SplitInit PROVE SplitInv
    OBVIOUS
  <1>1. document \in Texts /\ document \in Seq(Characters)
    BY CharactersAssumption DEF SplitInit
  <1>2. PICK i \in 1..Len(document), j \in 1..Len(document) :
            i <= j /\ from = i /\ query = SubSeq(document, i, j)
    BY Zenon DEF SplitInit
  <1>3. /\ text = document /\ t = 1 /\ position = 0 /\ posted = {} /\ asked = {}
        /\ phase = "document"
    BY <1>1, ReadAsWritten DEF SplitInit
  <1>4. Len(document) \in Nat /\ j \in i..Len(document)
    BY <1>1, <1>2
  <1>5. Len(query) = j - i + 1
    BY <1>1, <1>2, <1>4, AnExcerpt
  <1>6. from + Len(query) - 1 = j /\ Len(query) \in 1..Len(document)
    BY <1>2, <1>4, <1>5
  <1>7. t \in 1..(Len(text) + 1)
    BY <1>3, <1>4
  <1>8. TextTypes
    BY <1>1, <1>2, <1>3, <1>4, <1>6, <1>7 DEF TextTypes
  <1>9. CountedRightly
    BY <1>3, TokensBeforeFirst DEF CountedRightly, NotInWord
  <1>10. PassedArePosted
    BY <1>3 DEF PassedArePosted
  <1>11. PostedAreTokens /\ AskedAreTokens
    BY <1>3 DEF PostedAreTokens, AskedAreTokens
  <1> QED BY <1>8, <1>9, <1>10, <1>11 DEF SplitInv

\* One round of the loop: the token that is found, and the count after it.
LEMMA OneTokenFound ==
    ASSUME TextTypes, CountedRightly, Start <= Len(text)
    PROVE  /\ IsToken(text, Start, End) /\ Begins(text, Start)
           /\ position = TokensBefore(text, Start)
           /\ Found = AsRecord(text, Start, End)
           /\ Len(Token) = End - Start
           /\ Following \in 1..(Len(text) + 1) /\ NotInWord(text, Following)
           /\ position + 1 = TokensBefore(text, Following)
           /\ \A k \in t..(Following - 1) : Begins(text, k) => k = Start
           /\ Start \in t..(Following - 1)
  <1>1. /\ text \in Seq(Characters) /\ Len(text) \in Nat /\ t \in 1..(Len(text) + 1) /\ t \in Nat
        /\ \A k \in 1..Len(text) : text[k] \in Characters
    BY TypesOfTexts, ElementOfSeq DEF TextTypes
  <1>2. /\ Start \in t..(Len(text) + 1) /\ text[Start] \notin Ignored
        /\ \A k \in t..(Start - 1) : text[k] \in Ignored
    BY <1>1, WhereItStarts
  <1>3. /\ Start \in 1..Len(text) /\ End \in (Start + 1)..(Len(text) + 1)
        /\ IsToken(text, Start, End)
        /\ IF text[Start] \in Latin THEN Following = End
           ELSE text[Start] \in Other /\ Following = Start + 1
    BY <1>1, WhereItEnds
  <1> DEFINE b == Start
             e == End
             f == Following
  <1>4. b \in Nat /\ e \in Nat /\ f \in Nat /\ b < f /\ t <= b /\ f \in 1..(Len(text) + 1)
    BY <1>1, <1>2, <1>3
  <1>5. NotInWord(text, t) /\ position = TokensBefore(text, t)
    BY DEF CountedRightly
  <1>6. Found = AsRecord(text, Start, End) <=> position = TokensBefore(text, Start)
    <2>1. Found = [position |-> position, token |-> Bytes(SubSeq(text, Start, End - 1))]
      BY <1>1, <1>3, TokenIsPiece DEF Found, TokenBytes, Token
    <2> QED BY <2>1 DEF AsRecord
  <1>7. Len(Token) = End - Start
    BY <1>1, <1>3, TokenIsPiece DEF Token
  <1> HIDE DEF b, e, f
  <1>8. Latin \cap Ignored = {}
    BY CharactersAssumption
  <1>9. Begins(text, b)
    <2>1. CASE t = b
      <3>1. b = 1 \/ b \in 2..Len(text)
        BY <1>3, <1>4 DEF b
      <3> QED BY <1>2, <1>5, <2>1, <3>1 DEF Begins, NotInWord, b
    <2>2. CASE t # b
      <3>1. b - 1 \in t..(b - 1)
        BY <1>1, <1>4, <2>2
      <3>2. text[b - 1] \in Ignored
        BY <1>2, <3>1 DEF b
      <3> QED BY <1>2, <1>8, <3>2 DEF Begins, b
    <2> QED BY <2>1, <2>2
  <1>10. ASSUME NEW k \in t..(f - 1), k # b PROVE ~ Begins(text, k)
    <2>1. CASE k < b
      <3>1. k \in t..(b - 1)
        BY <1>1, <1>4, <2>1
      <3> QED BY <1>2, <3>1 DEF Begins, b
    <2>2. CASE b < k
      <3>1. text[b] \in Latin /\ f = e
        BY <1>3, <1>4, <2>2 DEF b, e, f
      <3>2. k \in b..(e - 1) /\ k - 1 \in b..(e - 1) /\ k # 1
        BY <1>1, <1>4, <2>2, <3>1
      <3>3. text[k] \in Latin /\ text[k - 1] \in Latin
        BY <1>3, <3>1, <3>2 DEF IsToken, IsWord, b, e
      <3> QED BY <3>2, <3>3 DEF Begins
    <2> QED BY <1>1, <1>4, <1>10, <2>1, <2>2
  <1>11. TokensBefore(text, b) = position /\ TokensBefore(text, f) = position + 1
    <2>1. t \in Nat \ {0}
      BY <1>1
    <2> QED BY <1>4, <1>5, <1>9, <1>10, <2>1, NoOtherTokenBetween
  <1>12. NotInWord(text, f)
    <2>1. CASE text[b] \in Latin
      <3>1. f = e /\ (e = Len(text) + 1 \/ text[e] \notin Latin)
        BY <1>3, <2>1 DEF IsToken, IsWord, b, e, f
      <3> QED BY <1>1, <3>1 DEF NotInWord
    <2>2. CASE text[b] \notin Latin
      <3>1. f - 1 = b
        BY <1>3, <1>4, <2>2 DEF b, f
      <3> QED BY <2>2, <3>1 DEF NotInWord
    <2> QED BY <2>1, <2>2
  <1>13. b \in t..(f - 1)
    BY <1>1, <1>4
  <1> QED BY <1>3, <1>4, <1>6, <1>7, <1>9, <1>10, <1>11, <1>12, <1>13 DEF b, e, f

LEMMA NextTokenKeeps == SplitInv /\ NextToken => SplitInv'
  <1> SUFFICES ASSUME SplitInv, NextToken PROVE SplitInv'
    OBVIOUS
  <1>1. TextTypes /\ CountedRightly /\ PassedArePosted /\ PostedAreTokens /\ AskedAreTokens
    BY DEF SplitInv
  <1>2. /\ phase \in {"document", "query"} /\ Start <= Len(text)
        /\ posted' = (IF phase = "document" THEN posted \cup {Found} ELSE posted)
        /\ asked' = (IF phase = "query" /\ IsKept THEN asked \cup {Found} ELSE asked)
        /\ t' = Following /\ position' = position + 1
        /\ document' = document /\ query' = query /\ text' = text /\ from' = from
        /\ phase' = phase
    BY DEF NextToken
  <1>3. /\ IsToken(text, Start, End) /\ Begins(text, Start)
        /\ Found = AsRecord(text, Start, End)
        /\ Len(Token) = End - Start
        /\ Following \in 1..(Len(text) + 1) /\ NotInWord(text, Following)
        /\ position + 1 = TokensBefore(text, Following)
        /\ \A k \in t..(Following - 1) : Begins(text, k) => k = Start
        /\ Start \in t..(Following - 1)
    BY <1>1, <1>2, OneTokenFound
  <1>4. /\ Len(document) \in Nat /\ Len(query) \in Nat /\ Len(text) \in Nat /\ t \in Nat
        /\ text = IF phase = "document" THEN document ELSE query
    BY <1>1, TypesOfTexts DEF TextTypes
  <1>5. Start \in 1..Len(text) /\ End \in 1..(Len(text) + 1) /\ Following \in Nat
    BY <1>3, <1>4 DEF IsToken
  <1>6. TextTypes'
    BY <1>1, <1>2, <1>3 DEF TextTypes
  <1>7. CountedRightly'
    BY <1>2, <1>3 DEF CountedRightly
  <1>8. PassedArePosted'
    <2> SUFFICES ASSUME NEW i \in 1..Len(document), NEW j \in 1..(Len(document) + 1),
                        Begins(document, i), IsToken(document, i, j),
                        phase = "document" => i < Following
                 PROVE  AsRecord(document, i, j) \in posted'
      BY <1>2, Zenon DEF PassedArePosted
    <2>1. CASE phase = "document" /\ ~ (i < t)
      <3>1. i \in t..(Following - 1) /\ text = document
        BY <1>4, <1>5, <2>1
      <3>2. i = Start
        BY <1>3, <3>1
      <3>3. j = End
        BY <1>3, <1>4, <3>1, <3>2, OneEnd
      <3> QED BY <1>2, <1>3, <2>1, <3>1, <3>2, <3>3
    <2>2. CASE ~ (phase = "document" /\ ~ (i < t))
      <3>1. AsRecord(document, i, j) \in posted
        BY <1>1, <2>2 DEF PassedArePosted
      <3> QED BY <1>2, <3>1
    <2> QED BY <2>1, <2>2
  <1>9. PostedAreTokens'
    <2> SUFFICES ASSUME NEW x \in posted'
                 PROVE  \E i \in 1..Len(document), j \in 1..(Len(document) + 1) :
                            IsToken(document, i, j) /\ x = AsRecord(document, i, j)
      BY <1>2, ZenonT(60) DEF PostedAreTokens
    <2>1. CASE x \in posted
      BY <1>1, <2>1 DEF PostedAreTokens
    <2>2. CASE phase = "document" /\ x = Found
      BY <1>3, <1>4, <1>5, <2>2
    <2> QED BY <1>2, <2>1, <2>2
  <1>10. AskedAreTokens'
    <2> SUFFICES ASSUME NEW x \in asked'
                 PROVE  \E i \in 1..Len(query), j \in 1..(Len(query) + 1) :
                            /\ Begins(query, i) /\ IsToken(query, i, j) /\ j - i >= N
                            /\ x = AsRecord(query, i, j)
      BY <1>2, ZenonT(60) DEF AskedAreTokens
    <2>1. CASE x \in asked
      BY <1>1, <2>1 DEF AskedAreTokens
    <2>2. CASE phase = "query" /\ IsKept /\ x = Found
      <3>1. End - Start >= N
        BY <1>3, <2>2 DEF IsKept
      <3>2. text = query
        BY <1>4, <2>2
      <3> QED BY <1>3, <1>5, <2>2, <3>1, <3>2
    <2> QED BY <1>2, <2>1, <2>2
  <1> QED BY <1>6, <1>7, <1>8, <1>9, <1>10 DEF SplitInv

LEMMA TextEndsKeeps == SplitInv /\ TextEnds => SplitInv'
  <1> SUFFICES ASSUME SplitInv, TextEnds PROVE SplitInv'
    OBVIOUS
  <1>1. TextTypes /\ CountedRightly /\ PassedArePosted /\ PostedAreTokens /\ AskedAreTokens
    BY DEF SplitInv
  <1>2. /\ phase \in {"document", "query"} /\ Start > Len(text)
        /\ text' = utf8toutf32(Bytes(query)) /\ t' = 1 /\ position' = 0
        /\ phase' = (IF phase = "document" THEN "query" ELSE "done")
        /\ document' = document /\ query' = query /\ from' = from
        /\ posted' = posted /\ asked' = asked
    BY DEF TextEnds
  <1>3. /\ text \in Seq(Characters) /\ query \in Seq(Characters) /\ Len(document) \in Nat
        /\ Len(query) \in Nat /\ Len(text) \in Nat /\ t \in 1..(Len(text) + 1) /\ t \in Nat
        /\ text = IF phase = "document" THEN document ELSE query
    BY <1>1, TypesOfTexts DEF TextTypes
  <1>4. text' = query
    BY <1>2, <1>3, ReadAsWritten
  <1>5. \A k \in t..Len(text) : text[k] \in Ignored
    <2>1. Start \in t..(Len(text) + 1) /\ \A k \in t..(Start - 1) : text[k] \in Ignored
      BY <1>3, WhereItStarts
    <2> QED BY <1>2, <1>3, <2>1
  <1>6. TextTypes'
    <2>1. 1 \in 1..(Len(query) + 1)
      BY <1>3
    <2>2. phase' \in {"query", "done"} /\ phase' # "document"
      BY <1>2
    <2> QED BY <1>1, <1>2, <1>4, <2>1, <2>2 DEF TextTypes
  <1>7. CountedRightly'
    <2>1. NotInWord(query, 1) /\ TokensBefore(query, 1) = 0
      BY TokensBeforeFirst DEF NotInWord
    <2> QED BY <1>2, <1>4, <2>1 DEF CountedRightly
  <1>8. PassedArePosted'
    <2> SUFFICES ASSUME NEW i \in 1..Len(document), NEW j \in 1..(Len(document) + 1),
                        Begins(document, i), IsToken(document, i, j)
                 PROVE  AsRecord(document, i, j) \in posted
      BY <1>2, Zenon DEF PassedArePosted
    <2>1. phase = "document" => i < t
      <3>1. ASSUME phase = "document", ~ (i < t) PROVE FALSE
        <4>1. i \in t..Len(text) /\ text = document
          BY <1>3, <3>1
        <4> QED BY <1>5, <4>1 DEF Begins
      <3> QED BY <3>1
    <2> QED BY <1>1, <2>1 DEF PassedArePosted
  <1>9. PostedAreTokens' /\ AskedAreTokens'
    BY <1>1, <1>2 DEF PostedAreTokens, AskedAreTokens
  <1> QED BY <1>6, <1>7, <1>8, <1>9 DEF SplitInv

LEMMA SplitInvHolds == SplitSpec => []SplitInv
  <1>1. SplitInv /\ UNCHANGED splitVars => SplitInv'
    <2> SUFFICES ASSUME SplitInv, UNCHANGED splitVars PROVE SplitInv'
      OBVIOUS
    <2> USE DEF splitVars
    <2>1. TextTypes' /\ CountedRightly'
      BY DEF SplitInv, TextTypes, CountedRightly
    <2>2. PassedArePosted'
      BY DEF SplitInv, PassedArePosted
    <2>3. PostedAreTokens' /\ AskedAreTokens'
      BY DEF SplitInv, PostedAreTokens, AskedAreTokens
    <2> QED BY <2>1, <2>2, <2>3 DEF SplitInv
  <1>2. SplitInv /\ [SplitNext]_splitVars => SplitInv'
    BY <1>1, NextTokenKeeps, TextEndsKeeps DEF SplitNext
  <1> QED BY <1>2, InitSplitInv, PTL DEF SplitSpec

-----------------------------------------------------------------------------
\* A token is a piece of the text, as many bytes as were counted.
LEMMA PiecesFromInv == SplitInv => TokensArePieces
  <1> SUFFICES ASSUME SplitInv, NEW x \in posted
               PROVE  \E i, j \in 1..Len(document) :
                          /\ i <= j
                          /\ x.token = Bytes(SubSeq(document, i, j))
                          /\ Len(x.token) = uchar2utf8_size(SubSeq(document, i, j))
    BY DEF TokensArePieces
  <1>1. document \in Seq(Characters)
    BY DEF SplitInv, TextTypes
  <1>2. PICK i \in 1..Len(document), j \in 1..(Len(document) + 1) :
            IsToken(document, i, j) /\ x = AsRecord(document, i, j)
    BY DEF SplitInv, PostedAreTokens
  <1> DEFINE l == j - 1
  <1>3. /\ l \in i..Len(document) /\ SubSeq(document, i, l) \in Seq(Characters)
        /\ x.token = Bytes(SubSeq(document, i, l))
    BY <1>1, <1>2, TokenIsPiece DEF AsRecord
  <1> HIDE DEF l
  <1>4. l \in 1..Len(document) /\ i <= l
    BY <1>1, <1>3
  <1>5. Len(x.token) = uchar2utf8_size(SubSeq(document, i, l))
    BY <1>3, SizeIsRight
  <1> QED BY <1>3, <1>4, <1>5

LEMMA IndexedFromInv == SplitInv => EverythingIsIndexed
  <1> SUFFICES ASSUME SplitInv, phase = "done",
                      NEW i \in 1..Len(document), NEW j \in 1..Len(document), i <= j,
                      \/ /\ \A k \in i..j : document[k] \in Other
                         /\ j - i + 1 = N
                      \/ /\ \A k \in i..j : document[k] \in Latin
                         /\ i = 1 \/ document[i - 1] \notin Latin
                         /\ j = Len(document) \/ document[j + 1] \notin Latin
               PROVE  HasToken(SubSeq(document, i, j))
    BY Zenon DEF EverythingIsIndexed
  <1>1. Len(document) \in Nat /\ i \in Nat /\ j \in Nat
    BY DEF SplitInv, TextTypes
  <1> DEFINE e == j + 1
  <1>2. /\ e \in 1..(Len(document) + 1) /\ e \in (i + 1)..(Len(document) + 1)
        /\ e - 1 = j /\ i \in i..j
        /\ e = i + N <=> j - i + 1 = N
        /\ e = Len(document) + 1 <=> j = Len(document)
    BY <1>1, TokenLengthAssumption
  <1> HIDE DEF e
  <1>3. Begins(document, i) /\ IsToken(document, i, e)
    <2>1. CASE (\A k \in i..j : document[k] \in Other) /\ j - i + 1 = N
      <3>1. document[i] \in Other /\ document[i] \notin Latin /\ document[i] \notin Ignored
        BY <1>2, <2>1, CharactersAssumption
      <3>2. IsGram(document, i, e)
        BY <1>1, <1>2, <2>1, TokenLengthAssumption DEF IsGram
      <3> QED BY <1>2, <3>1, <3>2 DEF Begins, IsToken
    <2>2. CASE /\ \A k \in i..j : document[k] \in Latin
               /\ i = 1 \/ document[i - 1] \notin Latin
               /\ j = Len(document) \/ document[j + 1] \notin Latin
      <3>1. document[i] \in Latin /\ document[i] \notin Ignored
        BY <1>2, <2>2, CharactersAssumption
      <3>2. IsWord(document, i, e)
        BY <1>2, <2>2 DEF IsWord, e
      <3> QED BY <1>2, <2>2, <3>1, <3>2 DEF Begins, IsToken
    <2> QED BY <2>1, <2>2
  <1>4. AsRecord(document, i, e) \in posted
    BY <1>2, <1>3 DEF SplitInv, PassedArePosted
  <1>5. AsRecord(document, i, e).token = Bytes(SubSeq(document, i, j))
    BY <1>2 DEF AsRecord
  <1> QED BY <1>4, <1>5 DEF HasToken

\* The place in the document of a place in the query.
InDocument(i) == from + i - 1

\* An excerpt without broken words is cut as the document is.
LEMMA ExcerptBeginsAlike ==
    ASSUME TextTypes, WordsAreWhole, NEW i \in 1..Len(query)
    PROVE  Begins(query, i) <=> Begins(document, InDocument(i))
  <1>1. /\ Len(document) \in Nat /\ Len(query) \in Nat /\ from \in Nat
        /\ \A k \in 1..Len(query) : query[k] = document[from + k - 1]
    BY TypesOfTexts
  <1>2. from \in 1..Len(document) /\ from + Len(query) - 1 <= Len(document)
    BY DEF TextTypes
  <1>3. query[i] = document[InDocument(i)]
    BY <1>1 DEF InDocument
  <1>4. CASE i = 1
    <2>1. InDocument(1) = from
      BY <1>1 DEF InDocument
    <2>2. document[from] \in Latin => from = 1 \/ document[from - 1] \notin Latin
      <3>1. from - 1 \in 1..(Len(document) - 1) => ~ ({document[from - 1], document[from - 1 + 1]} \subseteq Latin)
        BY DEF WordsAreWhole
      <3>2. from # 1 => from - 1 \in 1..(Len(document) - 1)
        BY <1>1, <1>2
      <3>3. from - 1 + 1 = from
        BY <1>1
      <3> QED BY <3>1, <3>2, <3>3
    <2> QED BY <1>3, <1>4, <2>1, <2>2 DEF Begins
  <1>5. CASE i # 1
    <2>1. i - 1 \in 1..Len(query) /\ from + (i - 1) - 1 = InDocument(i) - 1 /\ InDocument(i) # 1
      BY <1>1, <1>2, <1>5 DEF InDocument
    <2>2. query[i - 1] = document[InDocument(i) - 1]
      BY <1>1, <2>1
    <2> QED BY <1>3, <1>5, <2>1, <2>2 DEF Begins
  <1> QED BY <1>4, <1>5

LEMMA ExcerptCountsAlike ==
    ASSUME TextTypes, WordsAreWhole, NEW i \in 1..Len(query)
    PROVE  TokensBefore(document, InDocument(i))
               = TokensBefore(query, i) + TokensBefore(document, from)
  <1> DEFINE shift == TokensBefore(document, from)
             Alike(n) == TokensBefore(document, from + n) = TokensBefore(query, n + 1) + shift
             m == i - 1
             G == {n \in 0..m : Alike(n)}
  <1>1. Len(query) \in Nat /\ from \in Nat /\ from >= 1
    BY TypesOfTexts DEF TextTypes
  <1>2. m \in Nat /\ shift \in Nat /\ from + 0 = from /\ 0 + 1 = 1
    BY <1>1, OneMoreToken
  <1> HIDE DEF shift
  <1>3. 0 \in G
    BY <1>2, TokensBeforeFirst DEF shift
  <1>4. ASSUME NEW n \in 1..m, n - 1 \in G PROVE n \in G
    <2> DEFINE d == from + (n - 1)
    <2>1. /\ n \in 1..Len(query) /\ n \in Nat \ {0} /\ n \in 0..m /\ (n - 1) + 1 = n
          /\ d \in Nat \ {0} /\ from + n = d + 1 /\ d = InDocument(n)
      BY <1>1, <1>2 DEF InDocument
    <2>2. TokensBefore(document, d) = TokensBefore(query, n) + shift
      BY <1>4, <2>1
    <2> HIDE DEF d
    <2>3. /\ TokensBefore(document, d + 1) =
                 TokensBefore(document, d) + (IF Begins(document, d) THEN 1 ELSE 0)
          /\ TokensBefore(query, n + 1) =
                 TokensBefore(query, n) + (IF Begins(query, n) THEN 1 ELSE 0)
          /\ TokensBefore(query, n) \in Nat
      BY <2>1, OneMoreToken
    <2>4. Begins(query, n) <=> Begins(document, d)
      BY <2>1, ExcerptBeginsAlike
    <2>5. TokensBefore(document, d + 1) = TokensBefore(query, n + 1) + shift
      BY <1>2, <2>2, <2>3, <2>4
    <2> QED BY <2>1, <2>5
  <1> HIDE DEF G
  <1>5. 0..m \subseteq G
    BY <1>2, <1>3, <1>4, Induction
  <1>6. Alike(m)
    BY <1>2, <1>5 DEF G
  <1>7. from + m = InDocument(i) /\ m + 1 = i
    BY <1>1 DEF InDocument
  <1> QED BY <1>6, <1>7 DEF shift

\* A token that a query keeps ends where the document's token ends.
LEMMA ExcerptEndsAlike ==
    ASSUME TextTypes, WordsAreWhole, NEW i, NEW j, IsToken(query, i, j), j - i >= N
    PROVE  IsToken(document, InDocument(i), InDocument(j))
  <1> DEFINE a == InDocument(i)
             b == InDocument(j)
  <1>1. /\ Len(document) \in Nat /\ Len(query) \in Nat /\ from \in Nat
        /\ \A k \in 1..Len(query) : query[k] = document[from + k - 1]
    BY TypesOfTexts
  <1>2. from \in 1..Len(document) /\ from + Len(query) - 1 <= Len(document)
    BY DEF TextTypes
  <1>3. /\ i \in 1..Len(query) /\ j \in (i + 1)..(Len(query) + 1)
        /\ j \in 1..Len(query) \/ j = Len(query) + 1
    <2>1. i \in 1..Len(query) /\ j \in (i + 1)..(Len(query) + 1)
      BY DEF IsToken
    <2>2. Len(query) \in Nat
      BY TypesOfTexts
    <2> HIDE DEF a, b
    <2> QED BY <2>1, <2>2
  <1>4. /\ a \in 1..Len(document) /\ b \in (a + 1)..(Len(document) + 1)
        /\ b - a = j - i /\ i \in Nat /\ j \in Nat /\ a \in Nat /\ b \in Nat
    BY <1>1, <1>2, <1>3 DEF InDocument
  <1>5. query[i] = document[a]
    BY <1>1, <1>3 DEF InDocument
  <1>6. ASSUME NEW k \in a..(b - 1) PROVE \E l \in i..(j - 1) : query[l] = document[k]
    <2>1. k - from + 1 \in i..(j - 1) /\ k - from + 1 \in 1..Len(query)
          /\ from + (k - from + 1) - 1 = k
      BY <1>1, <1>3, <1>4 DEF InDocument
    <2> QED BY <1>1, <2>1
  <1>7. CASE query[i] \in Latin
    <2>1. IsWord(query, i, j)
      BY <1>7 DEF IsToken
    <2>2. \A k \in a..(b - 1) : document[k] \in Latin
      BY <1>6, <2>1 DEF IsWord
    <2>3. b = Len(document) + 1 \/ document[b] \notin Latin
      <3>1. CASE j \in 1..Len(query)
        <4>1. query[j] \notin Latin
          BY <1>1, <2>1, <3>1 DEF IsWord
        <4>2. query[j] = document[b]
          BY <1>1, <3>1 DEF InDocument
        <4> QED BY <4>1, <4>2
      <3>2. CASE j = Len(query) + 1
        <4> DEFINE last == from + Len(query) - 1
        <4>1. b = last + 1 /\ last = b - 1 /\ b - 1 \in a..(b - 1)
          BY <1>1, <1>4, <3>2 DEF InDocument
        <4>2. last \in 1..(Len(document) - 1) => ~ ({document[last], document[last + 1]} \subseteq Latin)
          BY DEF WordsAreWhole
        <4>3. document[last] \in Latin
          BY <2>2, <4>1, Zenon
        <4> HIDE DEF last, a, b
        <4>4. b # Len(document) + 1 => last \in 1..(Len(document) - 1)
          <5>1. /\ Len(document) \in Nat /\ a \in Nat /\ a \in 1..Len(document)
                /\ b \in (a + 1)..(Len(document) + 1) /\ last = b - 1
            BY <1>1, <1>4, <4>1, Zenon
          <5> QED BY <5>1
        <4>5. last \in 1..(Len(document) - 1) => document[b] \notin Latin
          BY <4>1, <4>2, <4>3
        <4> QED BY <4>4, <4>5
      <3> QED BY <1>3, <3>1, <3>2, Zenon
    <2>4. IsWord(document, a, b)
      BY <2>2, <2>3 DEF IsWord
    <2> QED BY <1>4, <1>5, <1>7, <2>4 DEF IsToken
  <1>8. CASE query[i] \notin Latin
    <2>1. IsGram(query, i, j)
      BY <1>8 DEF IsToken
    <2>2. N \in Nat
      BY TokenLengthAssumption
    <2>3. \A k \in a..(b - 1) : document[k] \in Other
      BY <1>6, <2>1 DEF IsGram
    <2>4. j <= i + N
      BY <2>1 DEF IsGram
    <2> HIDE DEF a, b
    <2>5. b = a + N /\ b <= a + N
      BY <1>4, <2>2, <2>4
    <2>6. IsGram(document, a, b)
      BY <2>3, <2>5 DEF IsGram
    <2>7. IsToken(document, a, b)
      BY <1>4, <1>5, <1>8, <2>6 DEF IsToken
    <2> QED BY <2>7 DEF a, b
  <1> QED BY <1>7, <1>8

LEMMA FoundFromInv == SplitInv => ExcerptIsFound
  <1> SUFFICES ASSUME SplitInv, phase = "done", WordsAreWhole
               PROVE  \E shift \in 0..Len(document) : \A x \in asked :
                          [position |-> x.position + shift, token |-> x.token] \in posted
    BY Zenon DEF ExcerptIsFound
  <1> DEFINE shift == TokensBefore(document, from)
  <1>1. TextTypes /\ PassedArePosted /\ AskedAreTokens
    BY DEF SplitInv
  <1>2. /\ Len(document) \in Nat /\ Len(query) \in Nat /\ from \in Nat
        /\ query \in Seq(Characters) /\ document \in Seq(Characters)
        /\ \A k \in 1..Len(query) : query[k] = document[from + k - 1]
    BY <1>1, TypesOfTexts DEF TextTypes
  <1>3. from \in 1..Len(document) /\ from + Len(query) - 1 <= Len(document)
    BY <1>1 DEF TextTypes
  <1>4. shift \in 0..Len(document)
    <2>1. shift \in 0..(from - 1)
      BY <1>3, <1>2, OneMoreToken
    <2> HIDE DEF shift
    <2> QED BY <1>2, <1>3, <2>1
  <1>5. ASSUME NEW x \in asked
        PROVE  [position |-> x.position + shift, token |-> x.token] \in posted
    <2>1. PICK i \in 1..Len(query), j \in 1..(Len(query) + 1) :
              /\ Begins(query, i) /\ IsToken(query, i, j) /\ j - i >= N
              /\ x = AsRecord(query, i, j)
      BY <1>1 DEF AskedAreTokens
    <2> DEFINE a == InDocument(i)
               b == InDocument(j)
    <2>2. IsToken(document, a, b) /\ Begins(document, a)
      BY <1>1, <2>1, ExcerptEndsAlike, ExcerptBeginsAlike
    <2>3. a \in 1..Len(document) /\ b \in 1..(Len(document) + 1)
      BY <1>2, <2>2 DEF IsToken
    <2>4. AsRecord(document, a, b) \in posted
      BY <1>1, <2>2, <2>3 DEF PassedArePosted
    <2>5. TokensBefore(document, a) = x.position + shift
      BY <1>1, <2>1, ExcerptCountsAlike DEF AsRecord
    <2>6. SubSeq(document, a, b - 1) = SubSeq(query, i, j - 1)
      <3> DEFINE y == SubSeq(document, a, b - 1)
                 z == SubSeq(query, i, j - 1)
                 m == j - i
      <3>1. /\ i \in Nat /\ j \in Nat /\ i < j /\ j - 1 \in i..Len(query)
            /\ z \in Seq(Characters) /\ Len(z) = m
        BY <1>2, <2>1, TokenIsPiece
      <3>2. /\ b - 1 \in a..Len(document) /\ y \in Seq(Characters) /\ Len(y) = b - a
        BY <1>2, <2>2, TokenIsPiece
      <3>3. b - a = m /\ (j - 1) - i + 1 = m /\ (b - 1) - a + 1 = m
        BY <1>2, <3>1 DEF InDocument
      <3>4. ASSUME NEW k \in 1..m PROVE y[k] = z[k]
        <4>1. z[k] = query[i + k - 1]
          BY <1>2, <3>1, <3>3, AnExcerpt
        <4>2. y[k] = document[a + k - 1]
          <5> HIDE DEF a, b
          <5>1. k \in 1..((b - 1) - a + 1)
            BY <3>3
          <5> HIDE DEF m
          <5> QED BY <1>2, <2>3, <3>2, <5>1, AnExcerpt
        <4>3. i + k - 1 \in 1..Len(query) /\ from + (i + k - 1) - 1 = a + k - 1
          BY <1>2, <3>1 DEF InDocument
        <4> QED BY <1>2, <4>1, <4>2, <4>3
      <3> HIDE DEF y, z, m
      <3> QED BY <3>1, <3>2, <3>3, <3>4, SeqEqual DEF y, z
    <2>7. x.token = Bytes(SubSeq(document, a, b - 1))
      BY <2>1, <2>6 DEF AsRecord
    <2> HIDE DEF a, b, shift
    <2> QED BY <2>4, <2>5, <2>7 DEF AsRecord
  <1> QED BY <1>4, <1>5

(***************************************************************************)
(* UTF-8 is read as it was written, and written as it was given: a text    *)
(* that reaches the program as the bytes of RFC 3629 is split as the       *)
(* characters it is made of, a token of them is written as the same bytes, *)
(* and one byte more than the buffer for it holds, a 0 (util.c:130-206,    *)
(* 256-288, token.c:270).                                                  *)
(***************************************************************************)
THEOREM TextSurvives ==
    \A s \in Seq(Characters) :
        /\ utf8toutf32(Bytes(s)) = s
        /\ utf32toutf8(s) = Append(Bytes(s), 0)
        /\ uchar2utf8_size(s) = Len(Bytes(s))
  BY ReadAsWritten, WrittenAsGiven, SizeIsRight

\* Only pieces of the text are indexed, whole characters of it, for every
\* text and length of token (ngram_next, utf32toutf8).
THEOREM TokensAlwaysPieces == SplitSpec => []TokensArePieces
  BY SplitInvHolds, PiecesFromInv, PTL

\* Every word and every N neighbouring characters are indexed (ngram_next,
\* text_to_postings_lists).
THEOREM EverythingAlwaysIndexed == SplitSpec => []EverythingIsIndexed
  BY SplitInvHolds, IndexedFromInv, PTL

\* The tokens of an excerpt are those of the document, all at one distance,
\* although it is cut anew and loses its short tokens (text_to_postings_lists).
THEOREM ExcerptAlwaysFound == SplitSpec => []ExcerptIsFound
  BY SplitInvHolds, FoundFromInv, PTL

-----------------------------------------------------------------------------
Sorted ==
    \A k \in Cursors : \A i, j \in 1..Len(positions[k]) :
        i < j => positions[k][i] < positions[k][j]

\* The first cursor stands at the offset of the round.
InRound == ~ AtEnd(1) /\ rel = Offset(1)

\* The other cursors compared so far stand there as well.
AgreeBelow(n) == \A k \in 2..n - 1 : k \in Cursors => ~ AtEnd(k) /\ Offset(k) = rel

\* The cursor that ended the round stands at a larger offset.
OneIsAhead == inner \in Cursors /\ ~ AtEnd(inner) /\ Offset(inner) = next

(***************************************************************************)
(* NoStartIsPassed is kept by what the loop has read before: that a cursor *)
(* moves below the offset of another one, and that a phrase is counted     *)
(* where all the cursors stand at one offset.                              *)
(***************************************************************************)
IInv ==
    /\ TypeOK
    /\ Sorted
    /\ NoStartIsPassed
    /\ pc = "compare" => InRound /\ next = rel /\ AgreeBelow(inner)
    /\ pc = "decide" => InRound /\ \/ next = rel /\ AgreeBelow(Len(base) + 1)
                                   \/ next > rel /\ OneIsAhead
    /\ pc = "skip" => OneIsAhead
    /\ pc = "exit" => \E k \in Cursors : AtEnd(k)

LEMMA Types ==
    ASSUME TypeOK
    PROVE  /\ Len(base) \in Nat \ {0}
           /\ 1 \in Cursors
           /\ \A k \in Cursors : /\ base[k] \in Nat
                                 /\ Len(positions[k]) \in Nat
                                 /\ at[k] \in 1..(Len(positions[k]) + 1)
                                 /\ \A i \in 1..Len(positions[k]) :
                                        positions[k][i] \in Nat
                                 /\ ~ AtEnd(k) => /\ at[k] \in 1..Len(positions[k])
                                                  /\ Offset(k) \in Int
<1>1. Len(base) \in Nat \ {0} /\ 1 \in Cursors
  BY DEF TypeOK, Cursors
<1>2. ASSUME NEW k \in Cursors
      PROVE  /\ base[k] \in Nat
             /\ Len(positions[k]) \in Nat
             /\ at[k] \in 1..(Len(positions[k]) + 1)
             /\ \A i \in 1..Len(positions[k]) : positions[k][i] \in Nat
  <2>1. positions[k] \in Seq(Nat)
    BY DEF TypeOK
  <2>2. base[k] \in Nat
    BY ElementOfSeq DEF TypeOK, Cursors
  <2>. QED BY <2>1, <2>2 DEF TypeOK
<1>3. ASSUME NEW k \in Cursors, ~ AtEnd(k)
      PROVE  at[k] \in 1..Len(positions[k]) /\ Offset(k) \in Int
  <2>1. at[k] \in 1..Len(positions[k])
    BY <1>2, <1>3 DEF AtEnd
  <2>. QED BY <1>2, <2>1 DEF Offset
<1>. QED BY <1>1, <1>2, <1>3

\* A cursor can reach nothing below its offset.
LEMMA AheadIsLarger ==
    ASSUME TypeOK, Sorted, NEW k \in Cursors, NEW r \in Int, Ahead(k, r)
    PROVE  ~ AtEnd(k) /\ Offset(k) <= r
<1>. DEFINE L == positions[k]
            a == at[k]
            b == base[k]
<1>1. /\ Len(L) \in Nat /\ a \in 1..(Len(L) + 1) /\ b \in Nat
      /\ \A i \in 1..Len(L) : L[i] \in Nat
      /\ \A i, j \in 1..Len(L) : i < j => L[i] < L[j]
  BY Types DEF Sorted
<1>2. PICK i \in a..Len(L) : L[i] - b = r
  BY DEF Ahead
<1>3. (AtEnd(k) <=> a > Len(L)) /\ Offset(k) = L[a] - b
  BY DEF AtEnd, Offset
<1>. HIDE DEF L, a, b
<1>4. a <= Len(L) /\ a \in 1..Len(L) /\ i \in 1..Len(L) /\ (a = i \/ a < i)
  BY <1>1, <1>2
<1>5. L[a] <= L[i]
  BY <1>1, <1>4
<1>6. L[a] \in Nat /\ L[i] \in Nat
  BY <1>1, <1>4
<1>. QED BY <1>1, <1>2, <1>3, <1>4, <1>5, <1>6

LEMMA OffsetIsAhead ==
    ASSUME TypeOK, NEW k \in Cursors, ~ AtEnd(k)
    PROVE  Ahead(k, Offset(k))
<1>1. at[k] \in at[k]..Len(positions[k])
  BY Types
<1>. QED BY <1>1 DEF Ahead, Offset

\* A cursor that moves on gives up its offset and nothing else.
LEMMA AheadAfterMove ==
    ASSUME TypeOK, Sorted, NEW m \in Cursors, ~ AtEnd(m),
           at' = [at EXCEPT ![m] = @ + 1],
           base' = base, positions' = positions,
           NEW k \in Cursors, NEW r \in Int
    PROVE  Ahead(k, r)' <=> Ahead(k, r) /\ ~ (k = m /\ r = Offset(m))
<1>1. at \in [Cursors -> Nat]
  BY DEF TypeOK
<1>2. CASE k # m
  BY <1>1, <1>2 DEF Ahead
<1>3. CASE k = m
  <2>. DEFINE L == positions[m]
              a == at[m]
              b == base[m]
  <2>1. at'[m] = a + 1
    BY <1>1
  <2>2. /\ Len(L) \in Nat /\ a \in 1..Len(L) /\ b \in Nat
        /\ \A i \in 1..Len(L) : L[i] \in Nat
        /\ Offset(m) = L[a] - b
        /\ \A i \in 1..Len(L) : a < i => L[a] < L[i]
    BY Types DEF Sorted, Offset
  <2>3. /\ Ahead(k, r)' <=> \E i \in (a + 1)..Len(L) : L[i] - b = r
        /\ Ahead(k, r) <=> \E i \in a..Len(L) : L[i] - b = r
    BY <1>3, <2>1 DEF Ahead
  <2>. HIDE DEF L, a, b
  <2>4. \A i : i \in (a + 1)..Len(L) <=> i \in a..Len(L) /\ i # a
    BY <2>2
  <2>5. \A i \in (a + 1)..Len(L) : L[i] - b # L[a] - b
    BY <2>2
  <2>. QED BY <1>3, <2>2, <2>3, <2>4, <2>5
<1>. QED BY <1>2, <1>3

LEMMA AtAfterMove ==
    ASSUME TypeOK, NEW m \in Cursors, ~ AtEnd(m),
           at' = [at EXCEPT ![m] = @ + 1]
    PROVE  /\ at' \in [Cursors -> Nat]
           /\ \A k \in Cursors : at'[k] \in 1..(Len(positions[k]) + 1)
<1>1. \A k \in Cursors : at'[k] = IF k = m THEN at[m] + 1 ELSE at[k]
  BY DEF TypeOK
<1>2. at[m] + 1 \in 1..(Len(positions[m]) + 1) /\ at[m] + 1 \in Nat
  BY Types
<1>. QED BY <1>1, <1>2 DEF TypeOK

LEMMA StartsType == TypeOK => Starts \in SUBSET Int /\ IsFiniteSet(Starts)
<1>. SUFFICES ASSUME TypeOK PROVE Starts \in SUBSET Int /\ IsFiniteSet(Starts)
  OBVIOUS
<1>. DEFINE n == Len(positions[1])
            f == [i \in 1..n |-> positions[1][i] - base[1]]
            T == {p - base[1] : p \in PositionsOf(1)}
<1>1. n \in Nat /\ \A i \in 1..n : f[i] \in Int
  BY Types
<1>2. f \in Surjection(1..n, T)
  BY DEF PositionsOf, Surjection
<1>3. IsFiniteSet(1..n)
  BY <1>1, FS_Interval
<1>4. IsFiniteSet(T) /\ T \in SUBSET Int
  <2>1. T \in SUBSET Int
    BY Types DEF PositionsOf
  <2>. HIDE DEF T, f
  <2>. QED BY <1>2, <1>3, <2>1, FS_Surjection
<1>5. Starts \in SUBSET T
  BY DEF Starts
<1>. HIDE DEF T
<1>. QED BY <1>4, <1>5, FS_Subset

-----------------------------------------------------------------------------
\* r is not in reach of all cursors, so it is no start that is still ahead.
LEMMA NotAStart ==
    ASSUME TypeOK, Sorted, NoStartIsPassed, ~ AtEnd(1),
           NEW k \in Cursors, AtEnd(k) \/ Offset(k) > Offset(1)
    PROVE  Offset(1) \notin Starts
<1>. SUFFICES ASSUME Offset(1) \in Starts PROVE FALSE
  OBVIOUS
<1>1. Ahead(1, Offset(1)) /\ Offset(1) \in Int
  BY OffsetIsAhead, Types
<1>2. Ahead(k, Offset(1))
  BY <1>1 DEF NoStartIsPassed
<1>3. ~ AtEnd(k) /\ Offset(k) <= Offset(1)
  BY <1>1, <1>2, AheadIsLarger
<1>4. Offset(k) \in Int
  BY <1>3, Types
<1>. QED BY <1>1, <1>3, <1>4

\* Where all cursors stand at one offset, the phrase starts.
LEMMA AgreementIsStart ==
    ASSUME TypeOK, InRound, AgreeBelow(Len(base) + 1)
    PROVE  rel \in Starts
<1>1. \A k \in Cursors : ~ AtEnd(k) /\ Offset(k) = rel
  <2>1. \A k \in Cursors : k = 1 \/ k \in 2..(Len(base) + 1) - 1
    BY Types DEF Cursors
  <2>. QED BY <2>1 DEF InRound, AgreeBelow
<1>2. ASSUME NEW k \in Cursors PROVE base[k] + rel \in PositionsOf(k)
  <2>1. /\ at[k] \in 1..Len(positions[k])
        /\ positions[k][at[k]] \in Nat /\ base[k] \in Nat
        /\ rel = positions[k][at[k]] - base[k]
    BY <1>1, Types DEF Offset
  <2>2. base[k] + rel = positions[k][at[k]]
    BY <2>1
  <2>. QED BY <2>1, <2>2 DEF PositionsOf
<1>3. rel \in {p - base[1] : p \in PositionsOf(1)}
  <2>1. base[1] + rel \in PositionsOf(1) /\ base[1] \in Nat /\ rel \in Int
    BY <1>2, Types DEF TypeOK
  <2>2. rel = (base[1] + rel) - base[1]
    BY <2>1
  <2>. QED BY <2>1, <2>2
<1>. QED BY <1>2, <1>3 DEF Starts

LEMMA InvInit == Init => IInv
<1>. SUFFICES ASSUME Init PROVE IInv
  OBVIOUS
<1>. USE DEF Init
<1>1. base \in Seq(Nat) /\ Len(base) > 0 /\ positions \in [Cursors -> Seq(Nat)]
  BY BasesAssumption, PositionListsAssumption DEF Cursors
<1>2. \A k \in Cursors : at[k] = 1 /\ 1 \in 1..(Len(positions[k]) + 1)
  BY <1>1 DEF Cursors
<1>3. TypeOK
  BY <1>1, <1>2 DEF TypeOK, Cursors
<1>4. Sorted
  BY PositionListsAssumption DEF Sorted, Cursors
<1>5. ASSUME NEW r \in Starts, NEW k \in Cursors PROVE Ahead(k, r)
  <2>1. r \in Int /\ base[k] \in Nat
    BY <1>3, StartsType, Types
  <2>2. PICK i \in 1..Len(positions[k]) : positions[k][i] = base[k] + r
    BY DEF Starts, PositionsOf
  <2>3. (base[k] + r) - base[k] = r
    BY <2>1
  <2>4. positions[k][i] - base[k] = r /\ at[k] = 1
    BY <1>2, <2>2, <2>3
  <2>. QED BY <2>2, <2>4 DEF Ahead
<1>6. {r \in Starts : ~ Ahead(1, r)} = {}
  BY <1>3, <1>5, Types
<1>7. NoStartIsPassed
  BY <1>5, <1>6, FS_EmptySet DEF NoStartIsPassed
<1>. QED BY <1>3, <1>4, <1>7 DEF IInv

\* A cursor other than the first moves below the offset of the round.
LEMMA SkipOtherStep == IInv /\ SkipOther => IInv'
<1>. SUFFICES ASSUME IInv, SkipOther PROVE IInv'
  OBVIOUS
<1>1. /\ TypeOK /\ Sorted /\ NoStartIsPassed
      /\ pc = "compare" /\ pc' = "compare"
      /\ inner \in Cursors /\ ~ AtEnd(inner) /\ Offset(inner) < rel
      /\ InRound /\ next = rel /\ AgreeBelow(inner)
      /\ at' = [at EXCEPT ![inner] = @ + 1]
      /\ UNCHANGED <<base, positions, rel, inner, next, count>>
  BY DEF IInv, SkipOther, IsBefore
<1>2. inner # 1
  BY <1>1, Types DEF InRound
<1>3. TypeOK'
  BY <1>1, AtAfterMove DEF TypeOK, Cursors
<1>4. Sorted' /\ Starts' = Starts /\ Cursors' = Cursors
  BY <1>1 DEF Sorted, Cursors, Starts, PositionsOf
<1>5. NoStartIsPassed'
  <2>1. \A k \in Cursors, r \in Starts :
            Ahead(k, r)' <=> Ahead(k, r) /\ ~ (k = inner /\ r = Offset(inner))
    BY <1>1, AheadAfterMove, StartsType
  <2>2. \A r \in Starts : Ahead(1, r) => r # Offset(inner)
    <3>1. \A r \in Starts : Ahead(1, r) => Offset(1) <= r
      BY <1>1, AheadIsLarger, StartsType, Types
    <3>. QED BY <1>1, <3>1, StartsType, Types DEF InRound
  <2>3. \A r \in Starts : Ahead(1, r)' <=> Ahead(1, r)
    BY <1>1, <1>2, <2>1, Types
  <2>4. {r \in Starts : ~ Ahead(1, r)}' = {r \in Starts : ~ Ahead(1, r)}
    BY <1>4, <2>3
  <2>5. \A r \in Starts, k \in Cursors : Ahead(1, r)' => Ahead(k, r)'
    BY <1>1, <2>1, <2>2, <2>3 DEF NoStartIsPassed
  <2>. QED BY <1>1, <1>4, <2>4, <2>5 DEF NoStartIsPassed
<1>6. InRound' /\ AgreeBelow(inner)'
  <2>1. \A k \in Cursors : k # inner => at'[k] = at[k]
    BY <1>1 DEF TypeOK
  <2>2. 1 \in Cursors
    BY <1>1, Types
  <2>3. \A k \in 2..inner - 1 : k # inner
    BY <1>1, Types DEF TypeOK
  <2>. QED BY <1>1, <1>2, <2>1, <2>2, <2>3 DEF InRound, AgreeBelow, AtEnd, Offset, Cursors
<1>. QED BY <1>1, <1>3, <1>4, <1>5, <1>6 DEF IInv

\* The first cursor moves on: from a start, which is then counted, or from an
\* offset that is no start.
LEMMA FirstMoves ==
    ASSUME TypeOK, Sorted, NoStartIsPassed, ~ AtEnd(1),
           at' = [at EXCEPT ![1] = @ + 1],
           base' = base, positions' = positions,
           count' = IF Offset(1) \in Starts THEN count + 1 ELSE count
    PROVE  Sorted' /\ NoStartIsPassed'
<1>. DEFINE passed == {r \in Starts : ~ Ahead(1, r)}
<1>1. Sorted' /\ Starts' = Starts /\ Cursors' = Cursors
  BY DEF Sorted, Cursors, Starts, PositionsOf
<1>2. 1 \in Cursors /\ count \in Nat
  BY Types DEF TypeOK
<1>3. \A k \in Cursors, r \in Starts :
          Ahead(k, r)' <=> Ahead(k, r) /\ ~ (k = 1 /\ r = Offset(1))
  BY <1>2, AheadAfterMove, StartsType
<1>4. passed' = IF Offset(1) \in Starts THEN passed \cup {Offset(1)} ELSE passed
  BY <1>1, <1>2, <1>3
<1>5. IsFiniteSet(passed)
  BY StartsType, FS_Subset
<1>6. Offset(1) \notin passed
  BY <1>2, OffsetIsAhead
<1>7. Cardinality(passed \cup {Offset(1)}) = Cardinality(passed) + 1
  <2>. HIDE DEF passed
  <2>. QED BY <1>5, <1>6, FS_AddElement
<1>8. count = Cardinality(passed)
  BY DEF NoStartIsPassed
<1>9. count' = Cardinality(passed')
  <2>. HIDE DEF passed
  <2>. QED BY <1>4, <1>7, <1>8
<1>10. \A r \in Starts, k \in Cursors : Ahead(1, r)' => Ahead(k, r)'
  BY <1>2, <1>3 DEF NoStartIsPassed
<1>. QED BY <1>1, <1>9, <1>10 DEF NoStartIsPassed

LEMMA PhraseFoundStep == IInv /\ PhraseFound => IInv'
<1>. SUFFICES ASSUME IInv, PhraseFound PROVE IInv'
  OBVIOUS
<1>1. /\ TypeOK /\ Sorted /\ NoStartIsPassed
      /\ pc = "decide" /\ pc' = "round"
      /\ InRound /\ next <= rel
      /\ (next = rel /\ AgreeBelow(Len(base) + 1)) \/ (next > rel /\ OneIsAhead)
      /\ at' = [at EXCEPT ![1] = @ + 1]
      /\ count' = count + 1
      /\ UNCHANGED <<base, positions, rel, inner, next>>
  BY DEF IInv, PhraseFound
<1>2. rel \in Int /\ next \in Int
  BY <1>1 DEF TypeOK
<1>3. AgreeBelow(Len(base) + 1)
  BY <1>1, <1>2
<1>4. Offset(1) \in Starts /\ ~ AtEnd(1)
  BY <1>1, <1>3, AgreementIsStart DEF InRound
<1>5. Sorted' /\ NoStartIsPassed'
  BY <1>1, <1>4, FirstMoves
<1>6. TypeOK'
  BY <1>1, <1>4, AtAfterMove, Types DEF TypeOK, Cursors
<1>. QED BY <1>1, <1>5, <1>6 DEF IInv

LEMMA SkipFirstStep == IInv /\ SkipFirst => IInv'
<1>. SUFFICES ASSUME IInv, SkipFirst PROVE IInv'
  OBVIOUS
<1>1. /\ TypeOK /\ Sorted /\ NoStartIsPassed
      /\ pc = "skip" /\ pc' = "skip"
      /\ ~ AtEnd(1) /\ Offset(1) < next
      /\ OneIsAhead
      /\ at' = [at EXCEPT ![1] = @ + 1]
      /\ UNCHANGED <<base, positions, rel, inner, next, count>>
  BY DEF IInv, SkipFirst, IsBefore
<1>2. /\ inner \in Cursors /\ ~ AtEnd(inner) /\ Offset(inner) = next
      /\ 1 \in Cursors /\ Offset(1) \in Int /\ Offset(inner) \in Int
  BY <1>1, Types DEF OneIsAhead
<1>3. Offset(inner) > Offset(1) /\ inner # 1
  BY <1>1, <1>2
<1>4. Offset(1) \notin Starts
  BY <1>1, <1>2, <1>3, NotAStart
<1>5. Sorted' /\ NoStartIsPassed'
  BY <1>1, <1>4, FirstMoves
<1>6. TypeOK'
  BY <1>1, <1>2, AtAfterMove DEF TypeOK, Cursors
<1>7. OneIsAhead'
  <2>1. at'[inner] = at[inner]
    BY <1>1, <1>2, <1>3 DEF TypeOK
  <2>. QED BY <1>1, <1>2, <2>1 DEF OneIsAhead, AtEnd, Offset, Cursors
<1>. QED BY <1>1, <1>5, <1>6, <1>7 DEF IInv

\* The steps that move no cursor.
LEMMA StillStep ==
    ASSUME IInv,
           UNCHANGED <<base, positions, at, count>>,
           rel' \in Int, inner' \in Nat \ {0}, next' \in Int,
           pc' \in {"round", "compare", "decide", "skip", "exit"}
    PROVE  TypeOK' /\ Sorted' /\ NoStartIsPassed'
<1>1. TypeOK' /\ Sorted'
  BY DEF IInv, TypeOK, Sorted, Cursors
<1>2. Starts' = Starts /\ Cursors' = Cursors
  BY DEF Cursors, Starts, PositionsOf
<1>3. \A k, r : Ahead(k, r)' <=> Ahead(k, r)
  BY DEF Ahead
<1>. QED BY <1>1, <1>2, <1>3 DEF IInv, NoStartIsPassed

LEMMA InvNext == IInv /\ [Next]_vars => IInv'
<1>. SUFFICES ASSUME IInv, [Next]_vars PROVE IInv'
  OBVIOUS
<1>. USE DEF AtEnd, Offset, Cursors
<1>1. /\ Len(base) \in Nat \ {0} /\ rel \in Int /\ next \in Int
      /\ inner \in Nat \ {0} /\ inner + 1 \in Nat \ {0}
      /\ pc \in {"round", "compare", "decide", "skip", "exit"}
      /\ 1 \in 1..Len(base)
  BY Types DEF IInv, TypeOK
<1>2. \A k \in Cursors : ~ AtEnd(k) => Offset(k) \in Int
  BY Types DEF IInv
<1>3. CASE BeginRound
  <2>1. TypeOK' /\ Sorted' /\ NoStartIsPassed'
    BY <1>1, <1>2, <1>3, StillStep DEF BeginRound
  <2>2. InRound' /\ next' = rel' /\ AgreeBelow(inner)'
    BY <1>3 DEF BeginRound, InRound, AgreeBelow
  <2>. QED BY <1>3, <2>1, <2>2 DEF BeginRound, IInv
<1>4. CASE FirstExhausted
  <2>1. TypeOK' /\ Sorted' /\ NoStartIsPassed'
    BY <1>1, <1>4, StillStep DEF FirstExhausted
  <2>. QED BY <1>1, <1>4, <2>1 DEF FirstExhausted, IInv
<1>5. CASE SkipOther
  BY <1>5, SkipOtherStep
<1>6. CASE OtherExhausted
  <2>1. TypeOK' /\ Sorted' /\ NoStartIsPassed'
    BY <1>1, <1>6, StillStep DEF OtherExhausted
  <2>. QED BY <1>1, <1>6, <2>1 DEF OtherExhausted, IInv
<1>7. CASE OtherAgrees
  <2>1. TypeOK' /\ Sorted' /\ NoStartIsPassed'
    BY <1>1, <1>7, StillStep DEF OtherAgrees
  <2>2. InRound' /\ next' = rel'
    BY <1>7 DEF IInv, OtherAgrees, InRound
  <2>3. AgreeBelow(inner)'
    <3>1. \A k \in 2..(inner + 1) - 1 : k \in 2..inner - 1 \/ k = inner
      BY <1>1
    <3>. QED BY <1>7, <3>1 DEF IInv, OtherAgrees, AgreeBelow
  <2>. QED BY <1>7, <2>1, <2>2, <2>3 DEF OtherAgrees, IInv
<1>8. CASE OtherIsAhead
  <2>1. TypeOK' /\ Sorted' /\ NoStartIsPassed'
    BY <1>1, <1>2, <1>8, StillStep DEF OtherIsAhead
  <2>2. InRound' /\ next' > rel' /\ OneIsAhead'
    BY <1>8 DEF IInv, OtherIsAhead, InRound, OneIsAhead
  <2>. QED BY <1>8, <2>1, <2>2 DEF OtherIsAhead, IInv
<1>9. CASE AllCompared
  <2>1. TypeOK' /\ Sorted' /\ NoStartIsPassed'
    BY <1>1, <1>9, StillStep DEF AllCompared
  <2>2. InRound' /\ next' = rel'
    BY <1>9 DEF IInv, AllCompared, InRound
  <2>3. AgreeBelow(Len(base) + 1)'
    <3>1. inner > Len(base)
      BY <1>1, <1>9 DEF AllCompared
    <3>2. \A k \in 2..(Len(base) + 1) - 1 : k \in 2..inner - 1
      BY <1>1, <3>1
    <3>. QED BY <1>9, <3>2 DEF IInv, AllCompared, AgreeBelow
  <2>. QED BY <1>9, <2>1, <2>2, <2>3 DEF AllCompared, IInv
<1>10. CASE PhraseFound
  BY <1>10, PhraseFoundStep
<1>11. CASE SkipBegins
  <2>1. TypeOK' /\ Sorted' /\ NoStartIsPassed'
    BY <1>1, <1>11, StillStep DEF SkipBegins
  <2>2. OneIsAhead'
    BY <1>1, <1>11 DEF IInv, SkipBegins, OneIsAhead
  <2>. QED BY <1>11, <2>1, <2>2 DEF SkipBegins, IInv
<1>12. CASE SkipFirst
  BY <1>12, SkipFirstStep
<1>13. CASE SkipEnds
  <2>1. TypeOK' /\ Sorted' /\ NoStartIsPassed'
    BY <1>1, <1>13, StillStep DEF SkipEnds
  <2>. QED BY <1>13, <2>1 DEF SkipEnds, IInv
<1>14. CASE UNCHANGED vars
  <2>1. TypeOK' /\ Sorted' /\ NoStartIsPassed'
    BY <1>1, <1>14, StillStep DEF vars
  <2>2. InRound' = InRound /\ OneIsAhead' = OneIsAhead
        /\ \A n : AgreeBelow(n)' = AgreeBelow(n)
    BY <1>14 DEF vars, InRound, OneIsAhead, AgreeBelow
  <2>. QED BY <1>14, <2>1, <2>2 DEF vars, IInv
<1>. QED
  BY <1>3, <1>4, <1>5, <1>6, <1>7, <1>8, <1>9, <1>10, <1>11, <1>12, <1>13,
     <1>14 DEF Next

LEMMA PhraseInvariant == Spec => []IInv
BY InvInit, InvNext, PTL DEF Spec

\* For every query and every document every variable keeps its type, so no
\* cursor leaves its list by more than one place.
THEOREM PhraseSearchTypeCorrect == Spec => []TypeOK
<1>1. IInv => TypeOK
  BY DEF IInv
<1>. QED BY <1>1, PhraseInvariant, PTL

\* For every query and every document: no cursor walks past an occurrence of
\* the phrase that has not been counted (search.c:173-213).
THEOREM PhraseSearchPassesNoStart == Spec => []NoStartIsPassed
<1>1. IInv => NoStartIsPassed
  BY DEF IInv
<1>. QED BY <1>1, PhraseInvariant, PTL

\* For every query and every document, in any order of the tokens: when
\* search_phrase returns, it returns the number of occurrences of the phrase.
THEOREM PhraseCountIsExact == Spec => []CountsOccurrences
<1>1. IInv => CountsOccurrences
  <2>. SUFFICES ASSUME IInv, pc = "exit" PROVE count = Cardinality(Starts)
    BY DEF CountsOccurrences
  <2>1. PICK k \in Cursors : AtEnd(k)
    BY DEF IInv
  <2>2. ASSUME NEW r \in Starts PROVE ~ Ahead(1, r)
    <3>1. Ahead(1, r) => Ahead(k, r)
      BY DEF IInv, NoStartIsPassed
    <3>2. ~ Ahead(k, r)
      BY <2>1, AheadIsLarger, StartsType DEF IInv
    <3>. QED BY <3>1, <3>2
  <2>3. {r \in Starts : ~ Ahead(1, r)} = Starts
    BY <2>2
  <2>. QED BY <2>3 DEF IInv, NoStartIsPassed
<1>. QED BY <1>1, PhraseInvariant, PTL

-----------------------------------------------------------------------------
(***************************************************************************)
(* The two parts together: what search_phrase is given for an excerpt.     *)
(***************************************************************************)
PositionsInDocument(token) == {y.position : y \in {z \in posted : z.token = token}}

\* Every cursor stands for a token of the query, and walks over the positions
\* of that token in the document (search.c:135-149).
CursorsAreSet ==
    \A k \in Cursors : \E x \in asked :
        /\ base[k] = x.position
        /\ PositionsOf(k) = PositionsInDocument(x.token)

LEMMA ExcerptStarts ==
    ASSUME TypeOK, ExcerptIsFound, phase = "done", WordsAreWhole, CursorsAreSet
    PROVE  Starts # {}
  <1>1. PICK shift \in 0..Len(document) :
            \A x \in asked : [position |-> x.position + shift, token |-> x.token] \in posted
    BY DEF ExcerptIsFound
  <1>2. ASSUME NEW k \in Cursors PROVE base[k] + shift \in PositionsOf(k)
    <2>1. PICK x \in asked :
              base[k] = x.position /\ PositionsOf(k) = PositionsInDocument(x.token)
      BY DEF CursorsAreSet
    <2> DEFINE y == [position |-> x.position + shift, token |-> x.token]
    <2>2. y \in posted /\ y.position = x.position + shift /\ y.token = x.token
      BY <1>1
    <2> HIDE DEF y
    <2>3. x.position + shift \in PositionsInDocument(x.token)
      BY <2>2, Zenon DEF PositionsInDocument
    <2> QED BY <2>1, <2>3
  <1>3. 1 \in Cursors /\ base[1] \in Nat
    BY Types
  <1>4. shift \in Int
    OBVIOUS
  <1> HIDE DEF Cursors
  <1>5. (base[1] + shift) - base[1] = shift
    BY <1>3, <1>4
  <1>6. shift \in {p - base[1] : p \in PositionsOf(1)}
    BY <1>2, <1>3, <1>5
  <1>7. shift \in Starts
    BY <1>2, <1>6 DEF Starts
  <1> QED BY <1>7

(***************************************************************************)
(* A phrase search for an excerpt of a document that neither begins nor    *)
(* ends inside a word counts at least one occurrence in that document,     *)
(* however the text is cut into tokens and in whatever order search_phrase *)
(* compares their positions (token.c:74-128, 252-293, search.c:126-216).   *)
(***************************************************************************)
THEOREM ExcerptIsCounted ==
    SplitSpec /\ Spec =>
        [](phase = "done" /\ WordsAreWhole /\ pc = "exit" /\ CursorsAreSet => count > 0)
  <1>1. ASSUME IInv, ExcerptIsFound, CountsOccurrences, phase = "done", WordsAreWhole,
               pc = "exit", CursorsAreSet
        PROVE  count > 0
    <2>1. Starts # {}
      BY <1>1, ExcerptStarts DEF IInv
    <2>2. IsFiniteSet(Starts)
      BY <1>1, StartsType DEF IInv
    <2>3. Cardinality(Starts) # 0 /\ Cardinality(Starts) \in Nat
      BY <2>1, <2>2, FS_EmptySet, FS_CardinalityType
    <2> QED BY <1>1, <2>3 DEF CountsOccurrences
  <1> QED BY <1>1, PhraseInvariant, PhraseCountIsExact, ExcerptAlwaysFound, PTL

=============================================================================
