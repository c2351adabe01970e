------------------------- MODULE Notifications_proofs -------------------------
(***************************************************************************)
(* What the server is told, for any values, any number of calls and        *)
(* whenever webpacore registers its callback.                              *)
(***************************************************************************)
EXTENDS Notifications, SequenceTheorems, WellFoundedInduction, TLAPS

------------------------------------------------------------------------------
(***************************************************************************)
(* Fields joined by commas                                                 *)
(***************************************************************************)
\* A set of words with those of the module in it (that a literal is in STRING is beyond
\* the provers).
Words == STRING \cup {Delimiter, "param", "mac", "Online", "1"}
Texts == Seq(Words)

LEMMA CommaText ==
    /\ <<Delimiter>> \in Texts /\ Len(<<Delimiter>>) = 1 /\ <<Delimiter>>[1] = Delimiter
<1>1. Delimiter \in Words
  BY DEF Words
<1>2. \A S, e : e \in S => <<e>> \in Seq(S) /\ Len(<<e>>) = 1 /\ <<e>>[1] = e
  OBVIOUS
<1> QED
  BY <1>1, <1>2 DEF Texts

\* What two texts behind each other are.
LEMMA Behind ==
    ASSUME NEW s \in Texts, NEW t \in Texts
    PROVE  /\ s \o t \in Texts /\ Len(s) \in Nat /\ Len(t) \in Nat
           /\ Len(s \o t) = Len(s) + Len(t)
           /\ \A x \in 1..Len(s) : (s \o t)[x] = s[x]
           /\ \A x \in 1..Len(t) : (s \o t)[Len(s) + x] = t[x]
<1>1. Len(s) \in Nat /\ Len(t) \in Nat
  BY LenProperties DEF Texts
<1>2. /\ s \o t \in Texts /\ Len(s \o t) = Len(s) + Len(t)
      /\ \A x \in 1..(Len(s) + Len(t)) :
            (s \o t)[x] = IF x <= Len(s) THEN s[x] ELSE t[x - Len(s)]
  BY ConcatProperties DEF Texts
<1>3. \A x \in 1..Len(s) : x \in 1..(Len(s) + Len(t)) /\ x <= Len(s)
  BY <1>1
<1>4. \A x \in 1..Len(t) : /\ Len(s) + x \in 1..(Len(s) + Len(t))
                            /\ ~(Len(s) + x <= Len(s)) /\ (Len(s) + x) - Len(s) = x
  BY <1>1
<1> QED
  BY <1>1, <1>2, <1>3, <1>4

\* The text is the first m fields; b[j] is the index behind the j-th, of its comma
\* or of the end.
IsJoined(text, f, m, b) ==
    /\ text \in Texts
    /\ b \in [0..m -> Nat]
    /\ b[0] = 0 /\ b[m] = Len(text) + 1
    /\ \A j \in 1..m : b[j] = b[j - 1] + Len(f[j]) + 1
    /\ \A j \in 1..m : \A x \in 1..Len(f[j]) : text[b[j - 1] + x] = f[j][x]
    /\ \A j \in 1..(m - 1) : text[b[j]] = Delimiter

\* One field more.
LEMMA FieldJoined ==
    ASSUME NEW f \in [1..5 -> Texts], NEW m \in 1..4, NEW text, NEW b,
           IsJoined(text, f, m, b)
    PROVE  \E c : IsJoined(text \o <<Delimiter>> \o f[m + 1], f, m + 1, c)
<1> DEFINE g == f[m + 1]
           first == text \o <<Delimiter>>
           all == first \o g
           l == Len(text)
           n == l + 1 + Len(g)
           c == [j \in 0..(m + 1) |-> IF j <= m THEN b[j] ELSE n + 1]
<1>1. text \in Texts /\ b \in [0..m -> Nat] /\ b[0] = 0 /\ b[m] = l + 1
  BY DEF IsJoined
<1>2. \A j \in 1..m : b[j] = b[j - 1] + Len(f[j]) + 1
  BY DEF IsJoined
<1>3. \A j \in 1..m : \A x \in 1..Len(f[j]) : text[b[j - 1] + x] = f[j][x]
  BY DEF IsJoined
<1>4. \A j \in 1..(m - 1) : text[b[j]] = Delimiter
  BY DEF IsJoined
<1>5. \A j \in 1..5 : f[j] \in Texts /\ Len(f[j]) \in Nat
  BY LenProperties DEF Texts
<1>6. g \in Texts /\ Len(g) \in Nat /\ l \in Nat /\ n \in Nat
  <2>1. m + 1 \in 1..5
    OBVIOUS
  <2>2. g \in Texts /\ Len(g) \in Nat
    BY <1>5, <2>1
  <2>3. l \in Nat
    BY <1>1, LenProperties DEF Texts
  <2> HIDE DEF l, g
  <2>4. n \in Nat
    BY <2>2, <2>3
  <2> QED
    BY <2>2, <2>3, <2>4
<1>7. /\ first \in Texts /\ Len(first) = l + 1
      /\ \A x \in 1..l : first[x] = text[x]
      /\ first[l + 1] = Delimiter
  <2>1. text \in Texts /\ 1 \in 1..1
    BY <1>1
  <2> QED
    BY <2>1, CommaText, Behind
<1> HIDE DEF first, g, l
<1>8. /\ all \in Texts /\ Len(all) = n
      /\ \A x \in 1..(l + 1) : all[x] = first[x]
      /\ \A x \in 1..Len(g) : all[l + 1 + x] = g[x]
  <2>1. first \in Texts /\ g \in Texts
    BY <1>6, <1>7
  <2>2. /\ all \in Texts /\ Len(all) = Len(first) + Len(g)
        /\ \A x \in 1..Len(first) : all[x] = first[x]
        /\ \A x \in 1..Len(g) : all[Len(first) + x] = g[x]
    BY <2>1, Behind
  <2>3. Len(first) = l + 1
    BY <1>7
  <2> HIDE DEF all
  <2> QED
    BY <2>2, <2>3
<1> HIDE DEF all
<1>9. /\ \A x \in 1..l : all[x] = text[x]
      /\ all[l + 1] = Delimiter
  <2>1. l + 1 \in 1..(l + 1) /\ \A x \in 1..l : x \in 1..(l + 1)
    BY <1>6
  <2> QED
    BY <1>7, <1>8, <2>1
<1>10. /\ \A j \in 0..m : b[j] \in Nat
       /\ \A j \in 0..m : c[j] = b[j]
       /\ c[m + 1] = n + 1
  <2>1. \A j \in 0..m : b[j] \in Nat
    BY <1>1
  <2>2. \A j \in 0..m : j \in 0..(m + 1) /\ j <= m
    OBVIOUS
  <2>3. m + 1 \in 0..(m + 1) /\ ~(m + 1 <= m)
    OBVIOUS
  <2> HIDE DEF n
  <2>4. c[m + 1] = n + 1
    BY <2>3
  <2> QED
    BY <2>1, <2>2, <2>4
<1>11. c \in [0..(m + 1) -> Nat]
  <2>1. \A j \in 0..(m + 1) : j <= m => j \in 0..m
    OBVIOUS
  <2>2. \A j \in 0..m : b[j] \in Nat
    BY <1>10
  <2>3. n + 1 \in Nat
    BY <1>6
  <2> HIDE DEF n
  <2> QED
    BY <2>1, <2>2, <2>3
<1>12. n + 1 = (l + 1) + Len(g) + 1
  BY <1>6
<1> HIDE DEF c, n
<1>13. \A j \in 1..(m + 1) : \/ (j \in 1..m /\ j \in 0..m /\ j - 1 \in 0..m)
                              \/ (j = m + 1 /\ j - 1 = m /\ m \in 0..m)
  OBVIOUS
<1>14. \A j \in 1..(m + 1) : c[j] = c[j - 1] + Len(f[j]) + 1
  <2> TAKE j \in 1..(m + 1)
  <2>1. CASE j \in 1..m /\ j \in 0..m /\ j - 1 \in 0..m
    <3>1. b[j] = b[j - 1] + Len(f[j]) + 1
      BY <1>2, <2>1
    <3> QED
      BY <1>10, <2>1, <3>1
  <2>2. CASE j = m + 1 /\ j - 1 = m /\ m \in 0..m
    <3>1. c[j] = n + 1 /\ c[j - 1] = l + 1 /\ f[j] = g
      BY <1>1, <1>10, <2>2 DEF g
    <3> QED
      BY <1>12, <3>1
  <2> QED
    BY <1>13, <2>1, <2>2
<1>15. \A j \in 1..m : b[j - 1] < b[j]
  <2> SUFFICES ASSUME NEW j \in 1..m PROVE b[j - 1] < b[j]
    OBVIOUS
  <2>1. j - 1 \in 0..m /\ j \in 0..m /\ j \in 1..5
    OBVIOUS
  <2>2. b[j] = b[j - 1] + Len(f[j]) + 1
    BY <1>2
  <2>3. b[j - 1] \in Nat /\ b[j] \in Nat /\ Len(f[j]) \in Nat
    BY <1>5, <1>10, <2>1
  <2> QED
    BY <2>2, <2>3
<1>16. \A j \in 0..m : b[j] <= l + 1
  <2>1. \A j \in 0..m : b[j] \in Nat
    BY <1>10
  <2>2. b[m] = l + 1 /\ l \in Nat
    BY <1>1, <1>6
  <2>3. m = 1 \/ m = 2 \/ m = 3 \/ m = 4
    OBVIOUS
  <2>4. CASE m = 1
    <3>1. b[0] \in Nat /\ b[1] \in Nat /\ b[0] < b[1]
      BY <1>15, <2>1, <2>4
    <3>2. \A j \in 0..m : j = 0 \/ j = 1
      BY <2>4
    <3> QED
      BY <2>2, <2>4, <3>1, <3>2
  <2>5. CASE m = 2
    <3>1. b[0] \in Nat /\ b[1] \in Nat /\ b[2] \in Nat /\ b[0] < b[1] /\ b[1] < b[2]
      BY <1>15, <2>1, <2>5
    <3>2. \A j \in 0..m : j = 0 \/ j = 1 \/ j = 2
      BY <2>5
    <3> QED
      BY <2>2, <2>5, <3>1, <3>2
  <2>6. CASE m = 3
    <3>1. /\ b[0] \in Nat /\ b[1] \in Nat /\ b[2] \in Nat /\ b[3] \in Nat
          /\ b[0] < b[1] /\ b[1] < b[2] /\ b[2] < b[3]
      BY <1>15, <2>1, <2>6
    <3>2. \A j \in 0..m : j = 0 \/ j = 1 \/ j = 2 \/ j = 3
      BY <2>6
    <3> QED
      BY <2>2, <2>6, <3>1, <3>2
  <2>7. CASE m = 4
    <3>1. /\ b[0] \in Nat /\ b[1] \in Nat /\ b[2] \in Nat /\ b[3] \in Nat /\ b[4] \in Nat
          /\ b[0] < b[1] /\ b[1] < b[2] /\ b[2] < b[3] /\ b[3] < b[4]
      BY <1>15, <2>1, <2>7
    <3>2. \A j \in 0..m : j = 0 \/ j = 1 \/ j = 2 \/ j = 3 \/ j = 4
      BY <2>7
    <3> QED
      BY <2>2, <2>7, <3>1, <3>2
  <2> QED
    BY <2>3, <2>4, <2>5, <2>6, <2>7
<1>17. \A j \in 1..(m + 1) : \A x \in 1..Len(f[j]) : all[c[j - 1] + x] = f[j][x]
  <2> SUFFICES ASSUME NEW j \in 1..(m + 1), NEW x \in 1..Len(f[j])
               PROVE  all[c[j - 1] + x] = f[j][x]
    OBVIOUS
  <2>1. CASE j \in 1..m /\ j \in 0..m /\ j - 1 \in 0..m
    <3>1. b[j] \in Nat /\ b[j - 1] \in Nat /\ b[j] <= l + 1
      BY <1>10, <1>16, <2>1
    <3>2. b[j] = b[j - 1] + Len(f[j]) + 1
      BY <1>2, <2>1
    <3>8. j \in 1..5
      BY <2>1
    <3>3. Len(f[j]) \in Nat
      BY <1>5, <3>8
    <3>4. b[j - 1] + x \in 1..l
      <4>1. PICK p \in Nat : p = b[j - 1]
        BY <3>1
      <4>2. PICK n1 \in Nat : n1 = Len(f[j])
        BY <3>3
      <4>3. p + n1 + 1 <= l + 1
        BY <3>1, <3>2, <4>1, <4>2
      <4>4. 1 <= x /\ x <= n1 /\ x \in Nat
        BY <4>2
      <4>5. p + x \in 1..l
        BY <1>6, <4>3, <4>4
      <4> QED
        BY <4>1, <4>5
    <3>5. all[b[j - 1] + x] = text[b[j - 1] + x]
      BY <1>9, <3>4
    <3>6. text[b[j - 1] + x] = f[j][x]
      BY <1>3, <2>1
    <3>7. c[j - 1] = b[j - 1]
      BY <1>10, <2>1
    <3> QED
      BY <3>5, <3>6, <3>7
  <2>2. CASE j = m + 1 /\ j - 1 = m /\ m \in 0..m
    <3>1. c[j - 1] = l + 1 /\ f[j] = g
      BY <1>1, <1>10, <2>2 DEF g
    <3> QED
      BY <1>8, <3>1
  <2> QED
    BY <1>13, <2>1, <2>2
<1>18. \A j \in 1..m : all[c[j]] = Delimiter
  <2> SUFFICES ASSUME NEW j \in 1..m PROVE all[c[j]] = Delimiter
    OBVIOUS
  <2>1. j \in 0..m /\ j - 1 \in 0..m
    OBVIOUS
  <2>2. c[j] = b[j] /\ b[j] \in Nat /\ b[j - 1] \in Nat /\ b[j - 1] < b[j]
    BY <1>10, <1>15, <2>1
  <2>3. CASE j = m
    BY <1>1, <1>9, <2>2, <2>3
  <2>4. CASE j # m
    <3>1. j \in 1..(m - 1) /\ j + 1 \in 1..m /\ j + 1 \in 0..m /\ (j + 1) - 1 = j
      BY <2>4
    <3>2. b[j + 1] <= l + 1 /\ b[j + 1] \in Nat /\ b[j] < b[j + 1]
      BY <1>10, <1>15, <1>16, <3>1
    <3>3. b[j] \in 1..l
      <4>1. b[j - 1] \in Nat /\ b[j - 1] < b[j] /\ b[j] \in Nat
        BY <2>2
      <4>2. PICK q \in Nat : q = b[j + 1]
        BY <3>2
      <4>3. PICK p \in Nat : p = b[j - 1]
        BY <4>1
      <4>4. PICK r \in Nat : r = b[j]
        BY <4>1
      <4>5. p < r /\ r < q /\ q <= l + 1 /\ l \in Nat
        BY <1>6, <3>2, <4>1, <4>2, <4>3, <4>4
      <4>6. r \in 1..l
        BY <4>5
      <4> QED
        BY <4>4, <4>6
    <3>4. all[b[j]] = text[b[j]] /\ text[b[j]] = Delimiter
      BY <1>4, <1>9, <3>1, <3>3
    <3> QED
      BY <2>2, <3>4
  <2> QED
    BY <2>3, <2>4
<1>19. (m + 1) - 1 = m /\ c[0] = 0 /\ c[m + 1] = Len(all) + 1
  <2>1. 0 \in 0..m
    OBVIOUS
  <2> QED
    BY <1>1, <1>8, <1>10, <2>1
<1>20. IsJoined(all, f, m + 1, c)
  BY <1>8, <1>11, <1>14, <1>17, <1>18, <1>19 DEF IsJoined
<1> QED
  BY <1>20 DEF all, first, g

LEMMA AllJoined ==
    ASSUME NEW f \in [1..5 -> Texts]
    PROVE  \E b : IsJoined(Joined(f), f, 5, b)
<1>1. \E b : IsJoined(f[1], f, 1, b)
  <2> DEFINE b == [j \in 0..1 |-> IF j = 0 THEN 0 ELSE Len(f[1]) + 1]
  <2>1. f[1] \in Texts /\ Len(f[1]) \in Nat
    BY LenProperties DEF Texts
  <2>2. \A j \in 1..1 : j = 1
    OBVIOUS
  <2>3. b \in [0..1 -> Nat] /\ b[0] = 0 /\ b[1] = Len(f[1]) + 1
    BY <2>1
  <2> HIDE DEF b
  <2>4. IsJoined(f[1], f, 1, b)
    BY <2>1, <2>2, <2>3 DEF IsJoined
  <2> QED
    BY <2>4
<1>2. PICK s : s = f[1] \o <<Delimiter>> \o f[2]
  OBVIOUS
<1>3. \E b : IsJoined(s, f, 2, b)
  <2>1. PICK b : IsJoined(f[1], f, 1, b)
    BY <1>1
  <2>2. PICK m \in 1..4 : m = 1
    OBVIOUS
  <2>3. \E c : IsJoined(f[1] \o <<Delimiter>> \o f[m + 1], f, m + 1, c)
    BY <2>1, <2>2, FieldJoined
  <2> QED
    BY <1>2, <2>2, <2>3
<1>4. PICK t : t = s \o <<Delimiter>> \o f[3]
  OBVIOUS
<1>5. \E b : IsJoined(t, f, 3, b)
  <2>1. PICK b : IsJoined(s, f, 2, b)
    BY <1>3
  <2>2. PICK m \in 1..4 : m = 2
    OBVIOUS
  <2>3. \E c : IsJoined(s \o <<Delimiter>> \o f[m + 1], f, m + 1, c)
    BY <2>1, <2>2, FieldJoined
  <2> QED
    BY <1>4, <2>2, <2>3
<1>6. PICK u : u = t \o <<Delimiter>> \o f[4]
  OBVIOUS
<1>7. \E b : IsJoined(u, f, 4, b)
  <2>1. PICK b : IsJoined(t, f, 3, b)
    BY <1>5
  <2>2. PICK m \in 1..4 : m = 3
    OBVIOUS
  <2>3. \E c : IsJoined(t \o <<Delimiter>> \o f[m + 1], f, m + 1, c)
    BY <2>1, <2>2, FieldJoined
  <2> QED
    BY <1>6, <2>2, <2>3
<1>8. \E b : IsJoined(u \o <<Delimiter>> \o f[5], f, 5, b)
  <2>1. PICK b : IsJoined(u, f, 4, b)
    BY <1>7
  <2>2. PICK m \in 1..4 : m = 4
    OBVIOUS
  <2>3. \E c : IsJoined(u \o <<Delimiter>> \o f[m + 1], f, m + 1, c)
    BY <2>1, <2>2, FieldJoined
  <2> QED
    BY <2>2, <2>3
<1> QED
  BY <1>2, <1>4, <1>6, <1>8 DEF Joined

------------------------------------------------------------------------------
(***************************************************************************)
(* Taking the fields apart                                                 *)
(***************************************************************************)
NoCommas(f) == \A j \in 1..5 : \A x \in 1..Len(f[j]) : f[j][x] # Delimiter

LEMMA LeastOf ==
    ASSUME NEW T \in SUBSET Nat, NEW t \in T
    PROVE  Min(T) \in T /\ \A k \in T : Min(T) <= k
<1>1. IsWellFoundedOn(OpToRel(<, Nat), Nat)
  BY NatLessThanWellFounded
<1>2. \E x \in T : \A y \in T : ~(<<y, x>> \in OpToRel(<, Nat))
  BY <1>1, WFMin
<1>3. \A x, y \in T : y < x => <<y, x>> \in OpToRel(<, Nat)
  BY DEF OpToRel
<1>4. PICK x \in T : \A y \in T : ~(y < x)
  BY <1>2, <1>3
<1>5. \A y \in T : x <= y
  BY <1>4
<1> QED
  BY <1>5 DEF Min

\* An index that is behind all of a set but no more than one is its least.
LEMMA IsLeast ==
    ASSUME NEW T \in SUBSET Nat, NEW t \in T, \A k \in T : t <= k
    PROVE  Min(T) = t
<1>1. PICK n : n = Min(T)
  OBVIOUS
<1>2. n \in T /\ n <= t
  BY <1>1, LeastOf
<1>3. n \in Nat /\ t \in Nat /\ t <= n
  BY <1>2
<1> QED
  BY <1>1, <1>2, <1>3

\* Where the fields end, in order.
LEMMA Ends ==
    ASSUME NEW f \in [1..5 -> Texts], NEW text, NEW b, IsJoined(text, f, 5, b)
    PROVE  /\ Len(text) \in Nat /\ b[0] = 0 /\ b[5] = Len(text) + 1
           /\ \A j \in 0..5 : b[j] \in Nat
           /\ \A i, j \in 0..5 : i <= j => b[i] <= b[j]
           /\ \A i, j \in 0..5 : i < j => b[i] < b[j]
<1>1. /\ b \in [0..5 -> Nat] /\ b[0] = 0 /\ b[5] = Len(text) + 1
      /\ \A j \in 1..5 : b[j] = b[j - 1] + Len(f[j]) + 1
  BY DEF IsJoined
<1>2. Len(text) \in Nat
  BY LenProperties DEF IsJoined, Texts
<1>3. \A j \in 1..5 : Len(f[j]) \in Nat
  BY LenProperties DEF Texts
<1>4. \A j \in 0..5 : b[j] \in Nat
  BY <1>1
<1>5. \A j \in 1..5 : b[j - 1] < b[j]
  <2> SUFFICES ASSUME NEW j \in 1..5 PROVE b[j - 1] < b[j]
    OBVIOUS
  <2>1. j - 1 \in 0..5 /\ j \in 0..5
    OBVIOUS
  <2>2. PICK p \in Nat : p = b[j - 1]
    BY <1>4, <2>1
  <2>3. PICK n \in Nat : n = Len(f[j])
    BY <1>3
  <2>4. b[j] = p + n + 1
    BY <1>1, <2>2, <2>3
  <2> QED
    BY <2>2, <2>4
<1>6. b[0] < b[1] /\ b[1] < b[2] /\ b[2] < b[3] /\ b[3] < b[4] /\ b[4] < b[5]
  BY <1>5
<1>7. \A i, j \in 0..5 : i < j => b[i] < b[j]
  <2>1. \A j \in 0..5 : j = 0 \/ j = 1 \/ j = 2 \/ j = 3 \/ j = 4 \/ j = 5
    OBVIOUS
  <2> QED
    BY <1>4, <1>6, <2>1
<1>8. \A i, j \in 0..5 : i <= j => b[i] <= b[j]
  <2> SUFFICES ASSUME NEW i \in 0..5, NEW j \in 0..5, i <= j PROVE b[i] <= b[j]
    OBVIOUS
  <2>1. i = j \/ i < j
    OBVIOUS
  <2> QED
    BY <1>4, <1>7, <2>1
<1> QED
  BY <1>1, <1>2, <1>4, <1>7, <1>8

\* An index of the text is in a field or of a comma between two.
LEMMA InField ==
    ASSUME NEW f \in [1..5 -> Texts], NEW text, NEW b, IsJoined(text, f, 5, b),
           NoCommas(f), NEW k \in 1..Len(text)
    PROVE  \/ \E j \in 1..4 : k = b[j] /\ text[k] = Delimiter
           \/ \E j \in 1..5 : b[j - 1] < k /\ k < b[j] /\ text[k] # Delimiter
<1>1. /\ Len(text) \in Nat /\ b[0] = 0 /\ b[5] = Len(text) + 1
      /\ \A j \in 0..5 : b[j] \in Nat
  BY Ends
<1>2. \A j \in 1..4 : text[b[j]] = Delimiter
  <2>1. 5 - 1 = 4
    OBVIOUS
  <2> QED
    BY <2>1 DEF IsJoined
<1>3. ASSUME NEW j \in 1..5, b[j - 1] < k, k < b[j] PROVE text[k] # Delimiter
  <2>1. j - 1 \in 0..5 /\ j \in 0..5
    OBVIOUS
  <2>2. b[j] = b[j - 1] + Len(f[j]) + 1
    BY DEF IsJoined
  <2>5. Len(f[j]) \in Nat /\ k \in Nat
    BY LenProperties DEF Texts
  <2>6. b[j - 1] \in Nat /\ b[j] \in Nat
    BY <1>1, <2>1
  <2>3. k - b[j - 1] \in 1..Len(f[j]) /\ b[j - 1] + (k - b[j - 1]) = k
    <3>1. PICK p \in Nat : p = b[j - 1]
      BY <2>6
    <3>2. PICK n \in Nat : n = Len(f[j])
      BY <2>5
    <3>3. k \in Nat /\ p < k /\ k < p + n + 1
      BY <1>3, <2>2, <2>5, <2>6, <3>1, <3>2
    <3>4. k - p \in 1..n /\ p + (k - p) = k
      BY <3>3
    <3> QED
      BY <3>1, <3>2, <3>4
  <2>4. text[b[j - 1] + (k - b[j - 1])] = f[j][k - b[j - 1]]
    BY <2>3 DEF IsJoined
  <2> QED
    BY <2>3, <2>4 DEF NoCommas
<1>4. \/ \E j \in 1..4 : k = b[j]
      \/ \E j \in 1..5 : b[j - 1] < k /\ k < b[j]
  <2>1. b[0] < k /\ k < b[5] /\ b[1] \in Nat /\ b[2] \in Nat /\ b[3] \in Nat /\ b[4] \in Nat
    BY <1>1
  <2>2. \/ k = b[1] \/ k = b[2] \/ k = b[3] \/ k = b[4]
        \/ (b[0] < k /\ k < b[1]) \/ (b[1] < k /\ k < b[2]) \/ (b[2] < k /\ k < b[3])
        \/ (b[3] < k /\ k < b[4]) \/ (b[4] < k /\ k < b[5])
    BY <2>1
  <2>3. 1 - 1 = 0 /\ 2 - 1 = 1 /\ 3 - 1 = 2 /\ 4 - 1 = 3 /\ 5 - 1 = 4
    OBVIOUS
  <2> QED
    BY <2>2, <2>3
<1> QED
  BY <1>2, <1>3, <1>4

\* What a call of strtok_r that begins behind field j returns: the next field that is
\* not empty.
Returned(r, f, b, j) ==
    \/ /\ r.token = NULL /\ r.next = b[j] + 1
       /\ \A l \in (j + 1)..5 : f[l] = <<>>
    \/ \E l \in (j + 1)..5 :
          /\ f[l] # <<>>
          /\ \A i \in (j + 1)..(l - 1) : f[i] = <<>>
          /\ r.token = f[l] /\ r.next = b[l] + 1

LEMMA NextToken ==
    ASSUME NEW f \in [1..5 -> Texts], NEW text, NEW b, IsJoined(text, f, 5, b),
           NoCommas(f), NEW j \in 0..5
    PROVE  Returned(strtok_r(text, b[j] + 1), f, b, j)
<1> DEFINE at == b[j] + 1
           words == {k \in at..Len(text) : text[k] # Delimiter}
           ends == {k \in Min(words)..Len(text) : text[k] = Delimiter} \cup {Len(text) + 1}
<1>1. /\ Len(text) \in Nat /\ b[0] = 0 /\ b[5] = Len(text) + 1
      /\ \A i \in 0..5 : b[i] \in Nat
  BY Ends
<1>2. \A i, l \in 0..5 : i <= l => b[i] <= b[l]
  BY Ends
<1>3. \A i, l \in 0..5 : i < l => b[i] < b[l]
  BY Ends
<1>4. \A l \in 1..5 : Len(f[l]) \in Nat /\ (f[l] = <<>> <=> Len(f[l]) = 0)
  BY LenProperties, EmptySeq DEF Texts
<1>5. \A l \in 1..5 : b[l] = b[l - 1] + Len(f[l]) + 1
  BY DEF IsJoined
<1>10. \A l \in 1..5 : l - 1 \in 0..5 /\ l \in 0..5 /\ b[l - 1] \in Nat /\ b[l] \in Nat
  BY <1>1
<1>6. \A k \in words : \E l \in (j + 1)..5 : b[l - 1] < k /\ k < b[l] /\ f[l] # <<>>
  <2> SUFFICES ASSUME NEW k \in words
               PROVE  \E l \in (j + 1)..5 : b[l - 1] < k /\ k < b[l] /\ f[l] # <<>>
    OBVIOUS
  <2>1. k \in 1..Len(text) /\ text[k] # Delimiter /\ b[j] < k
    <3>1. PICK n \in Nat : n = Len(text)
      BY <1>1
    <3>2. PICK p \in Nat : p = b[j]
      BY <1>1
    <3>3. k \in (p + 1)..n /\ text[k] # Delimiter
      BY <3>1, <3>2
    <3>4. k \in 1..n /\ p < k
      BY <3>3
    <3> QED
      BY <3>1, <3>2, <3>3, <3>4
  <2>2. PICK l \in 1..5 : b[l - 1] < k /\ k < b[l]
    BY <2>1, InField
  <2>7. b[l] \in Nat /\ b[l - 1] \in Nat /\ b[j] \in Nat /\ k \in Nat
    <3>1. b[l] \in Nat /\ b[l - 1] \in Nat
      BY <1>10
    <3>2. b[j] \in Nat
      BY <1>1
    <3>3. k \in Nat
      BY <2>1
    <3> QED
      BY <3>1, <3>2, <3>3
  <2>3. ~(b[l] <= b[j])
    BY <2>1, <2>2, <2>7
  <2>4. ~(l <= j)
    BY <1>2, <1>10, <2>3
  <2>5. l \in (j + 1)..5
    BY <2>4
  <2>6. f[l] # <<>>
    <3>1. b[l] = b[l - 1] + Len(f[l]) + 1 /\ Len(f[l]) \in Nat
      BY <1>4, <1>5
    <3>2. Len(f[l]) # 0
      BY <2>2, <2>7, <3>1
    <3> QED
      BY <1>4, <3>2
  <2> QED
    BY <2>2, <2>5, <2>6
<1>7. strtok_r(text, at)
         = IF words = {} THEN [token |-> NULL, next |-> at]
           ELSE [token |-> SubSeq(text, Min(words), Min(ends) - 1), next |-> Min(ends) + 1]
  BY DEF strtok_r
<1> HIDE DEF words, ends
<1>8. CASE \A l \in (j + 1)..5 : f[l] = <<>>
  <2>1. words = {}
    BY <1>6, <1>8
  <2> QED
    BY <1>7, <1>8, <2>1 DEF Returned
<1>9. CASE \E l \in (j + 1)..5 : f[l] # <<>>
  <2> DEFINE T == {l \in (j + 1)..5 : f[l] # <<>>}
  <2>1. PICK l \in T : \A i \in T : l <= i
    <3>1. T \in SUBSET Nat
      OBVIOUS
    <3>2. PICK t : t \in T
      BY <1>9
    <3> HIDE DEF T
    <3> QED
      BY <3>1, <3>2, LeastOf
  <2>2. /\ l \in (j + 1)..5 /\ l \in 1..5 /\ f[l] # <<>> /\ l - 1 \in 0..5 /\ j <= l - 1
        /\ \A i \in (j + 1)..(l - 1) : f[i] = <<>>
    <3>1. l \in (j + 1)..5 /\ f[l] # <<>>
      OBVIOUS
    <3>2. \A i \in (j + 1)..(l - 1) : i \in (j + 1)..5 /\ ~(l <= i)
      BY <3>1
    <3> QED
      BY <2>1, <3>1, <3>2
  <2> HIDE DEF T
  <2>3. /\ b[l - 1] \in Nat /\ b[l] \in Nat /\ b[l] = b[l - 1] + Len(f[l]) + 1
        /\ Len(f[l]) \in Nat \ {0} /\ b[j] <= b[l - 1] /\ b[l] <= Len(text) + 1
        /\ b[j] \in Nat
    <3>1. l \in 0..5 /\ 5 \in 0..5 /\ l <= 5
      BY <2>2
    <3>2. b[l] <= Len(text) + 1
      BY <1>1, <1>2, <3>1
    <3>3. b[l - 1] \in Nat /\ b[l] \in Nat
      BY <1>10, <2>2
    <3>4. b[l] = b[l - 1] + Len(f[l]) + 1
      BY <1>5, <2>2
    <3>5. Len(f[l]) \in Nat \ {0}
      BY <1>4, <2>2
    <3>6. b[j] <= b[l - 1] /\ b[j] \in Nat
      BY <1>1, <1>2, <2>2
    <3> QED
      BY <3>2, <3>3, <3>4, <3>5, <3>6
  <2>14. PICK len \in Nat : len = Len(text)
    BY <1>1
  <2>15. PICK start \in Nat : start = at
    BY <2>3
  <2>16. words = {k \in start..len : text[k] # Delimiter}
    BY <2>14, <2>15 DEF words
  <2>4. words \in SUBSET Nat
    BY <2>16
  <2>5. b[l - 1] + 1 \in words
    <3>1. b[l - 1] + 1 \in at..Len(text)
      <4>1. PICK p \in Nat : p = b[l - 1]
        BY <2>3
      <4>2. PICK n \in Nat \ {0} : n = Len(f[l])
        BY <2>3
      <4>3. p + n + 1 <= len + 1
        BY <2>3, <2>14, <4>1, <4>2
      <4>4. start <= p + 1
        BY <2>3, <2>15, <4>1
      <4>5. p + 1 \in start..len
        BY <4>3, <4>4
      <4> QED
        BY <2>14, <2>15, <4>1, <4>5
    <3>2. 1 \in 1..Len(f[l])
      BY <2>2, <2>3
    <3>3. text[b[l - 1] + 1] = f[l][1]
      BY <2>2, <3>2 DEF IsJoined
    <3>4. f[l][1] # Delimiter
      BY <2>2, <3>2 DEF NoCommas
    <3> HIDE DEF at
    <3> QED
      BY <3>1, <3>3, <3>4 DEF words
  <2>6. \A k \in words : b[l - 1] + 1 <= k
    <3> SUFFICES ASSUME NEW k \in words PROVE b[l - 1] + 1 <= k
      OBVIOUS
    <3>1. PICK i \in (j + 1)..5 : b[i - 1] < k /\ k < b[i] /\ f[i] # <<>>
      BY <1>6
    <3>2. ~(i <= l - 1)
      BY <2>2, <3>1
    <3>3. l - 1 <= i - 1 /\ i - 1 \in 0..5
      BY <2>2, <3>2
    <3>4. b[l - 1] <= b[i - 1] /\ b[i - 1] \in Nat
      BY <1>1, <1>2, <2>2, <3>3
    <3>5. k \in Nat
      BY <2>4
    <3>6. PICK p \in Nat : p = b[l - 1]
      BY <2>3
    <3>7. PICK q \in Nat : q = b[i - 1]
      BY <3>4
    <3>8. p <= q /\ q < k
      BY <3>1, <3>4, <3>6, <3>7
    <3> QED
      BY <3>5, <3>6, <3>8
  <2>7. Min(words) = b[l - 1] + 1
    BY <2>4, <2>5, <2>6, IsLeast
  <2>17. PICK least \in Nat : least = b[l - 1] + 1
    BY <2>3
  <2>18. ends = {k \in least..len : text[k] = Delimiter} \cup {len + 1}
    BY <2>7, <2>14, <2>17 DEF ends
  <2>8. ends \in SUBSET Nat
    BY <2>18
  <2>9. b[l] \in ends
    <3>1. CASE l = 5
      BY <1>1, <3>1 DEF ends
    <3>2. CASE l # 5
      <4>1. l \in 1..4 /\ l < 5 /\ l \in 0..5 /\ 5 \in 0..5
        BY <2>2, <3>2
      <4>2. text[b[l]] = Delimiter
        <5>1. 5 - 1 = 4
          OBVIOUS
        <5> QED
          BY <4>1, <5>1 DEF IsJoined
      <4>3. b[l] < b[5]
        BY <1>3, <4>1
      <4>4. b[l] \in (b[l - 1] + 1)..Len(text)
        <5>1. PICK n \in Nat \ {0} : n = Len(f[l])
          BY <2>3
        <5>2. PICK p \in Nat : p = b[l - 1]
          BY <2>3
        <5>3. b[l] = p + n + 1 /\ b[l] < len + 1
          BY <1>1, <2>3, <2>14, <4>3, <5>1, <5>2
        <5>4. p + n + 1 \in (p + 1)..len
          BY <5>3
        <5> QED
          BY <2>14, <5>2, <5>3, <5>4
      <4> QED
        BY <2>7, <4>2, <4>4 DEF ends
    <3> QED
      BY <3>1, <3>2
  <2>10. \A k \in ends : b[l] <= k
    <3> SUFFICES ASSUME NEW k \in ends, k < b[l] PROVE FALSE
      BY <2>3, <2>8
    <3>1. k # Len(text) + 1 /\ k \in Nat
      BY <2>3, <2>8
    <3>2. k \in (b[l - 1] + 1)..Len(text) /\ text[k] = Delimiter
      BY <2>7, <3>1 DEF ends
    <3>3. k - b[l - 1] \in 1..Len(f[l]) /\ b[l - 1] + (k - b[l - 1]) = k
      <4>1. PICK p \in Nat : p = b[l - 1]
        BY <2>3
      <4>2. PICK n \in Nat : n = Len(f[l])
        BY <2>3
      <4>3. p + 1 <= k /\ k < p + n + 1 /\ k \in Nat
        BY <2>3, <3>1, <3>2, <4>1, <4>2
      <4>4. k - p \in 1..n /\ p + (k - p) = k
        BY <4>3
      <4> QED
        BY <4>1, <4>2, <4>4
    <3>4. text[b[l - 1] + (k - b[l - 1])] = f[l][k - b[l - 1]]
      BY <2>2, <3>3 DEF IsJoined
    <3> QED
      BY <2>2, <3>2, <3>3, <3>4 DEF NoCommas
  <2>11. Min(ends) = b[l]
    BY <2>8, <2>9, <2>10, IsLeast
  <2>12. SubSeq(text, b[l - 1] + 1, b[l] - 1) = f[l]
    <3>1. PICK p \in Nat : p = b[l - 1]
      BY <2>3
    <3>2. PICK n \in Nat : n = Len(f[l])
      BY <2>3
    <3>3. b[l] - 1 = p + n /\ p + n \in Nat /\ p + n <= Len(text)
      <4>1. b[l] = p + n + 1 /\ b[l] <= Len(text) + 1
        BY <2>3, <3>1, <3>2
      <4> QED
        BY <1>1, <4>1
    <3> DEFINE t == SubSeq(text, p + 1, p + n)
    <3>4. \A k \in (p + 1)..(p + n) : text[k] \in Words
      <4>1. \A k \in (p + 1)..(p + n) : k \in 1..Len(text)
        BY <1>1, <3>3
      <4>2. text \in Seq(Words)
        BY DEF IsJoined, Texts
      <4> QED
        BY <4>1, <4>2, ElementOfSeq
    <3>5. /\ t \in Seq(Words)
          /\ Len(t) = IF p + 1 <= p + n THEN (p + n) - (p + 1) + 1 ELSE 0
          /\ \A x \in 1..((p + n) - (p + 1) + 1) : t[x] = text[(p + 1) + x - 1]
      <4>1. PICK first \in Int : first = p + 1
        OBVIOUS
      <4>2. PICK last \in Int : last = p + n
        OBVIOUS
      <4>3. \A k \in first..last : text[k] \in Words
        BY <3>4, <4>1, <4>2
      <4>4. /\ SubSeq(text, first, last) \in Seq(Words)
            /\ Len(SubSeq(text, first, last)) = IF first <= last THEN last - first + 1 ELSE 0
            /\ \A x \in 1..(last - first + 1) :
                   SubSeq(text, first, last)[x] = text[first + x - 1]
        BY <4>3, SubSeqProperties
      <4> QED
        BY <4>1, <4>2, <4>4
    <3>6. \A x \in 1..Len(f[l]) : t[x] = f[l][x]
      <4> SUFFICES ASSUME NEW x \in 1..n PROVE t[x] = f[l][x]
        BY <3>2
      <4>1. x \in 1..((p + n) - (p + 1) + 1) /\ (p + 1) + x - 1 = p + x
        OBVIOUS
      <4>2. t[x] = text[p + x]
        BY <3>5, <4>1
      <4>3. text[b[l - 1] + x] = f[l][x]
        BY <2>2, <3>2 DEF IsJoined
      <4> QED
        BY <3>1, <4>2, <4>3
    <3>7. f[l] \in Seq(Words)
      BY <2>2 DEF Texts
    <3>8. Len(t) = Len(f[l])
      <4>1. /\ p + 1 <= p + n => (p + n) - (p + 1) + 1 = n
            /\ ~(p + 1 <= p + n) => n = 0
        OBVIOUS
      <4> QED
        BY <3>2, <3>5, <4>1
    <3> HIDE DEF t
    <3>9. t = f[l]
      BY <3>5, <3>6, <3>7, <3>8, SeqEqual
    <3> QED
      BY <3>1, <3>3, <3>9 DEF t
  <2>13. strtok_r(text, at) = [token |-> f[l], next |-> b[l] + 1]
    BY <1>7, <2>5, <2>7, <2>11, <2>12
  <2> QED
    BY <2>2, <2>13 DEF Returned
<1> QED
  BY <1>8, <1>9

\* When a call finds no token, those behind it find none; when it finds one, the next
\* begins behind the field of the token.
LEMMA NextCall ==
    ASSUME NEW f \in [1..5 -> Texts], NEW text, NEW b, IsJoined(text, f, 5, b),
           NoCommas(f), NEW j \in 0..5, NEW r, r = strtok_r(text, b[j] + 1)
    PROVE  /\ r.token = NULL => r = strtok_r(text, r.next)
           /\ r.token # NULL =>
                 \E l \in (j + 1)..5 :
                    /\ f[l] # <<>> /\ \A i \in (j + 1)..(l - 1) : f[i] = <<>>
                    /\ r.token = f[l] /\ r.next = b[l] + 1
<1>1. Returned(r, f, b, j)
  BY NextToken
<1>2. NULL = <<>>
  BY DEF NULL
<1>3. CASE r.token = NULL
  <2>1. r.next = b[j] + 1
    BY <1>1, <1>2, <1>3 DEF Returned
  <2> QED
    BY <1>3, <2>1
<1>4. CASE r.token # NULL
  BY <1>1, <1>4 DEF Returned
<1> QED
  BY <1>3, <1>4

\* When no field is empty, the call behind a field returns the next.
LEMMA NextField ==
    ASSUME NEW f \in [1..5 -> Texts], NEW text, NEW b, IsJoined(text, f, 5, b),
           NoCommas(f), NEW j \in 0..4, NEW r, r = strtok_r(text, b[j] + 1),
           \A k \in 1..5 : f[k] # <<>>
    PROVE  r.token = f[j + 1] /\ r.next = b[j + 1] + 1
<1>1. j + 1 \in (j + 1)..5 /\ j + 1 \in 1..5 /\ j \in 0..5
  OBVIOUS
<1>2. Returned(r, f, b, j)
  BY <1>1, NextToken
<1>3. PICK l \in (j + 1)..5 :
         /\ \A i \in (j + 1)..(l - 1) : f[i] = <<>>
         /\ r.token = f[l] /\ r.next = b[l] + 1
  BY <1>1, <1>2 DEF Returned
<1>4. l = j + 1
  <2> SUFFICES ASSUME l # j + 1 PROVE FALSE
    OBVIOUS
  <2>1. j + 1 \in (j + 1)..(l - 1)
    OBVIOUS
  <2> QED
    BY <1>1, <1>3, <2>1
<1> QED
  BY <1>3, <1>4

\* The five calls return the fields if none is empty; else the last returns NULL.
LEMMA TokensOf ==
    ASSUME NEW f \in [1..5 -> Texts], NoCommas(f)
    PROVE  /\ (\A k \in 1..5 : f[k] # <<>>) =>
                 Tokens(Joined(f)) = <<f[1], f[2], f[3], f[4], f[5]>>
           /\ (\E k \in 1..5 : f[k] = <<>>) => Tokens(Joined(f))[5] = NULL
<1>1. PICK text : text = Joined(f)
  OBVIOUS
<1>2. PICK b : IsJoined(text, f, 5, b)
  BY <1>1, AllJoined
<1>3. b[0] + 1 = 1
  <2>1. b[0] = 0
    BY <1>2 DEF IsJoined
  <2> QED
    BY <2>1
<1>4. PICK first : first = strtok_r(text, 1)
  OBVIOUS
<1>5. PICK second : second = strtok_r(text, first.next)
  OBVIOUS
<1>6. PICK third : third = strtok_r(text, second.next)
  OBVIOUS
<1>7. PICK fourth : fourth = strtok_r(text, third.next)
  OBVIOUS
<1>8. PICK fifth : fifth = strtok_r(text, fourth.next)
  OBVIOUS
<1>9. Tokens(text) = <<first.token, second.token, third.token, fourth.token, fifth.token>>
  BY <1>4, <1>5, <1>6, <1>7, <1>8 DEF Tokens
<1>10. ASSUME \A k \in 1..5 : f[k] # <<>>
       PROVE  Tokens(text) = <<f[1], f[2], f[3], f[4], f[5]>>
  <2>1. \A j \in 0..4 : \A r : r = strtok_r(text, b[j] + 1) =>
                                   r.token = f[j + 1] /\ r.next = b[j + 1] + 1
    BY <1>2, <1>10, NextField
  <2>2. /\ 0 \in 0..4 /\ 1 \in 0..4 /\ 2 \in 0..4 /\ 3 \in 0..4 /\ 4 \in 0..4
        /\ 0 + 1 = 1 /\ 1 + 1 = 2 /\ 2 + 1 = 3 /\ 3 + 1 = 4 /\ 4 + 1 = 5
    OBVIOUS
  <2>3. first.token = f[1] /\ first.next = b[1] + 1
    BY <1>3, <1>4, <2>1, <2>2
  <2>4. second.token = f[2] /\ second.next = b[2] + 1
    BY <1>5, <2>1, <2>2, <2>3
  <2>5. third.token = f[3] /\ third.next = b[3] + 1
    BY <1>6, <2>1, <2>2, <2>4
  <2>6. fourth.token = f[4] /\ fourth.next = b[4] + 1
    BY <1>7, <2>1, <2>2, <2>5
  <2>7. fifth.token = f[5]
    BY <1>8, <2>1, <2>2, <2>6
  <2> QED
    BY <1>9, <2>3, <2>4, <2>5, <2>6, <2>7
<1>11. ASSUME NEW k \in 1..5, f[k] = <<>>, fifth.token # NULL
       PROVE  FALSE
  <2>1. \A j \in 0..5 : \A r : r = strtok_r(text, b[j] + 1) =>
           /\ r.token = NULL => r = strtok_r(text, r.next)
           /\ r.token # NULL => \E l \in (j + 1)..5 : f[l] # <<>> /\ r.next = b[l] + 1
    <3> SUFFICES ASSUME NEW j \in 0..5, NEW r, r = strtok_r(text, b[j] + 1)
                 PROVE  /\ r.token = NULL => r = strtok_r(text, r.next)
                        /\ r.token # NULL =>
                              \E l \in (j + 1)..5 : f[l] # <<>> /\ r.next = b[l] + 1
      OBVIOUS
    <3> QED
      BY <1>2, NextCall
  <2>2. first.token # NULL
    <3> SUFFICES ASSUME first.token = NULL PROVE FALSE
      OBVIOUS
    <3>1. first = strtok_r(text, first.next)
      BY <1>3, <1>4, <2>1
    <3> QED
      BY <1>5, <1>6, <1>7, <1>8, <1>11, <3>1
  <2>3. PICK j1 \in 1..5 : f[j1] # <<>> /\ first.next = b[j1] + 1
    BY <1>3, <1>4, <2>1, <2>2
  <2>4. j1 \in 0..5 /\ second = strtok_r(text, b[j1] + 1)
    BY <1>5, <2>3
  <2>5. second.token # NULL
    <3> SUFFICES ASSUME second.token = NULL PROVE FALSE
      OBVIOUS
    <3>1. second = strtok_r(text, second.next)
      BY <2>1, <2>4
    <3> QED
      BY <1>6, <1>7, <1>8, <1>11, <3>1
  <2>6. PICK j2 \in (j1 + 1)..5 : f[j2] # <<>> /\ second.next = b[j2] + 1
    BY <2>1, <2>4, <2>5
  <2>7. j2 \in 0..5 /\ third = strtok_r(text, b[j2] + 1)
    BY <1>6, <2>6
  <2>8. third.token # NULL
    <3> SUFFICES ASSUME third.token = NULL PROVE FALSE
      OBVIOUS
    <3>1. third = strtok_r(text, third.next)
      BY <2>1, <2>7
    <3> QED
      BY <1>7, <1>8, <1>11, <3>1
  <2>9. PICK j3 \in (j2 + 1)..5 : f[j3] # <<>> /\ third.next = b[j3] + 1
    BY <2>1, <2>7, <2>8
  <2>10. j3 \in 0..5 /\ fourth = strtok_r(text, b[j3] + 1)
    BY <1>7, <2>9
  <2>11. fourth.token # NULL
    <3> SUFFICES ASSUME fourth.token = NULL PROVE FALSE
      OBVIOUS
    <3>1. fourth = strtok_r(text, fourth.next)
      BY <2>1, <2>10
    <3> QED
      BY <1>8, <1>11, <3>1
  <2>12. PICK j4 \in (j3 + 1)..5 : f[j4] # <<>> /\ fourth.next = b[j4] + 1
    BY <2>1, <2>10, <2>11
  <2>13. j4 \in 0..5 /\ fifth = strtok_r(text, b[j4] + 1)
    BY <1>8, <2>12
  <2>14. PICK j5 \in (j4 + 1)..5 : f[j5] # <<>>
    BY <1>11, <2>1, <2>13
  <2>15. j1 = 1 /\ j2 = 2 /\ j3 = 3 /\ j4 = 4 /\ j5 = 5
    OBVIOUS
  <2>16. k = 1 \/ k = 2 \/ k = 3 \/ k = 4 \/ k = 5
    OBVIOUS
  <2> QED
    BY <1>11, <2>3, <2>6, <2>9, <2>12, <2>14, <2>15, <2>16
<1>12. Tokens(text)[5] = fifth.token
  BY <1>9
<1> QED
  BY <1>1, <1>10, <1>11, <1>12

------------------------------------------------------------------------------
(***************************************************************************)
(* Telling the server of one call more                                     *)
(***************************************************************************)
\* The l that are delivered are what the k calls are to tell, once each and in order.
Tells(cs, k, ds, l) ==
    \E f \in [1..l -> 1..k] :
        /\ \A x, y \in 1..l : x < y => f[x] < f[y]
        /\ \A x \in 1..l : ds[x] = Told(cs[f[x]]) /\ IsTold(cs[f[x]])
        /\ \A j \in 1..k : IsTold(cs[j]) => \E x \in 1..l : f[x] = j

IsTelling(cs, ds) == Tells(cs, Len(cs), ds, Len(ds))

LEMMA TellingGrows ==
    ASSUME NEW S, NEW cs \in Seq(S), NEW c \in S, NEW D, NEW ds \in Seq(D),
           Told(c) \in D, IsTelling(cs, ds)
    PROVE  /\ IsTold(c) => IsTelling(Append(cs, c), Append(ds, Told(c)))
           /\ ~IsTold(c) => IsTelling(Append(cs, c), ds)
<1> DEFINE k == Len(cs)
           l == Len(ds)
           cs1 == Append(cs, c)
           ds1 == Append(ds, Told(c))
<1>1. /\ k \in Nat /\ Len(cs1) = k + 1
      /\ \A x \in 1..k : cs1[x] = cs[x]
      /\ cs1[k + 1] = c
  BY LenProperties, AppendProperties
<1>2. /\ l \in Nat /\ Len(ds1) = l + 1
      /\ \A x \in 1..l : ds1[x] = ds[x]
      /\ ds1[l + 1] = Told(c)
  BY LenProperties, AppendProperties
<1>3. PICK f \in [1..l -> 1..k] :
         /\ \A x, y \in 1..l : x < y => f[x] < f[y]
         /\ \A x \in 1..l : ds[x] = Told(cs[f[x]]) /\ IsTold(cs[f[x]])
         /\ \A j \in 1..k : IsTold(cs[j]) => \E x \in 1..l : f[x] = j
  BY DEF IsTelling, Tells
<1> HIDE DEF cs1, ds1, k, l
<1>4. \A x \in 1..l : f[x] \in 1..k /\ cs1[f[x]] = cs[f[x]]
  BY <1>1, <1>3
<1>5. \A j \in 1..(k + 1) : j = k + 1 \/ (j \in 1..k /\ j # k + 1)
  BY <1>1
<1>6. ASSUME IsTold(c) PROVE IsTelling(cs1, ds1)
  <2> DEFINE g == [x \in 1..(l + 1) |-> IF x = l + 1 THEN k + 1 ELSE f[x]]
  <2>1. \A x \in 1..(l + 1) : x = l + 1 \/ (x \in 1..l /\ x # l + 1)
    BY <1>2
  <2>2. \A x \in 1..l : f[x] \in 1..k /\ g[x] = f[x] /\ x \in 1..(l + 1)
    BY <1>2, <1>3
  <2>3. g[l + 1] = k + 1 /\ l + 1 \in 1..(l + 1)
    BY <1>2
  <2>4. g \in [1..(l + 1) -> 1..(k + 1)]
    BY <1>1, <2>1, <2>2, <2>3
  <2> HIDE DEF g
  <2>5. \A x, y \in 1..(l + 1) : x < y => g[x] < g[y]
    <3> SUFFICES ASSUME NEW x \in 1..(l + 1), NEW y \in 1..(l + 1), x < y PROVE g[x] < g[y]
      OBVIOUS
    <3>1. x \in 1..l
      BY <1>2
    <3>2. CASE y = l + 1
      BY <1>1, <2>2, <2>3, <3>1, <3>2
    <3>3. CASE y \in 1..l
      BY <1>3, <2>2, <3>1, <3>3
    <3> QED
      BY <2>1, <3>2, <3>3
  <2>6. \A x \in 1..(l + 1) : ds1[x] = Told(cs1[g[x]]) /\ IsTold(cs1[g[x]])
    <3> TAKE x \in 1..(l + 1)
    <3>1. CASE x = l + 1
      BY <1>1, <1>2, <1>6, <2>3, <3>1
    <3>2. CASE x \in 1..l
      <4>1. ds1[x] = ds[x] /\ g[x] = f[x] /\ cs1[f[x]] = cs[f[x]]
        BY <1>2, <1>4, <2>2, <3>2
      <4>2. ds[x] = Told(cs[f[x]]) /\ IsTold(cs[f[x]])
        BY <1>3, <3>2
      <4> QED
        BY <4>1, <4>2
    <3> QED
      BY <2>1, <3>1, <3>2
  <2>7. \A j \in 1..(k + 1) : IsTold(cs1[j]) => \E x \in 1..(l + 1) : g[x] = j
    <3> SUFFICES ASSUME NEW j \in 1..(k + 1), IsTold(cs1[j])
                 PROVE  \E x \in 1..(l + 1) : g[x] = j
      OBVIOUS
    <3>1. CASE j = k + 1
      BY <2>3, <3>1
    <3>2. CASE j \in 1..k
      <4>1. cs1[j] = cs[j]
        BY <1>1, <3>2
      <4>2. PICK x \in 1..l : f[x] = j
        BY <1>3, <3>2, <4>1
      <4> QED
        BY <2>2, <4>2
    <3> QED
      BY <1>5, <3>1, <3>2
  <2>8. Tells(cs1, k + 1, ds1, l + 1)
    BY <2>4, <2>5, <2>6, <2>7, Zenon DEF Tells
  <2> QED
    BY <1>1, <1>2, <2>8 DEF IsTelling
<1>7. ASSUME ~IsTold(c) PROVE IsTelling(cs1, ds)
  <2>1. f \in [1..l -> 1..(k + 1)]
    BY <1>1, <1>3
  <2>2. \A x \in 1..l : ds[x] = Told(cs1[f[x]]) /\ IsTold(cs1[f[x]])
    BY <1>3, <1>4
  <2>3. \A j \in 1..(k + 1) : IsTold(cs1[j]) => \E x \in 1..l : f[x] = j
    <3> SUFFICES ASSUME NEW j \in 1..(k + 1), IsTold(cs1[j])
                 PROVE  \E x \in 1..l : f[x] = j
      OBVIOUS
    <3>1. j \in 1..k
      BY <1>1, <1>5, <1>7
    <3>2. cs1[j] = cs[j]
      BY <1>1, <3>1
    <3> QED
      BY <1>3, <3>1, <3>2
  <2>4. Tells(cs1, k + 1, ds, l)
    BY <1>3, <2>1, <2>2, <2>3, Zenon DEF Tells
  <2> QED
    BY <1>1, <2>4 DEF IsTelling, l
<1> QED
  BY <1>6, <1>7 DEF cs1, ds1

NoneHasComma(cs) == \A k \in 1..Len(cs) : ~HasComma(cs[k])

\* What ServerIsTold comes down to for sequences.
NotifyInv ==
    /\ notifyCbFn \in BOOLEAN
    /\ \E S : calls \in Seq(S)
    /\ \E D : delivered \in Seq(D)
    /\ NoneHasComma(calls) => IsTelling(calls, delivered)

LEMMA InvTells == NotifyInv => ServerIsTold
<1> SUFFICES ASSUME NotifyInv, \A k \in DOMAIN calls : ~HasComma(calls[k])
             PROVE  \E f \in [DOMAIN delivered -> DOMAIN calls] :
                       /\ \A x, y \in DOMAIN delivered : x < y => f[x] < f[y]
                       /\ \A x \in DOMAIN delivered : delivered[x] = Told(calls[f[x]])
                       /\ Range(f) = {k \in DOMAIN calls : IsTold(calls[k])}
  BY DEF ServerIsTold
<1>1. DOMAIN calls = 1..Len(calls) /\ DOMAIN delivered = 1..Len(delivered)
  BY LenProperties DEF NotifyInv
<1>2. IsTelling(calls, delivered)
  BY <1>1 DEF NotifyInv, NoneHasComma
<1>3. PICK f \in [DOMAIN delivered -> DOMAIN calls] :
        /\ \A x, y \in DOMAIN delivered : x < y => f[x] < f[y]
        /\ \A x \in DOMAIN delivered : delivered[x] = Told(calls[f[x]]) /\ IsTold(calls[f[x]])
        /\ \A j \in DOMAIN calls : IsTold(calls[j]) => \E x \in DOMAIN delivered : f[x] = j
  BY <1>1, <1>2 DEF IsTelling, Tells
<1>4. Range(f) = {k \in DOMAIN calls : IsTold(calls[k])}
  BY <1>3 DEF Range
<1> QED
  BY <1>3, <1>4

------------------------------------------------------------------------------
(***************************************************************************)
(* The steps                                                               *)
(***************************************************************************)
\* The step is a call that tells the server what it is to tell, if it has no comma.
TellsOne(c) ==
    /\ calls' = Append(calls, c)
    /\ delivered' = delivered \/ \E d : delivered' = Append(delivered, d)
    /\ ~HasComma(c) =>
          delivered' = IF IsTold(c) THEN Append(delivered, Told(c)) ELSE delivered
    /\ UNCHANGED notifyCbFn

LEMMA CallKeeps ==
    ASSUME NotifyInv, NEW c, TellsOne(c)
    PROVE  NotifyInv'
<1>1. PICK S0 : calls \in Seq(S0)
  BY DEF NotifyInv
<1>2. PICK D0 : delivered \in Seq(D0)
  BY DEF NotifyInv
<1>3. PICK d : delivered' = delivered \/ delivered' = Append(delivered, d)
  BY DEF TellsOne
<1>4. PICK S : S = S0 \cup {c}
  OBVIOUS
<1>5. PICK D : D = D0 \cup {d, Told(c)}
  OBVIOUS
<1>6. PICK cs : cs = calls
  OBVIOUS
<1>7. PICK ds : ds = delivered
  OBVIOUS
<1>8. cs \in Seq(S) /\ c \in S
  BY <1>1, <1>4, <1>6, SeqMonotonic
<1>9. ds \in Seq(D) /\ d \in D /\ Told(c) \in D
  BY <1>2, <1>5, <1>7, SeqMonotonic
<1>10. calls' \in Seq(S) /\ calls' = Append(cs, c)
  BY <1>6, <1>8, AppendProperties DEF TellsOne
<1>11. delivered' \in Seq(D)
  BY <1>3, <1>7, <1>9, AppendProperties
<1>12. ASSUME NoneHasComma(calls') PROVE IsTelling(calls', delivered')
  <2>1. /\ Len(cs) \in Nat /\ Len(Append(cs, c)) = Len(cs) + 1
        /\ \A x \in 1..Len(cs) : Append(cs, c)[x] = cs[x]
        /\ Append(cs, c)[Len(cs) + 1] = c
    BY <1>8, LenProperties, AppendProperties
  <2>2. \A k \in 1..(Len(cs) + 1) : ~HasComma(Append(cs, c)[k])
    BY <1>10, <1>12, <2>1 DEF NoneHasComma
  <2>3. ~HasComma(c)
    BY <2>1, <2>2
  <2>4. \A k \in 1..Len(cs) : ~HasComma(cs[k])
    BY <2>1, <2>2
  <2>5. IsTelling(cs, ds)
    BY <1>6, <1>7, <2>4 DEF NotifyInv, NoneHasComma
  <2>6. CASE IsTold(c)
    <3>1. delivered' = Append(ds, Told(c))
      BY <1>7, <2>3, <2>6 DEF TellsOne
    <3> QED
      BY <1>8, <1>9, <1>10, <2>5, <2>6, <3>1, TellingGrows
  <2>7. CASE ~IsTold(c)
    <3>1. delivered' = ds
      BY <1>7, <2>3, <2>7 DEF TellsOne
    <3> QED
      BY <1>8, <1>9, <1>10, <2>5, <2>7, <3>1, TellingGrows
  <2> QED
    BY <2>6, <2>7
<1>13. notifyCbFn' \in BOOLEAN
  BY DEF NotifyInv, TellsOne
<1> QED
  BY <1>10, <1>11, <1>12, <1>13 DEF NotifyInv

\* What a call with five fields is to tell of them.
LEMMA FieldsOf ==
    ASSUME NEW f, f \in [1..5 -> Texts], NEW c, c.fields = f
    PROVE  /\ ~HasComma(c) => NoCommas(f)
           /\ HasEmpty(c) <=> \E k \in 1..5 : f[k] = <<>>
<1>1. DOMAIN c.fields = 1..5
  OBVIOUS
<1>2. ASSUME ~HasComma(c) PROVE NoCommas(f)
  <2> SUFFICES ASSUME NEW j \in 1..5, NEW x \in 1..Len(f[j]) PROVE f[j][x] # Delimiter
    BY DEF NoCommas
  <2>1. Delimiter \notin Range(f[j])
    BY <1>1, <1>2 DEF HasComma
  <2>2. DOMAIN f[j] = 1..Len(f[j])
    BY LenProperties DEF Texts
  <2> QED
    BY <2>1, <2>2 DEF Range
<1>3. HasEmpty(c) <=> \E k \in 1..5 : f[k] = <<>>
  BY DEF HasEmpty, Range
<1> QED
  BY <1>2, <1>3

\* A list of five fields.
LEMMA FiveFields ==
    ASSUME NEW p \in Texts, NEW q \in Texts, NEW r \in Texts, NEW s \in Texts,
           NEW t \in Texts, NEW f, f = <<p, q, r, s, t>>
    PROVE  /\ f \in [1..5 -> Texts]
           /\ f[1] = p /\ f[2] = q /\ f[3] = r /\ f[4] = s /\ f[5] = t
  OBVIOUS

LEMMA LastFour ==
    ASSUME NEW S, NEW f \in [1..5 -> S]
    PROVE  SubSeq(f, 2, 5) = <<f[2], f[3], f[4], f[5]>>
<1> DEFINE t == SubSeq(f, 2, 5)
           u == <<f[2], f[3], f[4], f[5]>>
<1>1. \A k \in 2..5 : f[k] \in S
  OBVIOUS
<1>2. /\ t \in Seq(S) /\ Len(t) = 4
      /\ t[1] = f[2] /\ t[2] = f[3] /\ t[3] = f[4] /\ t[4] = f[5]
  <2>1. /\ t \in Seq(S) /\ Len(t) = IF 2 <= 5 THEN 5 - 2 + 1 ELSE 0
        /\ \A i \in 1..(5 - 2 + 1) : t[i] = f[2 + i - 1]
    BY <1>1, SubSeqProperties
  <2> HIDE DEF t
  <2> QED
    BY <2>1
<1>3. /\ u \in Seq(S) /\ Len(u) = 4
      /\ u[1] = f[2] /\ u[2] = f[3] /\ u[3] = f[4] /\ u[4] = f[5]
  OBVIOUS
<1>4. \A i \in 1..4 : t[i] = u[i]
  <2>1. \A i \in 1..4 : i = 1 \/ i = 2 \/ i = 3 \/ i = 4
    OBVIOUS
  <2> HIDE DEF t, u
  <2> QED
    BY <1>2, <1>3, <2>1
<1> HIDE DEF t, u
<1>5. t = u
  BY <1>2, <1>3, <1>4, SeqEqual
<1> QED
  BY <1>5 DEF t, u

\* The fields of requests are texts.
LEMMA FieldTexts ==
    /\ Values \subseteq Texts /\ \A id \in WriteIds : <<id>> \in Texts
    /\ <<"param">> \in Texts /\ <<"mac">> \in Texts
    /\ <<"Online">> \in Texts /\ <<"1">> \in Texts
<1>1. \A e \in Words : <<e>> \in Texts
  <2>1. \A S, e : e \in S => <<e>> \in Seq(S)
    OBVIOUS
  <2> QED
    BY <2>1 DEF Texts
<1>2. "param" \in Words /\ "mac" \in Words /\ "Online" \in Words /\ "1" \in Words
  BY DEF Words
<1>3. STRING \subseteq Words
  BY DEF Words
<1>4. Values \subseteq Texts
  BY <1>3, NotifyAssumption, SeqMonotonic DEF Texts
<1>5. \A id \in WriteIds : id \in Words
  BY <1>3, NotifyAssumption
<1> QED
  BY <1>1, <1>2, <1>4, <1>5

\* The record of a call.
LEMMA CallMade ==
    ASSUME NEW kind, NEW fields, NEW result, Returns(kind, fields, result)
    PROVE  \E c : /\ calls' = Append(calls, c)
                  /\ c.kind = kind /\ c.fields = fields /\ c.registered = notifyCbFn
<1>1. PICK c : c = [kind |-> kind, fields |-> fields, result |-> result,
                    registered |-> notifyCbFn, passedOn |-> delivered' # delivered]
  OBVIOUS
<1>2. calls' = Append(calls, c)
  BY <1>1 DEF Returns
<1> QED
  BY <1>1, <1>2

LEMMA NotificationTells ==
    ASSUME NotifyInv, NEW id \in WriteIds, NEW new \in Values, NEW old \in Values,
           SetNotification(<< <<"param">>, <<id>>, new, old, <<"1">> >>)
    PROVE  NotifyInv'
<1>1. PICK f : f = << <<"param">>, <<id>>, new, old, <<"1">> >>
  OBVIOUS
<1>2. f \in [1..5 -> Texts]
  <2>1. PICK t \in Texts : t = <<id>>
    BY FieldTexts
  <2>2. PICK n \in Texts : n = <<"param">>
    BY FieldTexts
  <2>3. PICK d \in Texts : d = <<"1">>
    BY FieldTexts
  <2>4. new \in Texts /\ old \in Texts
    BY FieldTexts
  <2>5. f = <<n, t, new, old, d>>
    BY <1>1, <2>1, <2>2, <2>3
  <2> QED
    BY <2>4, <2>5, FiveFields
<1>3. SetNotification(f)
  BY <1>1
<1>4. PICK c : /\ calls' = Append(calls, c)
               /\ c.kind = "notification" /\ c.fields = f /\ c.registered = notifyCbFn
  <2>1. PICK r : r = TRUE
    OBVIOUS
  <2>2. PICK k : k = "notification"
    OBVIOUS
  <2>3. Returns(k, f, r)
    BY <1>3, <2>1, <2>2 DEF SetNotification
  <2>4. \E c : /\ calls' = Append(calls, c)
              /\ c.kind = k /\ c.fields = f /\ c.registered = notifyCbFn
    BY <2>3, CallMade
  <2> QED
    BY <2>2, <2>4
<1>5. PICK tokens : tokens = Tokens(Joined(f))
  OBVIOUS
<1>6. /\ delivered' = IF HasAllData(tokens)
                        THEN IF notifyCbFn THEN Append(delivered, ParamOf(tokens)) ELSE delivered
                        ELSE delivered
      /\ UNCHANGED notifyCbFn
  BY <1>3, <1>5 DEF SetNotification, Deliver
<1>7. Told(c) = ParamNotify(f[1], f[2], f[3], f[4], f[5])
  BY <1>4 DEF Told
<1>8. IsTold(c) <=> notifyCbFn /\ ~HasEmpty(c)
  BY <1>4 DEF IsTold
<1>9. ASSUME ~HasComma(c)
      PROVE  delivered' = IF IsTold(c) THEN Append(delivered, Told(c)) ELSE delivered
  <2>1. NoCommas(f)
    BY <1>2, <1>4, <1>9, FieldsOf
  <2>2. CASE HasEmpty(c)
    <3>1. \E k \in 1..5 : f[k] = <<>>
      BY <1>2, <1>4, <2>2, FieldsOf
    <3>2. ~HasAllData(tokens)
      BY <1>2, <1>5, <2>1, <3>1, TokensOf DEF HasAllData
    <3> QED
      BY <1>6, <1>8, <2>2, <3>2
  <2>3. CASE ~HasEmpty(c)
    <3>1. \A k \in 1..5 : f[k] # <<>>
      BY <1>2, <1>4, <2>3, FieldsOf
    <3>2. tokens = <<f[1], f[2], f[3], f[4], f[5]>>
      BY <1>2, <1>5, <2>1, <3>1, TokensOf
    <3>3. HasAllData(tokens)
      BY <3>1, <3>2 DEF HasAllData, NULL
    <3>4. ParamOf(tokens) = Told(c)
      BY <1>7, <3>2 DEF ParamOf
    <3> QED
      BY <1>6, <1>8, <2>3, <3>3, <3>4
  <2> QED
    BY <2>2, <2>3
<1>10. delivered' = delivered \/ \E d : delivered' = Append(delivered, d)
  BY <1>6
<1> QED
  BY <1>4, <1>6, <1>9, <1>10, CallKeeps DEF TellsOne

LEMMA ClientTells ==
    ASSUME NotifyInv, NEW interface \in Values, NEW host \in Values,
           SetConnectedClient(<< <<"param">>, interface, <<"mac">>, <<"Online">>, host >>)
    PROVE  NotifyInv'
<1>1. PICK f : f = << <<"param">>, interface, <<"mac">>, <<"Online">>, host >>
  OBVIOUS
<1>2. f \in [1..5 -> Texts]
  <2>1. PICK n \in Texts : n = <<"param">>
    BY FieldTexts
  <2>2. PICK m \in Texts : m = <<"mac">>
    BY FieldTexts
  <2>3. PICK o \in Texts : o = <<"Online">>
    BY FieldTexts
  <2>4. interface \in Texts /\ host \in Texts
    BY FieldTexts
  <2>5. f = <<n, interface, m, o, host>>
    BY <1>1, <2>1, <2>2, <2>3
  <2> QED
    BY <2>4, <2>5, FiveFields
<1>3. SetConnectedClient(f)
  BY <1>1
<1>4. PICK c : /\ calls' = Append(calls, c)
               /\ c.kind = "client" /\ c.fields = f /\ c.registered = notifyCbFn
  BY <1>3, CallMade DEF SetConnectedClient
<1>5. PICK tokens : tokens = Tokens(Joined(f))
  OBVIOUS
<1>6. /\ delivered' = IF notifyCbFn THEN Append(delivered, NodeOf(tokens)) ELSE delivered
      /\ UNCHANGED notifyCbFn
  BY <1>3, <1>5 DEF SetConnectedClient, Deliver
<1>7. Told(c) = [type |-> "CONNECTED_CLIENT_NOTIFY",
                 node |-> IF HasEmpty(c) THEN NULL ELSE SubSeq(f, 2, 5)]
  BY <1>4 DEF Told
<1>8. IsTold(c) <=> notifyCbFn
  BY <1>4 DEF IsTold
<1>9. ASSUME ~HasComma(c)
      PROVE  NodeOf(tokens) = Told(c)
  <2>1. NoCommas(f)
    BY <1>2, <1>4, <1>9, FieldsOf
  <2>2. CASE HasEmpty(c)
    <3>1. \E k \in 1..5 : f[k] = <<>>
      BY <1>2, <1>4, <2>2, FieldsOf
    <3>2. tokens[5] = NULL
      BY <1>2, <1>5, <2>1, <3>1, TokensOf
    <3> QED
      BY <1>7, <2>2, <3>2 DEF NodeOf, NodeData
  <2>3. CASE ~HasEmpty(c)
    <3>1. \A k \in 1..5 : f[k] # <<>>
      BY <1>2, <1>4, <2>3, FieldsOf
    <3>2. tokens = <<f[1], f[2], f[3], f[4], f[5]>>
      BY <1>2, <1>5, <2>1, <3>1, TokensOf
    <3>3. NULL \notin {f[2], f[3], f[4], f[5]}
      BY <3>1 DEF NULL
    <3>4. NodeOf(tokens) = [type |-> "CONNECTED_CLIENT_NOTIFY",
                            node |-> <<f[2], f[3], f[4], f[5]>>]
      BY <3>2, <3>3 DEF NodeOf, NodeData
    <3>5. SubSeq(f, 2, 5) = <<f[2], f[3], f[4], f[5]>>
      BY <1>2, LastFour
    <3> QED
      BY <1>7, <2>3, <3>4, <3>5
  <2> QED
    BY <2>2, <2>3
<1>10. delivered' = delivered \/ \E d : delivered' = Append(delivered, d)
  BY <1>6
<1> QED
  BY <1>4, <1>6, <1>8, <1>9, <1>10, CallKeeps DEF TellsOne

\* A call that always has the callback called.
LEMMA OtherTells ==
    ASSUME NotifyInv, NEW kind, NEW fields, NEW result, NEW notification,
           Returns(kind, fields, result), Deliver(notification), UNCHANGED notifyCbFn,
           kind # "notification",
           \A c : c.kind = kind /\ c.fields = fields => Told(c) = notification
    PROVE  NotifyInv'
<1>1. PICK c : /\ calls' = Append(calls, c)
               /\ c.kind = kind /\ c.fields = fields /\ c.registered = notifyCbFn
  BY CallMade
<1>2. Told(c) = notification /\ (IsTold(c) <=> notifyCbFn)
  BY <1>1 DEF IsTold
<1>3. delivered' = IF IsTold(c) THEN Append(delivered, Told(c)) ELSE delivered
  BY <1>2 DEF Deliver
<1> QED
  BY <1>1, <1>3, CallKeeps DEF TellsOne

LEMMA NextKeeps == NotifyInv /\ [Next]_vars => NotifyInv'
<1> SUFFICES ASSUME NotifyInv, [Next]_vars PROVE NotifyInv'
  OBVIOUS
<1>1. CASE RegisterNotifyCB
  BY <1>1 DEF RegisterNotifyCB, NotifyInv
<1>2. CASE \E id \in WriteIds, new, old \in Values :
              SetNotification(<< <<"param">>, <<id>>, new, old, <<"1">> >>)
  BY <1>2, NotificationTells
<1>3. CASE \E interface, host \in Values :
              SetConnectedClient(<< <<"param">>, interface, <<"mac">>, <<"Online">>, host >>)
  BY <1>3, ClientTells
<1>4. CASE \E v \in Values : SetPostData(<<v>>)
  <2>1. PICK v \in Values : SetPostData(<<v>>)
    BY <1>4
  <2>2. PICK fields : fields = <<v>>
    OBVIOUS
  <2>3. Head(fields) = v /\ fields[1] = v
    BY <2>2
  <2>4. \A c : c.kind = "message" /\ c.fields = fields => Told(c) = UpstreamMsg(v)
    BY <2>3 DEF Told
  <2>5. Returns("message", fields, notifyCbFn) /\ Deliver(UpstreamMsg(v)) /\ UNCHANGED notifyCbFn
    BY <2>1, <2>2, <2>3 DEF SetPostData
  <2> QED
    BY <2>4, <2>5, OtherTells
<1>5. CASE \E v \in Values : sendIoTNotification(<<v>>)
  <2>1. PICK v \in Values : sendIoTNotification(<<v>>)
    BY <1>5
  <2>2. PICK fields : fields = <<v>>
    OBVIOUS
  <2>3. Head(fields) = v /\ fields[1] = v
    BY <2>2
  <2>6. PICK n : n = ParamNotify(<<"IOT">>, <<"UNKNOWN">>, v, NULL, <<"STRING">>)
    OBVIOUS
  <2>4. \A c : c.kind = "IOT" /\ c.fields = fields => Told(c) = n
    BY <2>3, <2>6 DEF Told
  <2>5. Returns("IOT", fields, TRUE) /\ Deliver(n) /\ UNCHANGED notifyCbFn
    BY <2>1, <2>2, <2>3, <2>6 DEF sendIoTNotification
  <2> QED
    BY <2>4, <2>5, OtherTells
<1>6. CASE \E v \in Values : ccspWebPaValueChangedCB(<<v, <<"w">> >>)
  <2>1. PICK v \in Values : ccspWebPaValueChangedCB(<<v, <<"w">> >>)
    BY <1>6
  <2>2. PICK fields : fields = <<v, <<"w">> >>
    OBVIOUS
  <2>3. Head(fields) = v /\ fields[1] = v
    BY <2>2
  <2>6. PICK n : n = ParamNotify(<<"param">>, <<"WebUI">>, v, NULL, <<"STRING">>)
    OBVIOUS
  <2>4. \A c : c.kind = "event" /\ c.fields = fields => Told(c) = n
    BY <2>3, <2>6 DEF Told
  <2>5. Returns("event", fields, TRUE) /\ Deliver(n) /\ UNCHANGED notifyCbFn
    BY <2>1, <2>2, <2>3, <2>6 DEF ccspWebPaValueChangedCB
  <2> QED
    BY <2>4, <2>5, OtherTells
<1>7. CASE UNCHANGED vars
  BY <1>7 DEF vars, NotifyInv
<1> QED
  BY <1>1, <1>2, <1>3, <1>4, <1>5, <1>6, <1>7 DEF Next

LEMMA InitTells == Init => NotifyInv
<1> SUFFICES ASSUME Init PROVE NotifyInv
  OBVIOUS
<1>1. calls = <<>> /\ delivered = <<>> /\ notifyCbFn = FALSE
  BY DEF Init
<1>2. <<>> \in Seq({}) /\ Len(<<>>) = 0
  BY EmptySeq
<1>3. PICK f : f = [x \in 1..0 |-> 0]
  OBVIOUS
<1>4. Tells(<<>>, 0, <<>>, 0)
  <2>1. \A x \in 1..0 : FALSE
    OBVIOUS
  <2>2. f \in [1..0 -> 1..0]
    BY <1>3, <2>1
  <2> QED
    BY <2>1, <2>2, Zenon DEF Tells
<1> QED
  BY <1>1, <1>2, <1>4 DEF NotifyInv, IsTelling

\* When no value has a comma, the server is told what each call is to tell, once, in
\* the order of the calls, with the fields in their places, for any values and any
\* number of calls, whenever the callback is registered.
THEOREM ServerTold == Spec => []ServerIsTold
  BY InitTells, NextKeeps, InvTells, PTL DEF Spec

===============================================================================
