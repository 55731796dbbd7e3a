----------------------------- MODULE Induction -----------------------------
(***************************************************************************)
(* Induction over the naturals and what follows from it for definitions by *)
(* recursion and for FlattenSeq.  NatInduction of the library takes the    *)
(* statement as an operator; here it is a set, and the induction comes     *)
(* from the least element that WFMin finds outside of it.                  *)
(***************************************************************************)
EXTENDS Integers, Sequences, SequencesExt, WellFoundedInduction, TLAPS

\* Induction on the naturals, for a set instead of a predicate.
LEMMA SetInduction ==
    ASSUME NEW S, 0 \in S, \A n \in Nat : n \in S => n + 1 \in S
    PROVE  Nat \subseteq S
<1>1. PICK R : R = {ss \in Nat \X Nat : ss[1] < ss[2]}
  OBVIOUS
<1>2. IsWellFoundedOn(R, Nat)
  BY <1>1, NatLessThanWellFounded DEF OpToRel
<1>3. SUFFICES ASSUME Nat \ S # {} PROVE FALSE
  OBVIOUS
<1>4. PICK T : T = Nat \ S
  OBVIOUS
<1>5. PICK x \in T : \A y \in T : ~ (<<y, x>> \in R)
  BY <1>2, <1>3, <1>4, WFMin
<1>6. x \in Nat /\ x # 0 /\ x \notin S
  BY <1>4
<1>7. x - 1 \in Nat /\ x - 1 \in S
  <2>1. x - 1 \in Nat
    BY <1>6
  <2>2. <<x - 1, x>> \in R
    BY <1>1, <1>6, <2>1
  <2>3. QED BY <1>4, <1>5, <2>1, <2>2
<1>8. QED
  BY <1>6, <1>7

\* g follows the recursion from `base` by `step` up to n.
Follows(g, base, step, n) ==
    g[0] = base /\ \A i \in 1 .. n : g[i] = step[<<g[i - 1], i>>]

\* f is the function that starts with `base` and goes on by `step`.
DefinedBy(f, A, base, step) ==
    /\ f \in [Nat -> A]
    /\ f[0] = base
    /\ \A n \in Nat : f[n + 1] = step[<<f[n], n + 1>>]

\* A function on the naturals may be defined by recursion.
LEMMA Recursion ==
    ASSUME NEW A, NEW base \in A, NEW step \in [A \X Nat -> A]
    PROVE  \E f : DefinedBy(f, A, base, step)
<1>1. \A n \in Nat : \E g \in [Nat -> A] : Follows(g, base, step, n)
  <2>1. PICK S : S = {n \in Nat : \E g \in [Nat -> A] : Follows(g, base, step, n)}
    OBVIOUS
  <2>2. 0 \in S
    <3>1. PICK g : g = [i \in Nat |-> base]
      OBVIOUS
    <3>2. g \in [Nat -> A] /\ Follows(g, base, step, 0)
      BY <3>1 DEF Follows
    <3>3. QED BY <2>1, <3>2
  <2>3. ASSUME NEW n \in Nat, n \in S PROVE n + 1 \in S
    <3>1. PICK g \in [Nat -> A] : Follows(g, base, step, n)
      BY <2>1, <2>3
    <3>2. step[<<g[n], n + 1>>] \in A
      <4>1. <<g[n], n + 1>> \in A \X Nat
        OBVIOUS
      <4>2. QED BY <4>1
    <3>3. PICK h : h = [g EXCEPT ![n + 1] = step[<<g[n], n + 1>>]]
      OBVIOUS
    <3>4. h \in [Nat -> A] /\ h[n + 1] = step[<<g[n], n + 1>>]
      BY <3>2, <3>3
    <3>5. \A i \in 0 .. n : h[i] = g[i]
      BY <3>3
    <3>6. \A i \in 1 .. n + 1 : h[i] = step[<<h[i - 1], i>>]
      <4> TAKE i \in 1 .. n + 1
      <4>1. CASE i = n + 1
        <5>1. i - 1 = n /\ n \in 0 .. n
          BY <4>1
        <5>2. h[n] = g[n]
          BY <3>5, <5>1
        <5>3. QED BY <3>4, <4>1, <5>1, <5>2
      <4>2. CASE i # n + 1
        <5>1. i \in 1 .. n /\ i \in 0 .. n /\ i - 1 \in 0 .. n
          BY <4>2
        <5>2. QED
          BY <3>1, <3>5, <5>1 DEF Follows
      <4>3. QED BY <4>1, <4>2
    <3>7. Follows(h, base, step, n + 1)
      BY <3>1, <3>5, <3>6 DEF Follows
    <3>8. QED BY <2>1, <3>4, <3>7
  <2>4. Nat \subseteq S
    BY <2>2, <2>3, SetInduction
  <2>5. QED BY <2>1, <2>4
<1>2. \A n \in Nat : \A g, h \in [Nat -> A] :
         Follows(g, base, step, n) /\ Follows(h, base, step, n) => g[n] = h[n]
  <2>1. PICK S : S = {n \in Nat : \A g, h \in [Nat -> A] :
                 Follows(g, base, step, n) /\ Follows(h, base, step, n) => g[n] = h[n]}
    OBVIOUS
  <2>2. 0 \in S
    BY <2>1 DEF Follows
  <2>3. ASSUME NEW n \in Nat, n \in S PROVE n + 1 \in S
    <3>1. SUFFICES ASSUME NEW g \in [Nat -> A], NEW h \in [Nat -> A],
                          Follows(g, base, step, n + 1), Follows(h, base, step, n + 1)
                   PROVE  g[n + 1] = h[n + 1]
      BY <2>1
    <3>2. Follows(g, base, step, n) /\ g[n + 1] = step[<<g[n], n + 1>>]
      BY <3>1 DEF Follows
    <3>x. Follows(h, base, step, n) /\ h[n + 1] = step[<<h[n], n + 1>>]
      BY <3>1 DEF Follows
    <3>3. g[n] = h[n]
      BY <2>1, <2>3, <3>2, <3>x
    <3>4. QED BY <3>2, <3>3, <3>x
  <2>4. Nat \subseteq S
    BY <2>2, <2>3, SetInduction
  <2>5. QED BY <2>1, <2>4
<1>3. PICK G : G = [n \in Nat |-> CHOOSE g \in [Nat -> A] : Follows(g, base, step, n)]
  OBVIOUS
<1>4. \A n \in Nat : G[n] \in [Nat -> A] /\ Follows(G[n], base, step, n)
  BY <1>1, <1>3
<1>5. PICK f : f = [n \in Nat |-> G[n][n]]
  OBVIOUS
<1>6. f \in [Nat -> A]
  BY <1>4, <1>5
<1>7. f[0] = base
  BY <1>4, <1>5 DEF Follows
<1>8. ASSUME NEW n \in Nat PROVE f[n + 1] = step[<<f[n], n + 1>>]
  <2>1. PICK g \in [Nat -> A] : g = G[n + 1] /\ Follows(g, base, step, n + 1)
    BY <1>4
  <2>2. Follows(g, base, step, n) /\ g[n + 1] = step[<<g[n], n + 1>>]
    BY <2>1 DEF Follows
  <2>3. g[n] = f[n]
    BY <1>2, <1>4, <1>5, <2>2
  <2>4. f[n + 1] = g[n + 1]
    BY <1>5, <2>1
  <2>5. QED
    BY <2>2, <2>3, <2>4
<1>9. QED BY <1>6, <1>7, <1>8 DEF DefinedBy

\* How to recognise what FlattenSeq gives: what has been put together so far.
LEMMA FlattenIs ==
    ASSUME NEW B, NEW ss \in Seq(Seq(B)), NEW f,
           f[0] = << >>, \A i \in 1 .. Len(ss) : f[i] \in Seq(B) /\ f[i] = f[i - 1] \o ss[i]
    PROVE  FlattenSeq(ss) = f[Len(ss)]
<1>1. CASE Len(ss) = 0
  <2>1. ss = << >>
    BY <1>1
  <2>2. QED BY <1>1, <2>1 DEF FlattenSeq
<1>2. CASE Len(ss) > 0
  <2>1. PICK n : n = Len(ss) /\ n \in Nat /\ n > 0
    BY <1>2
  <2>2. PICK flatten : flatten = CHOOSE g : g = [i \in 1 .. Len(ss) |->
                 IF i = 1 THEN ss[i] ELSE g[i - 1] \o ss[i]]
    OBVIOUS
  <2>3. FlattenSeq(ss) = flatten[Len(ss)]
    <3>1. Len(ss) # 0
      BY <1>2
    <3>2. QED BY <2>2, <3>1, Zenon DEF FlattenSeq
  <2>4. PICK fl : fl = [i \in 1 .. n |-> f[i]]
    OBVIOUS
  <2>5. \A i \in 1 .. n : fl[i] = IF i = 1 THEN ss[i] ELSE fl[i - 1] \o ss[i]
    <3> TAKE i \in 1 .. n
    <3>1. CASE i = 1
      <4>1. 1 \in 1 .. Len(ss) /\ 1 - 1 = 0
        BY <2>1
      <4>2. ss[1] \in Seq(B) 
        BY <4>1
      <4>3. f[1] = f[1 - 1] \o ss[1]
        BY <4>1
      <4>4. f[1] = << >> \o ss[1]
        BY <4>1, <4>3
      <4>5. f[1] = ss[1]
        BY <4>2, <4>4
      <4>6. QED BY <2>4, <3>1, <4>5
    <3>2. CASE i # 1
      <4>1. i - 1 \in 1 .. n
        BY <2>1, <3>2
      <4>2. QED BY <2>1, <2>4, <3>2, <4>1
    <3>3. QED BY <3>1, <3>2
  <2>6. fl = [i \in 1 .. Len(ss) |-> IF i = 1 THEN ss[i] ELSE fl[i - 1] \o ss[i]]
    BY <2>1, <2>4, <2>5
  <2>7. \E g : g = [i \in 1 .. Len(ss) |-> IF i = 1 THEN ss[i] ELSE g[i - 1] \o ss[i]]
    BY <2>6, Zenon
  <2>8. flatten = [i \in 1 .. Len(ss) |-> IF i = 1 THEN ss[i] ELSE flatten[i - 1] \o ss[i]]
    BY <2>2, <2>7, Zenon
  <2>9. \A i \in 1 .. n : flatten[i] = IF i = 1 THEN ss[i] ELSE flatten[i - 1] \o ss[i]
    BY <2>1, <2>8
  <2>10. PICK S : S = {k \in Nat : k + 1 \in 1 .. n => flatten[k + 1] = fl[k + 1]}
    OBVIOUS
  <2>11. 0 \in S
    <3>1. 1 \in 1 .. n
      BY <2>1
    <3>2. flatten[1] = fl[1]
      BY <2>5, <2>9, <3>1
    <3>3. QED BY <2>10, <3>2
  <2>12. ASSUME NEW k \in Nat, k \in S PROVE k + 1 \in S
    <3>1. SUFFICES ASSUME k + 2 \in 1 .. n PROVE flatten[k + 2] = fl[k + 2]
      BY <2>10
    <3>2. k + 1 \in 1 .. n /\ k + 2 # 1 /\ (k + 2) - 1 = k + 1
      BY <2>1, <3>1
    <3>3. flatten[k + 1] = fl[k + 1]
      BY <2>10, <2>12, <3>2
    <3>4. flatten[k + 2] = flatten[k + 1] \o ss[k + 2] /\ fl[k + 2] = fl[k + 1] \o ss[k + 2]
      BY <2>5, <2>9, <3>1, <3>2
    <3>5. QED BY <3>3, <3>4
  <2>13. n - 1 \in S
    <3>1. Nat \subseteq S
      BY <2>11, <2>12, SetInduction
    <3>2. n - 1 \in Nat
      BY <2>1
    <3>3. QED BY <3>1, <3>2
  <2>14. flatten[n] = fl[n]
    BY <2>1, <2>10, <2>13
  <2>15. QED BY <2>1, <2>3, <2>4, <2>14
<1>3. QED BY <1>1, <1>2
\* Flattening gives a sequence, nothing for nothing, and what follows at the end.
LEMMA FlattenProperties ==
    ASSUME NEW B, NEW ss \in Seq(Seq(B)), NEW s \in Seq(B)
    PROVE  /\ FlattenSeq(ss) \in Seq(B)
           /\ FlattenSeq(Append(ss, s)) = FlattenSeq(ss) \o s
<1>1. PICK ts : ts = Append(ss, s)
  OBVIOUS
<1>2. /\ ts \in Seq(Seq(B)) /\ Len(ss) \in Nat /\ Len(ts) = Len(ss) + 1 /\ ts[Len(ts)] = s
      /\ \A i \in 1 .. Len(ss) : ts[i] = ss[i] /\ ss[i] \in Seq(B)
  BY <1>1
<1>3. PICK step : step = [x \in Seq(B) \X Nat |->
                            IF x[2] \in 1 .. Len(ts) THEN x[1] \o ts[x[2]] ELSE x[1]]
  OBVIOUS
<1>4. step \in [Seq(B) \X Nat -> Seq(B)]
  <2>1. SUFFICES ASSUME NEW x \in Seq(B) \X Nat
                 PROVE  (IF x[2] \in 1 .. Len(ts) THEN x[1] \o ts[x[2]] ELSE x[1]) \in Seq(B)
    BY <1>3
  <2>2. x[1] \in Seq(B) /\ x[2] \in Nat
    OBVIOUS
  <2>3. x[2] \in 1 .. Len(ts) => ts[x[2]] \in Seq(B)
    BY <1>2
  <2>4. x[2] \in 1 .. Len(ts) => x[1] \o ts[x[2]] \in Seq(B)
    BY <2>2, <2>3
  <2>5. QED BY <2>2, <2>4
<1>5. << >> \in Seq(B)
  OBVIOUS
<1>6. PICK f \in [Nat -> Seq(B)] : f[0] = << >> /\ \A n \in Nat : f[n + 1] = step[<<f[n], n + 1>>]
  <2>1. \E f : DefinedBy(f, Seq(B), << >>, step)
    BY <1>4, <1>5, Recursion, Zenon
  <2>2. QED BY <2>1 DEF DefinedBy
<1>7. \A i \in 1 .. Len(ts) : f[i] \in Seq(B) /\ f[i] = f[i - 1] \o ts[i]
  <2> TAKE i \in 1 .. Len(ts)
  <2>1. i \in Nat /\ i - 1 \in Nat /\ (i - 1) + 1 = i
    BY <1>2
  <2>2. f[i] = step[<<f[i - 1], i>>]
    BY <1>6, <2>1
  <2>3. <<f[i - 1], i>> \in Seq(B) \X Nat
    BY <2>1
  <2>4. step[<<f[i - 1], i>>] = f[i - 1] \o ts[i]
    BY <1>3, <2>3
  <2>5. QED BY <2>1, <2>2, <2>4
<1>8. FlattenSeq(ts) = f[Len(ts)]
  BY <1>2, <1>6, <1>7, FlattenIs
<1>9. \A i \in 1 .. Len(ss) : f[i] \in Seq(B) /\ f[i] = f[i - 1] \o ss[i]
  <2> TAKE i \in 1 .. Len(ss)
  <2>1. i \in 1 .. Len(ts) /\ ts[i] = ss[i]
    BY <1>2
  <2>2. f[i] \in Seq(B) /\ f[i] = f[i - 1] \o ts[i]
    BY <1>7, <2>1
  <2>3. QED BY <2>1, <2>2
<1>10. FlattenSeq(ss) = f[Len(ss)]
  BY <1>2, <1>6, <1>9, FlattenIs
<1>11. f[Len(ts)] = f[Len(ss)] \o s
  <2>1. Len(ts) \in 1 .. Len(ts) /\ Len(ts) - 1 = Len(ss)
    BY <1>2
  <2>2. QED BY <1>2, <1>7, <2>1
<1>12. f[Len(ss)] \in Seq(B)
  BY <1>2, <1>6
<1>13. QED
  BY <1>1, <1>8, <1>10, <1>11, <1>12

\* Nothing is flattened to nothing.
LEMMA FlattenEmpty == FlattenSeq(<< >>) = << >>
BY DEF FlattenSeq

\* Flattening distributes over concatenation.
LEMMA FlattenConcat ==
    ASSUME NEW B, NEW ss \in Seq(Seq(B)), NEW ts \in Seq(Seq(B))
    PROVE  FlattenSeq(ss \o ts) = FlattenSeq(ss) \o FlattenSeq(ts)
<1>1. PICK S : S = {n \in Nat : \A us \in Seq(Seq(B)) : Len(us) = n =>
                       FlattenSeq(ss \o us) = FlattenSeq(ss) \o FlattenSeq(us)}
  OBVIOUS
<1>2. FlattenSeq(ss) \in Seq(B)
  BY FlattenProperties, << >> \in Seq(B)
<1>3. 0 \in S
  <2>1. SUFFICES ASSUME NEW us \in Seq(Seq(B)), Len(us) = 0
                 PROVE  FlattenSeq(ss \o us) = FlattenSeq(ss) \o FlattenSeq(us)
    BY <1>1
  <2>2. us = << >>
    BY <2>1
  <2>3. ss \o us = ss
    BY <2>2
  <2>4. FlattenSeq(us) = << >>
    BY <2>2, FlattenEmpty
  <2>5. FlattenSeq(ss) \o << >> = FlattenSeq(ss)
    BY <1>2
  <2>6. QED BY <2>3, <2>4, <2>5
<1>4. ASSUME NEW n \in Nat, n \in S PROVE n + 1 \in S
  <2>1. SUFFICES ASSUME NEW us \in Seq(Seq(B)), Len(us) = n + 1
                 PROVE  FlattenSeq(ss \o us) = FlattenSeq(ss) \o FlattenSeq(us)
    BY <1>1
  <2>2. PICK vs, v : vs = SubSeq(us, 1, n) /\ v = us[n + 1]
    OBVIOUS
  <2>3. /\ vs \in Seq(Seq(B)) /\ Len(vs) = n /\ v \in Seq(B)
    BY <2>1, <2>2
  <2>4. us = Append(vs, v)
    BY <2>1, <2>2
  <2>5. ss \o us = Append(ss \o vs, v) /\ ss \o vs \in Seq(Seq(B))
    BY <2>3, <2>4
  <2>6. FlattenSeq(ss \o us) = FlattenSeq(ss \o vs) \o v
    BY <2>3, <2>5, FlattenProperties
  <2>7. FlattenSeq(us) = FlattenSeq(vs) \o v /\ FlattenSeq(vs) \in Seq(B)
    BY <2>3, <2>4, FlattenProperties
  <2>8. FlattenSeq(ss \o vs) = FlattenSeq(ss) \o FlattenSeq(vs)
    BY <1>1, <1>4, <2>3
  <2>9. PICK a, b : a = FlattenSeq(ss) /\ b = FlattenSeq(vs)
    OBVIOUS
  <2>10. (a \o b) \o v = a \o (b \o v)
    BY <1>2, <2>3, <2>7, <2>9
  <2>11. QED BY <2>6, <2>7, <2>8, <2>9, <2>10
<1>5. Len(ts) \in S
  <2>1. Len(ts) \in Nat
    OBVIOUS
  <2>2. QED BY <1>3, <1>4, <2>1, SetInduction
<1>6. QED BY <1>1, <1>5
=============================================================================
