-------------------------- MODULE EchoServersProofs --------------------------
(***************************************************************************)
(* Proofs about EchoServers: types, the zombies that are left, and that    *)
(* every one of the servers implements the echo service.                   *)
(*                                                                         *)
(* The invariant has three parts.  Places says who is where: a connection  *)
(* is in the queue, or has a process, or is watched by the loop, or has    *)
(* been hung up on.  Ended says that a zombie has ended, so that no child  *)
(* becomes one twice.  Flow says that the bytes of a client are a run,     *)
(* cut into what it has got, what is on the way to it, what the server has *)
(* and what the server has not read.                                       *)
(***************************************************************************)
EXTENDS EchoServers, SequenceTheorems, FiniteSetTheorems, WellFoundedInduction, TLAPS

(* The bytes of client c from a, not included, to b.                       *)
Run(c, a, b) == [k \in 1 .. b - a |-> <<c, a + k>>]

(* The first n of a sequence, and the others.                              *)
LEMMA FirstRest ==
  ASSUME NEW S, NEW s \in Seq(S), NEW n \in 0 .. Len(s)
  PROVE  /\ First(s, n) \in Seq(S) /\ Len(First(s, n)) = n
         /\ \A i \in 1 .. n : First(s, n)[i] = s[i]
         /\ Rest(s, n) \in Seq(S) /\ Len(Rest(s, n)) = Len(s) - n
         /\ \A i \in 1 .. Len(s) - n : Rest(s, n)[i] = s[n + i]
<1>1. Len(s) \in Nat /\ n \in Nat /\ n <= Len(s) BY LenProperties
<1>2. /\ First(s, n) \in Seq(S)
      /\ Len(First(s, n)) = IF 1 <= n THEN n - 1 + 1 ELSE 0
      /\ \A i \in 1 .. n - 1 + 1 : First(s, n)[i] = s[1 + i - 1]
  <2>1. 1 \in 1 .. Len(s) + 1 /\ n \in (1 - 1) .. Len(s) BY <1>1
  <2> QED BY <2>1, SubSeqProperties DEF First
<1>3. /\ Rest(s, n) \in Seq(S)
      /\ Len(Rest(s, n)) = IF n + 1 <= Len(s) THEN Len(s) - (n + 1) + 1 ELSE 0
      /\ \A i \in 1 .. Len(s) - (n + 1) + 1 : Rest(s, n)[i] = s[n + 1 + i - 1]
  <2>1. n + 1 \in 1 .. Len(s) + 1 /\ Len(s) \in (n + 1 - 1) .. Len(s) BY <1>1
  <2> QED BY <2>1, SubSeqProperties DEF Rest
<1>4. \A i \in Nat : 1 + i - 1 = i /\ n + 1 + i - 1 = n + i BY <1>1
<1>5. n - 1 + 1 = n /\ Len(s) - (n + 1) + 1 = Len(s) - n BY <1>1
<1>6. Len(First(s, n)) = n /\ Len(Rest(s, n)) = Len(s) - n BY <1>1, <1>2, <1>3
<1>7. \A i \in 1 .. n : First(s, n)[i] = s[i]
  BY <1>2, <1>4, <1>5
<1>8. ASSUME NEW i \in 1 .. Len(s) - n PROVE Rest(s, n)[i] = s[n + i]
  <2>1. i \in 1 .. Len(s) - (n + 1) + 1 BY <1>5
  <2>2. Rest(s, n)[i] = s[n + 1 + i - 1] BY <1>3, <2>1
  <2>3. n + 1 + i - 1 = n + i BY <1>1
  <2> QED BY <2>2, <2>3
<1> QED BY <1>2, <1>3, <1>6, <1>7, <1>8

(* What a run is.                                                          *)
LEMMA RunType ==
  ASSUME NEW c \in Conns, NEW a \in Nat, NEW b \in Nat, a <= b
  PROVE  /\ Run(c, a, b) \in Seq(Bytes) /\ Len(Run(c, a, b)) = b - a
         /\ \A k \in 1 .. b - a : Run(c, a, b)[k] = <<c, a + k>>
<1>1. b - a \in Nat OBVIOUS
<1>2. \A k \in 1 .. b - a : <<c, a + k>> \in Bytes BY DEF Bytes
<1>3. Run(c, a, b) \in Seq(Bytes) BY <1>1, <1>2, IsASeq DEF Run
<1>4. Len(Run(c, a, b)) = b - a
  <2>1. DOMAIN Run(c, a, b) = 1 .. b - a BY DEF Run
  <2> QED BY <1>1, <1>3, <2>1, LenProperties
<1>5. \A k \in 1 .. b - a : Run(c, a, b)[k] = <<c, a + k>> BY DEF Run
<1> QED BY <1>3, <1>4, <1>5

(* A sequence is a run when its bytes are.                                 *)
LEMMA IsRun ==
  ASSUME NEW c \in Conns, NEW a \in Nat, NEW b \in Nat, a <= b,
         NEW s \in Seq(Bytes), Len(s) = b - a,
         \A k \in 1 .. b - a : s[k] = <<c, a + k>>
  PROVE  s = Run(c, a, b)
<1> DEFINE t == Run(c, a, b)
<1>1. t \in Seq(Bytes) /\ Len(t) = b - a /\ \A k \in 1 .. b - a : t[k] = <<c, a + k>>
  BY RunType
<1> HIDE DEF t
<1>2. Len(s) = Len(t) /\ \A k \in 1 .. Len(s) : s[k] = t[k] BY <1>1
<1>3. s = t BY <1>1, <1>2, SeqEqual
<1> QED BY <1>3 DEF t

(* Two runs, one after the other, are one.                                 *)
LEMMA RunJoin ==
  ASSUME NEW c \in Conns, NEW a \in Nat, NEW b \in Nat, NEW d \in Nat, a <= b, b <= d
  PROVE  Run(c, a, b) \o Run(c, b, d) = Run(c, a, d)
<1> DEFINE s == Run(c, a, b)  t == Run(c, b, d)
<1>1. /\ s \in Seq(Bytes) /\ Len(s) = b - a /\ \A k \in 1 .. b - a : s[k] = <<c, a + k>>
      /\ t \in Seq(Bytes) /\ Len(t) = d - b /\ \A k \in 1 .. d - b : t[k] = <<c, b + k>>
  BY RunType
<1> HIDE DEF s, t
<1>2. /\ s \o t \in Seq(Bytes) /\ Len(s \o t) = Len(s) + Len(t)
      /\ \A i \in 1 .. Len(s) + Len(t) : (s \o t)[i] = IF i <= Len(s) THEN s[i] ELSE t[i - Len(s)]
  BY <1>1, ConcatProperties
<1>3. Len(s) + Len(t) = d - a BY <1>1
<1>4. ASSUME NEW i \in 1 .. d - a PROVE (s \o t)[i] = <<c, a + i>>
  <2>1. CASE i <= b - a
    <3>1. i \in 1 .. b - a BY <2>1
    <3> QED BY <1>1, <1>2, <1>3, <2>1, <3>1
  <2>2. CASE ~(i <= b - a)
    <3>1. i - (b - a) \in 1 .. d - b /\ b + (i - (b - a)) = a + i BY <2>2
    <3>2. t[i - (b - a)] = <<c, a + i>> BY <1>1, <3>1
    <3> QED BY <1>1, <1>2, <1>3, <2>2, <3>2
  <2> QED BY <2>1, <2>2
<1>5. a <= d /\ s \o t \in Seq(Bytes) /\ Len(s \o t) = d - a BY <1>2, <1>3
<1>6. s \o t = Run(c, a, d) BY <1>4, <1>5, IsRun
<1> QED BY <1>6 DEF s, t

(* A run cut in two.                                                       *)
LEMMA RunCut ==
  ASSUME NEW c \in Conns, NEW a \in Nat, NEW b \in Nat, a <= b, NEW n \in 0 .. b - a
  PROVE  /\ First(Run(c, a, b), n) = Run(c, a, a + n)
         /\ Rest(Run(c, a, b), n) = Run(c, a + n, b)
<1> DEFINE s == Run(c, a, b)
<1>1. s \in Seq(Bytes) /\ Len(s) = b - a /\ \A k \in 1 .. b - a : s[k] = <<c, a + k>>
  BY RunType
<1> HIDE DEF s
<1>2. n \in 0 .. Len(s) BY <1>1
<1>3. /\ First(s, n) \in Seq(Bytes) /\ Len(First(s, n)) = n
      /\ \A i \in 1 .. n : First(s, n)[i] = s[i]
      /\ Rest(s, n) \in Seq(Bytes) /\ Len(Rest(s, n)) = Len(s) - n
      /\ \A i \in 1 .. Len(s) - n : Rest(s, n)[i] = s[n + i]
  BY <1>1, <1>2, FirstRest
<1> DEFINE e == a + n
<1>4. e \in Nat /\ a <= e /\ e <= b /\ e - a = n /\ b - e = Len(s) - n BY <1>1
<1> HIDE DEF e
<1>5. First(s, n) = Run(c, a, e)
  <2>1. \A i \in 1 .. e - a : First(s, n)[i] = <<c, a + i>>
    <3>1. \A i \in 1 .. n : i \in 1 .. b - a OBVIOUS
    <3> QED BY <1>1, <1>3, <1>4, <3>1
  <2>2. Len(First(s, n)) = e - a BY <1>3, <1>4
  <2> QED BY <1>3, <1>4, <2>1, <2>2, IsRun
<1>6. Rest(s, n) = Run(c, e, b)
  <2>1. ASSUME NEW i \in 1 .. b - e PROVE Rest(s, n)[i] = <<c, e + i>>
    <3>1. i \in 1 .. Len(s) - n /\ n + i \in 1 .. b - a /\ a + (n + i) = e + i BY <1>1, <1>4 DEF e
    <3>2. Rest(s, n)[i] = s[n + i] BY <1>3, <3>1
    <3>3. s[n + i] = <<c, a + (n + i)>> BY <1>1, <3>1
    <3> QED BY <3>1, <3>2, <3>3
  <2>2. Len(Rest(s, n)) = b - e BY <1>3, <1>4
  <2> QED BY <1>3, <1>4, <2>1, <2>2, IsRun
<1> QED BY <1>5, <1>6 DEF s, e

(* Moving the first byte of one run to the end of the run before it.       *)
LEMMA RunMove ==
  ASSUME NEW c \in Conns, NEW a \in Nat, NEW b \in Nat, NEW d \in Nat, a <= b, b < d
  PROVE  /\ Append(Run(c, a, b), Head(Run(c, b, d))) = Run(c, a, b + 1)
         /\ Tail(Run(c, b, d)) = Run(c, b + 1, d)
<1> DEFINE s == Run(c, a, b)  t == Run(c, b, d)
<1>0. b <= d OBVIOUS
<1>1. /\ s \in Seq(Bytes) /\ Len(s) = b - a /\ \A k \in 1 .. b - a : s[k] = <<c, a + k>>
      /\ t \in Seq(Bytes) /\ Len(t) = d - b /\ \A k \in 1 .. d - b : t[k] = <<c, b + k>>
  BY <1>0, RunType
<1> HIDE DEF s, t
<1>2. t # <<>> BY <1>1, EmptySeq
<1>3. /\ Head(t) = t[1] /\ Head(t) \in Bytes
      /\ Tail(t) \in Seq(Bytes) /\ Len(Tail(t)) = Len(t) - 1
      /\ \A i \in 1 .. Len(Tail(t)) : Tail(t)[i] = t[i + 1]
  BY <1>1, <1>2, HeadTailProperties
<1>4. Head(t) = <<c, b + 1>> BY <1>1, <1>3
<1> DEFINE h == Head(t)
<1>h. h \in Bytes BY <1>3
<1> HIDE DEF h
<1>5. /\ Append(s, h) \in Seq(Bytes) /\ Len(Append(s, h)) = Len(s) + 1
      /\ \A i \in 1 .. Len(s) : Append(s, h)[i] = s[i]
      /\ Append(s, h)[Len(s) + 1] = h
  BY <1>1, <1>h, AppendProperties
<1> DEFINE e == b + 1
<1>6. e \in Nat /\ a <= e /\ e <= d /\ e - a = Len(s) + 1 /\ d - e = Len(Tail(t)) BY <1>1, <1>3
<1> HIDE DEF e
<1>7. Append(s, h) = Run(c, a, e)
  <2>1. ASSUME NEW i \in 1 .. e - a PROVE Append(s, h)[i] = <<c, a + i>>
    <3>1. CASE i \in 1 .. b - a
      <4>1. Append(s, h)[i] = s[i] BY <1>1, <1>5, <3>1
      <4> QED BY <1>1, <3>1, <4>1
    <3>2. CASE i = Len(s) + 1
      <4>1. a + i = b + 1 BY <1>1, <3>2
      <4> QED BY <1>4, <1>5, <3>2, <4>1 DEF h
    <3>3. i \in 1 .. b - a \/ i = Len(s) + 1 BY <1>1, <1>6
    <3> QED BY <3>1, <3>2, <3>3
  <2>2. Len(Append(s, h)) = e - a BY <1>5, <1>6
  <2> QED BY <1>5, <1>6, <2>1, <2>2, IsRun
<1>8. Tail(t) = Run(c, e, d)
  <2>1. ASSUME NEW i \in 1 .. d - e PROVE Tail(t)[i] = <<c, e + i>>
    <3>1. i \in 1 .. Len(Tail(t)) /\ i + 1 \in 1 .. d - b /\ b + (i + 1) = e + i BY <1>6 DEF e
    <3>2. Tail(t)[i] = t[i + 1] BY <1>3, <3>1
    <3>3. t[i + 1] = <<c, b + (i + 1)>> BY <1>1, <3>1
    <3> QED BY <3>1, <3>2, <3>3
  <2>2. Len(Tail(t)) = d - e BY <1>6
  <2> QED BY <1>3, <1>6, <2>1, <2>2, IsRun
<1> QED BY <1>7, <1>8 DEF s, t, e, h
(* The two parts of a cut sequence make it up.                             *)
LEMMA Whole ==
  ASSUME NEW s \in Seq(Bytes), NEW n \in 0 .. Len(s)
  PROVE  \E x \in Seq(Bytes), y \in Seq(Bytes) :
           x = First(s, n) /\ y = Rest(s, n) /\ x \o y = s
<1>1. First(s, n) \in Seq(Bytes) /\ Rest(s, n) \in Seq(Bytes) BY FirstRest
<1>2. First(s, n) \o Rest(s, n) = s
  <2>0. Len(s) \in Nat BY LenProperties
  <2>1. 1 \in 1 .. Len(s) + 1 /\ n \in 1 - 1 .. Len(s) /\ Len(s) \in n .. Len(s) BY <2>0
  <2>2. SubSeq(s, 1, n) \o SubSeq(s, n + 1, Len(s)) = SubSeq(s, 1, Len(s))
    BY <2>1, ConcatAdjacentSubSeq
  <2> QED BY <2>2, SubSeqFull DEF First, Rest
<1> QED BY <1>1, <1>2
-----------------------------------------------------------------------------
(* A set of natural numbers that is not empty has a least.                 *)
LEMMA Smallest ==
  ASSUME NEW T \in SUBSET Nat, T # {}
  PROVE  \E n \in T : \A m \in T : ~(m < n)
<1> DEFINE R == OpToRel(<, Nat)
<1>1. IsWellFoundedOn(R, Nat) BY NatLessThanWellFounded
<1>2. \A x, y \in Nat : x < y => <<x, y>> \in R BY DEF OpToRel
<1> HIDE DEF R
<1>3. \E x \in T : \A y \in T : ~ (<<y, x>> \in R) BY <1>1, WFMin
<1> QED BY <1>2, <1>3

(* So a set that has 0 and with each number the next has them all.  This   *)
(* is induction, stated for a set.                                         *)
LEMMA Induction ==
  ASSUME NEW T \in SUBSET Nat, 0 \in T, \A n \in T : n + 1 \in T
  PROVE  T = Nat
<1> SUFFICES ASSUME Nat \ T # {} PROVE FALSE OBVIOUS
<1>1. PICK n \in Nat \ T : \A m \in Nat \ T : ~(m < n) BY Smallest
<1>2. n # 0 /\ n - 1 \in Nat /\ n - 1 < n /\ (n - 1) + 1 = n BY <1>1
<1> QED BY <1>1, <1>2

(* f has, for each of the first n bytes of s, those of client c up to it.  *)
Picks(f, c, s, n) ==
  f = [k \in 0 .. n |-> IF k = 0 THEN <<>>
                        ELSE IF s[k][1] = c THEN Append(f[k - 1], s[k]) ELSE f[k - 1]]

LEMMA PicksAt ==
  ASSUME NEW f, NEW c, NEW s, NEW n \in Nat, Picks(f, c, s, n)
  PROVE  /\ f[0] = <<>>
         /\ \A k \in Nat : k + 1 <= n =>
              f[k + 1] = IF s[k + 1][1] = c THEN Append(f[k], s[k + 1]) ELSE f[k]
<1> DEFINE g == [k \in 0 .. n |-> IF k = 0 THEN <<>>
                        ELSE IF s[k][1] = c THEN Append(f[k - 1], s[k]) ELSE f[k - 1]]
<1>1. f = g BY DEF Picks
<1>2. g[0] = <<>> OBVIOUS
<1>3. ASSUME NEW k \in Nat, k + 1 <= n
      PROVE  g[k + 1] = IF s[k + 1][1] = c THEN Append(f[k], s[k + 1]) ELSE f[k]
  <2>1. k + 1 \in 0 .. n /\ k + 1 # 0 /\ (k + 1) - 1 = k BY <1>3
  <2> QED BY <2>1
<1> HIDE DEF g
<1> QED BY <1>1, <1>2, <1>3

(* There is such a function.                                               *)
LEMMA PicksExists ==
  ASSUME NEW c, NEW s
  PROVE  \A n \in Nat : \E f : Picks(f, c, s, n)
<1> DEFINE T == {n \in Nat : \E f : Picks(f, c, s, n)}
<1>1. 0 \in T
  <2> DEFINE f == [k \in 0 .. 0 |-> <<>>]
  <2>1. Picks(f, c, s, 0)
    <3>1. \A k \in 0 .. 0 : k = 0 OBVIOUS
    <3> QED BY <3>1 DEF Picks
  <2> QED BY <2>1
<1>2. ASSUME NEW n \in T PROVE n + 1 \in T
  <2>0. n \in Nat OBVIOUS
  <2>1. PICK f : Picks(f, c, s, n) OBVIOUS
  <2>2. f = [k \in 0 .. n |-> IF k = 0 THEN <<>>
               ELSE IF s[k][1] = c THEN Append(f[k - 1], s[k]) ELSE f[k - 1]]
    BY <2>1 DEF Picks
  <2> DEFINE Nxt(h, k) == IF k = 0 THEN <<>>
                          ELSE IF s[k][1] = c THEN Append(h[k - 1], s[k]) ELSE h[k - 1]
             g == [k \in 0 .. n + 1 |-> Nxt(f, k)]
  <2>3. \A k \in 0 .. n : f[k] = Nxt(f, k) BY <2>2
  <2> HIDE DEF Nxt
  <2>4. \A k \in 0 .. n : g[k] = f[k]
    <3>1. \A k \in 0 .. n : k \in 0 .. n + 1 BY <2>0
    <3> QED BY <2>3, <3>1
  <2>5. \A k \in 0 .. n + 1 : k = 0 \/ k - 1 \in 0 .. n BY <2>0
  <2> HIDE DEF g
  <2>6. \A k \in 0 .. n + 1 : Nxt(f, k) = Nxt(g, k) BY <2>4, <2>5 DEF Nxt
  <2>7. g = [k \in 0 .. n + 1 |-> Nxt(g, k)] BY <2>6 DEF g
  <2>8. Picks(g, c, s, n + 1) BY <2>7 DEF Picks, Nxt
  <2> QED BY <2>0, <2>8
<1>3. T = Nat
  <2> HIDE DEF T
  <2>1. T \in SUBSET Nat BY DEF T
  <2> QED BY <1>1, <1>2, <2>1, Induction
<1> QED BY <1>3

(* Those of a sequence and of a longer one agree on the shorter.           *)
LEMMA PicksAgree ==
  ASSUME NEW c, NEW s, NEW t, NEW m \in Nat, NEW n \in Nat, NEW f, NEW g,
         Picks(f, c, s, m), Picks(g, c, t, n),
         m <= n, \A k \in 1 .. m : s[k] = t[k]
  PROVE  \A k \in 0 .. m : f[k] = g[k]
<1> DEFINE T == {k \in Nat : k <= m => f[k] = g[k]}
<1>1. 0 \in T BY PicksAt
<1>2. ASSUME NEW k \in T PROVE k + 1 \in T
  <2>1. k \in Nat /\ k + 1 \in Nat OBVIOUS
  <2>2. ASSUME k + 1 <= m PROVE f[k + 1] = g[k + 1]
    <3>1. k <= m /\ k + 1 <= n /\ k + 1 \in 1 .. m BY <2>1, <2>2
    <3>2. f[k] = g[k] /\ s[k + 1] = t[k + 1] BY <3>1
    <3>3. f[k + 1] = IF s[k + 1][1] = c THEN Append(f[k], s[k + 1]) ELSE f[k]
      BY <2>1, <3>1, PicksAt
    <3>4. g[k + 1] = IF t[k + 1][1] = c THEN Append(g[k], t[k + 1]) ELSE g[k]
      BY <2>1, <3>1, PicksAt
    <3> QED BY <3>2, <3>3, <3>4
  <2> QED BY <2>1, <2>2
<1>3. T = Nat
  <2> HIDE DEF T
  <2>1. T \in SUBSET Nat BY DEF T
  <2> QED BY <1>1, <1>2, <2>1, Induction
<1> QED BY <1>3

(* Of is what any of them has at the end.                                  *)
LEMMA OfIs ==
  ASSUME NEW c, NEW s \in Seq(Bytes), NEW f, Picks(f, c, s, Len(s))
  PROVE  Of(c, s) = f[Len(s)]
<1>0. Len(s) \in Nat BY LenProperties
<1> DEFINE g == CHOOSE h : Picks(h, c, s, Len(s))
<1>1. Picks(g, c, s, Len(s)) BY <1>0, PicksExists
<1>2. Of(c, s) = g[Len(s)] BY DEF Of, Picks
<1> HIDE DEF g
<1>3. \A k \in 0 .. Len(s) : g[k] = f[k]
  <2>1. Len(s) <= Len(s) /\ \A k \in 1 .. Len(s) : s[k] = s[k] BY <1>0
  <2> QED BY <1>0, <1>1, <2>1, PicksAgree
<1> QED BY <1>0, <1>2, <1>3

(* It has bytes.                                                           *)
LEMMA PicksType ==
  ASSUME NEW c, NEW s \in Seq(Bytes), NEW f, Picks(f, c, s, Len(s))
  PROVE  \A k \in 0 .. Len(s) : f[k] \in Seq(Bytes)
<1>0. Len(s) \in Nat BY LenProperties
<1> DEFINE T == {k \in Nat : k <= Len(s) => f[k] \in Seq(Bytes)}
<1>1. 0 \in T
  <2>1. f[0] = <<>> BY <1>0, PicksAt
  <2> QED BY <2>1, EmptySeq
<1>2. ASSUME NEW k \in T PROVE k + 1 \in T
  <2>1. k \in Nat /\ k + 1 \in Nat OBVIOUS
  <2>2. ASSUME k + 1 <= Len(s) PROVE f[k + 1] \in Seq(Bytes)
    <3>1. k <= Len(s) /\ k + 1 \in 1 .. Len(s) BY <1>0, <2>1, <2>2
    <3>2. f[k] \in Seq(Bytes) /\ s[k + 1] \in Bytes BY <3>1, ElementOfSeq
    <3>3. f[k + 1] = IF s[k + 1][1] = c THEN Append(f[k], s[k + 1]) ELSE f[k]
      BY <1>0, <2>1, <2>2, PicksAt
    <3>4. Append(f[k], s[k + 1]) \in Seq(Bytes) BY <3>2, AppendProperties
    <3> QED BY <3>2, <3>3, <3>4
  <2> QED BY <2>1, <2>2
<1>3. T = Nat
  <2> HIDE DEF T
  <2>1. T \in SUBSET Nat BY DEF T
  <2> QED BY <1>1, <1>2, <2>1, Induction
<1> QED BY <1>0, <1>3

(* What is picked of a sequence of bytes is one.                           *)
LEMMA OfType ==
  ASSUME NEW c \in Conns, NEW s \in Seq(Bytes)
  PROVE  Of(c, s) \in Seq(Bytes)
<1>0. Len(s) \in Nat BY LenProperties
<1>1. PICK f : Picks(f, c, s, Len(s)) BY <1>0, PicksExists
<1>2. Of(c, s) = f[Len(s)] BY <1>1, OfIs
<1> QED BY <1>0, <1>1, <1>2, PicksType

(* A piece of client d is added to what there is of d, and to nothing else. *)
LEMMA OfConcat ==
  ASSUME NEW c \in Conns, NEW d \in Conns, NEW s \in Seq(Bytes), NEW t \in Seq({d} \X Nat)
  PROVE  Of(c, s \o t) = IF c = d THEN Of(c, s) \o t ELSE Of(c, s)
<1>0. t \in Seq(Bytes)
  <2>1. {d} \X Nat \subseteq Bytes BY DEF Bytes
  <2> QED BY <2>1, SeqMonotonic
<1> DEFINE u == s \o t  a == Len(s)  b == Len(t)  o == Of(c, s)
<1>1. a \in Nat /\ b \in Nat BY <1>0, LenProperties
<1>2. /\ u \in Seq(Bytes) /\ Len(u) = a + b
      /\ \A i \in 1 .. a + b : u[i] = IF i <= a THEN s[i] ELSE t[i - a]
  BY <1>0, ConcatProperties
<1>3. PICK g : Picks(g, c, s, a) BY <1>1, PicksExists
<1>4. PICK f : Picks(f, c, u, a + b)
  <2>1. a + b \in Nat BY <1>1
  <2> QED BY <2>1, PicksExists
<1>5. o = g[a] /\ o \in Seq(Bytes)
  <2>1. a \in 0 .. a BY <1>1
  <2>2. o = g[a] BY <1>3, OfIs
  <2>3. g[a] \in Seq(Bytes) BY <1>3, <2>1, PicksType
  <2> QED BY <2>2, <2>3
<1>5o. o \in Seq(Bytes) BY <1>5
<1>6. Of(c, u) = f[a + b] BY <1>2, <1>4, OfIs
<1> HIDE DEF u, a, b, o
<1>7. f[a] = o
  <2>1. a <= a + b /\ a <= a /\ a + b \in Nat /\ a \in 0 .. a BY <1>1
  <2>2. \A k \in 1 .. a : s[k] = u[k]
    <3>1. \A k \in 1 .. a : k \in 1 .. a + b /\ k <= a BY <1>1
    <3> QED BY <1>2, <3>1
  <2>3. \A k \in 0 .. a : g[k] = f[k] BY <1>1, <1>3, <1>4, <2>1, <2>2, PicksAgree
  <2> QED BY <1>5, <2>1, <2>3
<1> DEFINE T == {k \in Nat : k <= b => f[a + k] = IF c = d THEN o \o First(t, k) ELSE o}
<1>8. 0 \in T
  <2>1. First(t, 0) = <<>> BY SubSeqEmpty DEF First
  <2>2. o \o <<>> = o BY <1>5, ConcatEmptySeq
  <2>3. a + 0 = a BY <1>1
  <2> QED BY <1>7, <2>1, <2>2, <2>3
<1>9. ASSUME NEW k \in T PROVE k + 1 \in T
  <2>1. k \in Nat /\ k + 1 \in Nat OBVIOUS
  <2>2. ASSUME k + 1 <= b
        PROVE  f[a + (k + 1)] = IF c = d THEN o \o First(t, k + 1) ELSE o
    <3>1. /\ k <= b /\ k + 1 \in 1 .. b /\ a + k \in Nat /\ (a + k) + 1 <= a + b
          /\ (a + k) + 1 = a + (k + 1) /\ a + (k + 1) \in 1 .. a + b
          /\ ~(a + (k + 1) <= a) /\ (a + (k + 1)) - a = k + 1 /\ a + b \in Nat
          /\ (k + 1) - 1 = k /\ 1 \in 1 .. b /\ k + 1 \in 1 .. b
      BY <1>1, <2>1, <2>2
    <3>2. u[a + (k + 1)] = t[k + 1] BY <1>2, <3>1
    <3>3. t[k + 1] \in {d} \X Nat BY <3>1, ElementOfSeq DEF b
    <3>4. t[k + 1][1] = d /\ t[k + 1] \in Bytes BY <3>3 DEF Bytes
    <3>5. f[a + (k + 1)] = IF u[a + (k + 1)][1] = c THEN Append(f[a + k], u[a + (k + 1)]) ELSE f[a + k]
      <4>1. f[(a + k) + 1] = IF u[(a + k) + 1][1] = c THEN Append(f[a + k], u[(a + k) + 1]) ELSE f[a + k]
        BY <1>4, <3>1, PicksAt
      <4> QED BY <3>1, <4>1
    <3>6. CASE c # d BY <3>1, <3>2, <3>4, <3>5, <3>6
    <3>7. CASE c = d
      <4>1. f[a + k] = o \o First(t, k) BY <3>1, <3>7
      <4>2. f[a + (k + 1)] = Append(o \o First(t, k), t[k + 1]) BY <3>2, <3>4, <3>5, <3>7, <4>1
      <4>3. First(t, k) \in Seq(Bytes)
        <5>1. k \in 0 .. Len(t) BY <1>1, <2>1, <3>1 DEF b
        <5> QED BY <1>0, <5>1, FirstRest
      <4>4. First(t, k + 1) = First(t, k) \o <<t[k + 1]>>
        <5>1. k + 1 \in 1 .. Len(t) /\ 1 \in 1 .. Len(t) /\ k + 1 \in 1 .. Len(t) BY <3>1 DEF b
        <5>2. SubSeq(t, 1, k + 1) = SubSeq(t, 1, (k + 1) - 1) \o <<t[k + 1]>>
          BY <1>0, <5>1, SubSeqRecursiveSecond
        <5> QED BY <3>1, <5>2 DEF First
      <4>5. Append(o \o First(t, k), t[k + 1]) = (o \o First(t, k)) \o <<t[k + 1]>>
        <5>1. o \o First(t, k) \in Seq(Bytes) BY <1>5, <4>3, ConcatProperties
        <5> QED BY <3>4, <5>1, AppendIsConcat
      <4>6. (o \o First(t, k)) \o <<t[k + 1]>> = o \o (First(t, k) \o <<t[k + 1]>>)
        <5> DEFINE v == First(t, k)  w == <<t[k + 1]>>
        <5>1. v \in Seq(Bytes) /\ w \in Seq(Bytes) BY <3>4, <4>3
        <5> HIDE DEF v, w
        <5>2. (o \o v) \o w = o \o (v \o w) BY <1>5o, <5>1, ConcatAssociative
        <5> QED BY <5>2 DEF v, w
      <4> QED BY <3>7, <4>2, <4>4, <4>5, <4>6
    <3> QED BY <3>6, <3>7
  <2> QED BY <2>1, <2>2
<1>10. T = Nat
  <2> HIDE DEF T
  <2>1. T \in SUBSET Nat BY DEF T
  <2> QED BY <1>8, <1>9, <2>1, Induction
<1>11. f[a + b] = IF c = d THEN o \o First(t, b) ELSE o BY <1>1, <1>10
<1>12. First(t, b) = t BY <1>0, SubSeqFull DEF First, b
<1> QED BY <1>6, <1>11, <1>12 DEF u, o
-----------------------------------------------------------------------------
(* The descriptors in the queue are those of clients that nobody serves.   *)
Queue ==
  /\ \A i, j \in 1 .. Len(backlog) : backlog[i] = backlog[j] => i = j
  /\ \A i \in 1 .. Len(backlog) :
       /\ backlog[i] \in begun \ hung /\ backlog[i] \notin registered
       /\ pc[backlog[i]] = "none"

(* The parent between accept and close.                                    *)
Between ==
  /\ main \in {"fork", "close"} => clnt_sock \in begun
  /\ main = "fork" => /\ clnt_sock \notin hung /\ pc[clnt_sock] = "none"
                      /\ \A i \in 1 .. Len(backlog) : backlog[i] # clnt_sock
  /\ main = "close" => pc[clnt_sock] # "none"

(* A process of a client.                                                  *)
Processes ==
  \A c \in Conns :
    /\ pc[c] # "none" => c \in begun
    /\ pc[c] \in {"close", "exit", "ended"} => AtEnd(c)
    /\ pc[c] # "write" => buf[c] = <<>>

(* Who has been hung up on is not served.                                  *)
Unserved == \A c \in hung : c \notin registered /\ pc[c] \in {"none", "exit", "ended"}

(* Either processes serve or the loop does.                                *)
OneKind ==
  /\ step = "none" => registered = {} /\ events = {}
  /\ step # "none" => main = "none" /\ \A c \in Conns : pc[c] = "none"

Looping ==
  /\ serv_sock \in events => backlog # <<>>
  /\ step \in {"read", "write"} => fd \in Conns /\ fd \in registered /\ fd \notin events
  /\ step # "write" => chunk = <<>>

(* What the server has read of client c and not yet written.               *)
Pend(c) == IF step = "none" THEN buf[c]
           ELSE IF step = "write" /\ fd = c THEN chunk ELSE <<>>

(* Every byte that a client has said is in one place, in order: i of them   *)
(* it has got back, up to j are on the way to it, up to k the server has.  *)
Along(c, i, j, k) ==
  /\ i <= j /\ j <= k
  /\ got[c] = Run(c, 0, i) /\ out[c] = Run(c, i, j)
  /\ Pend(c) = Run(c, j, k) /\ in[c] = Run(c, k, sent[c])

Flows(c) == \E i, j, k \in 0 .. sent[c] : Along(c, i, j, k)

Flow == \A c \in Conns \ lost : Flows(c)

(* The zombies are children that have ended.                               *)
Ended ==
  /\ zombies \subseteq Conns \cup {Writer} /\ IsFiniteSet(zombies)
  /\ \A c \in Conns : c \in zombies => pc[c] = "ended"
  /\ Writer \in zombies => writer = "ended"

Writes == writer = "read" => reads < Quota
-----------------------------------------------------------------------------
(* The lesser of two numbers.                                              *)
LEMMA LeastIs ==
  ASSUME NEW a \in Nat, NEW b \in Nat
  PROVE  Least(a, b) \in 0 .. b /\ Least(a, b) <= a
BY DEF Least

(* What a read takes and leaves, and what a write adds and leaves.         *)
LEMMA TakeType ==
  ASSUME TypeOK, NEW c \in Conns
  PROVE  /\ Least(Buf, Len(in[c])) \in 0 .. Len(in[c])
         /\ Taken(c) \in Seq(Bytes)
         /\ Rest(in[c], Least(Buf, Len(in[c]))) \in Seq(Bytes)
<1>1. in[c] \in Seq(Bytes) /\ Len(in[c]) \in Nat
  <2>1. in[c] \in Seq(Bytes) BY DEF TypeOK, SocketsOK
  <2> QED BY <2>1, LenProperties
<1>2. Least(Buf, Len(in[c])) \in 0 .. Len(in[c]) BY <1>1, LeastIs, BoundsAssumption
<1> QED BY <1>1, <1>2, FirstRest DEF Taken

LEMMA PutType ==
  ASSUME TypeOK, NEW c \in Conns, NEW s \in Seq(Bytes)
  PROVE  /\ Fits(c, s) \in 0 .. Len(s)
         /\ out[c] \o First(s, Fits(c, s)) \in Seq(Bytes)
         /\ Len(out[c] \o First(s, Fits(c, s))) <= Room
         /\ Rest(s, Fits(c, s)) \in Seq(Bytes) /\ Len(Rest(s, Fits(c, s))) = Len(s) - Fits(c, s)
<1>1. out[c] \in Seq(Bytes) /\ Len(out[c]) <= Room BY DEF TypeOK, SocketsOK
<1>2. Len(out[c]) \in Nat /\ Len(s) \in Nat /\ Room \in Nat
  BY <1>1, LenProperties, BoundsAssumption
<1>3. Room - Len(out[c]) \in Nat BY <1>1, <1>2
<1>4. Fits(c, s) \in 0 .. Len(s) /\ Fits(c, s) <= Room - Len(out[c])
  BY <1>2, <1>3, LeastIs DEF Fits
<1>5. /\ First(s, Fits(c, s)) \in Seq(Bytes) /\ Len(First(s, Fits(c, s))) = Fits(c, s)
      /\ Rest(s, Fits(c, s)) \in Seq(Bytes) /\ Len(Rest(s, Fits(c, s))) = Len(s) - Fits(c, s)
  BY <1>4, FirstRest
<1>6. /\ out[c] \o First(s, Fits(c, s)) \in Seq(Bytes)
      /\ Len(out[c] \o First(s, Fits(c, s))) = Len(out[c]) + Fits(c, s)
  <2> DEFINE u == First(s, Fits(c, s))
  <2>1. u \in Seq(Bytes) /\ Len(u) = Fits(c, s) BY <1>5
  <2> HIDE DEF u
  <2>2. out[c] \o u \in Seq(Bytes) /\ Len(out[c] \o u) = Len(out[c]) + Len(u)
    BY <1>1, <2>1, ConcatProperties
  <2> QED BY <2>1, <2>2 DEF u
<1>7. Len(out[c]) + Fits(c, s) <= Room BY <1>2, <1>4
<1> QED BY <1>4, <1>5, <1>6, <1>7

(* The first connection in the queue, and those that are left.             *)
LEMMA QueueType ==
  ASSUME TypeOK, backlog # <<>>
  PROVE  /\ Head(backlog) \in Conns /\ Tail(backlog) \in Seq(Conns)
         /\ Head(backlog) = backlog[1] /\ 1 \in 1 .. Len(backlog)
         /\ Len(Tail(backlog)) = Len(backlog) - 1
         /\ \A i \in 1 .. Len(Tail(backlog)) :
              i + 1 \in 1 .. Len(backlog) /\ Tail(backlog)[i] = backlog[i + 1]
<1>1. backlog \in Seq(Conns) BY DEF TypeOK, SocketsOK
<1>2. Len(backlog) \in Nat \ {0} BY <1>1, EmptySeq
<1>3. /\ Tail(backlog) \in Seq(Conns) /\ Len(Tail(backlog)) = Len(backlog) - 1
      /\ \A i \in 1 .. Len(Tail(backlog)) : Tail(backlog)[i] = backlog[i + 1]
  BY <1>1, HeadTailProperties
<1>4. Head(backlog) = backlog[1] /\ Head(backlog) \in Conns BY <1>1, HeadTailProperties
<1>5. \A i \in 1 .. Len(Tail(backlog)) : i + 1 \in 1 .. Len(backlog) BY <1>2, <1>3
<1> QED BY <1>2, <1>3, <1>4, <1>5

(* What a step leaves alone keeps its type.                                *)
LEMMA Keeps ==
  ASSUME TypeOK
  PROVE  /\ UNCHANGED sockets => SocketsOK'
         /\ UNCHANGED parent => ParentOK'
         /\ UNCHANGED children => ChildrenOK'
         /\ UNCHANGED storing => StoringOK'
         /\ UNCHANGED reaping => ReapingOK'
         /\ UNCHANGED loop /\ registered \subseteq registered' => LoopOK'
<1>1. UNCHANGED sockets => SocketsOK' BY DEF TypeOK, SocketsOK, sockets, clients, watch
<1>2. UNCHANGED parent => ParentOK' BY DEF TypeOK, ParentOK, parent
<1>3. UNCHANGED children => ChildrenOK' BY DEF TypeOK, ChildrenOK, children
<1>4. UNCHANGED storing => StoringOK' BY DEF TypeOK, StoringOK, storing
<1>5. ASSUME UNCHANGED reaping PROVE ReapingOK'
  <2>1. zombies' = zombies /\ sigchld' = sigchld /\ handler' = handler /\ merged' = merged
    BY <1>5, Zenon DEF reaping
  <2>2. sigchld' \in BOOLEAN /\ handler' \in BOOLEAN BY <2>1, Zenon DEF TypeOK, ReapingOK
  <2> QED BY <2>1, <2>2 DEF TypeOK, ReapingOK
<1>6. UNCHANGED loop /\ registered \subseteq registered' => LoopOK' BY DEF TypeOK, LoopOK, loop
<1> QED BY <1>1, <1>2, <1>3, <1>4, <1>5, <1>6

(* Every step keeps the types.                                             *)
LEMMA TypeInductive ==
  ASSUME TypeOK, Writes, Queue, Between, Processes, Looping, [Next]_vars
  PROVE  TypeOK'
<1>0. <<>> \in Seq(Bytes) BY EmptySeq
<1> USE Keeps DEF forking, TypeOK
<1>1. ASSUME NEW c \in Conns, Connect(c), UNCHANGED <<forking, loop>> PROVE TypeOK'
  <2>1. Append(backlog, c) \in Seq(Conns) BY AppendProperties DEF SocketsOK
  <2>2. SocketsOK' BY <1>1, <2>1 DEF SocketsOK, Connect, Arrives
  <2> QED BY <1>1, <2>2 DEF Connect
<1>2. ASSUME NEW c \in Conns, Say(c), UNCHANGED <<forking, loop>> PROVE TypeOK'
  <2>1. PICK n \in 1 .. MaxSent[c] - sent[c] :
          /\ sent' = [sent EXCEPT ![c] = @ + n]
          /\ in' = [in EXCEPT ![c] = @ \o [k \in 1 .. n |-> <<c, sent[c] + k>>]]
    BY <1>2 DEF Say
  <2>2. sent[c] \in Nat /\ MaxSent[c] \in Nat /\ sent[c] <= MaxSent[c]
    BY BoundsAssumption DEF SocketsOK
  <2>3. n \in Nat /\ sent[c] + n \in Nat /\ sent[c] + n <= MaxSent[c] /\ sent[c] <= sent[c] + n
        /\ (sent[c] + n) - sent[c] = n
    BY <2>2
  <2>4. [k \in 1 .. n |-> <<c, sent[c] + k>>] = Run(c, sent[c], sent[c] + n)
    BY <2>3 DEF Run
  <2>5. Run(c, sent[c], sent[c] + n) \in Seq(Bytes) BY <2>2, <2>3, RunType
  <2>6. in[c] \o Run(c, sent[c], sent[c] + n) \in Seq(Bytes)
    BY <2>5, ConcatProperties DEF SocketsOK
  <2>7. in' \in [Conns -> Seq(Bytes)] BY <2>1, <2>4, <2>6 DEF SocketsOK
  <2>8. sent' \in [Conns -> Nat] /\ \A d \in Conns : sent'[d] <= MaxSent[d]
    BY <2>1, <2>3 DEF SocketsOK
  <2>9. SocketsOK' BY <1>2, <2>7, <2>8 DEF SocketsOK, Say, Arrives
  <2> QED BY <1>2, <2>9 DEF Say
<1>3. ASSUME NEW c \in Conns, Shutdown(c), UNCHANGED <<forking, loop>> PROVE TypeOK'
  <2>1. SocketsOK' BY <1>3 DEF SocketsOK, Shutdown, Arrives
  <2> QED BY <1>3, <2>1 DEF Shutdown
<1>4. ASSUME NEW c \in Conns, Hear(c), UNCHANGED <<forking, loop>> PROVE TypeOK'
  <2>1. out[c] \in Seq(Bytes) /\ got[c] \in Seq(Bytes) /\ Len(out[c]) <= Room BY DEF SocketsOK
  <2>2. Head(out[c]) \in Bytes /\ Tail(out[c]) \in Seq(Bytes) /\ Len(Tail(out[c])) = Len(out[c]) - 1
    BY <1>4, <2>1, HeadTailProperties DEF Hear
  <2>3. Append(got[c], Head(out[c])) \in Seq(Bytes) BY <2>1, <2>2, AppendProperties
  <2>4. Len(Tail(out[c])) <= Room
    <3>1. Len(out[c]) \in Nat /\ Room \in Nat BY <2>1, LenProperties, BoundsAssumption
    <3> QED BY <2>1, <2>2, <3>1
  <2>5. got' \in [Conns -> Seq(Bytes)] BY <1>4, <2>3 DEF SocketsOK, Hear
  <2>6. out' \in [Conns -> Seq(Bytes)] /\ \A d \in Conns : Len(out'[d]) <= Room
    BY <1>4, <2>2, <2>4 DEF SocketsOK, Hear
  <2>7. SocketsOK' BY <1>4, <2>5, <2>6 DEF SocketsOK, Hear, watch
  <2> QED BY <1>4, <2>7 DEF Hear, watch
<1>5. CASE Accept /\ UNCHANGED loop
  <2>1. SocketsOK' BY <1>5, QueueType DEF SocketsOK, Accept, clients, watch
  <2>2. ParentOK' BY <1>5, QueueType DEF Accept, ParentOK
  <2>3. ChildrenOK' BY <1>5, QueueType DEF Accept, ChildrenOK
  <2> QED BY <1>5, <2>1, <2>2, <2>3 DEF Accept, watch
<1>6. CASE Fork /\ UNCHANGED loop
  <2>1. ParentOK' /\ ChildrenOK' BY <1>6 DEF Fork, ParentOK, ChildrenOK
  <2> QED BY <1>6, <2>1 DEF Fork, sockets, watch
<1>7. CASE ForkFails /\ UNCHANGED loop
  <2>1. SocketsOK' BY <1>7 DEF SocketsOK, ForkFails, Between, clients, watch
  <2>2. ParentOK' BY <1>7 DEF ForkFails, ParentOK
  <2> QED BY <1>7, <2>1, <2>2 DEF ForkFails, watch
<1>8. CASE CloseParent /\ UNCHANGED loop
  <2>1. SocketsOK' BY <1>8 DEF SocketsOK, CloseParent, Between, clients, watch
  <2>2. ParentOK' BY <1>8 DEF CloseParent, ParentOK
  <2> QED BY <1>8, <2>1, <2>2 DEF CloseParent, watch
<1>9. ASSUME NEW c \in Conns, Read(c), UNCHANGED loop PROVE TypeOK'
  <2>1. SocketsOK' BY <1>9, TakeType DEF SocketsOK, Read, Take, clients, watch
  <2>2. ChildrenOK' BY <1>9, TakeType DEF ChildrenOK, Read
  <2> QED BY <1>9, <2>1, <2>2 DEF Read, watch
<1>10. ASSUME NEW c \in Conns, Write(c), UNCHANGED loop PROVE TypeOK'
  <2>1. buf[c] \in Seq(Bytes) BY DEF ChildrenOK
  <2>2. out' \in [Conns -> Seq(Bytes)] /\ (\A d \in Conns : Len(out'[d]) <= Room)
        /\ buf' \in [Conns -> Seq(Bytes)]
    BY <1>10, <2>1, PutType DEF SocketsOK, ChildrenOK, Write, Put
  <2>3. SocketsOK' BY <1>10, <2>2 DEF SocketsOK, Write, clients, watch
  <2>4. ChildrenOK' BY <1>10, <2>2 DEF ChildrenOK, Write
  <2> QED BY <1>10, <2>3, <2>4 DEF Write, watch
<1>11. ASSUME NEW c \in Conns, Store(c), UNCHANGED loop PROVE TypeOK'
  <2>1. pipe \in Seq(Bytes) /\ tostore[c] \in Seq(Bytes) BY DEF StoringOK, ChildrenOK
  <2>2. pipe \o tostore[c] \in Seq(Bytes) /\ Len(pipe \o tostore[c]) = Len(pipe) + Len(tostore[c])
    BY <2>1, ConcatProperties
  <2>3. StoringOK' BY <1>11, <2>2 DEF StoringOK, Store
  <2>4. ChildrenOK' BY <1>0, <1>11 DEF ChildrenOK, Store
  <2> QED BY <1>11, <2>3, <2>4 DEF Store, sockets, watch
<1>12. ASSUME NEW c \in Conns, CloseChild(c), UNCHANGED loop PROVE TypeOK'
  <2>1. SocketsOK' BY <1>12 DEF SocketsOK, CloseChild, Processes, clients, watch
  <2>2. ParentOK' BY <1>12 DEF CloseChild, ParentOK, parent
  <2>3. ChildrenOK' BY <1>12 DEF CloseChild, ChildrenOK
  <2> QED BY <1>12, <2>1, <2>2, <2>3 DEF CloseChild, watch
<1>13. ASSUME NEW child \in Conns \cup {Writer}, Ends(child) PROVE ReapingOK'
  <2>1. sigchld' \in BOOLEAN /\ handler' \in BOOLEAN /\ zombies' \subseteq Conns \cup {Writer}
    BY <1>13 DEF Ends, ReapingOK
  <2>2. merged' \in Nat BY <1>13 DEF Ends, ReapingOK
  <2> QED BY <2>1, <2>2 DEF ReapingOK
<1>14. ASSUME NEW c \in Conns, Exit(c), UNCHANGED loop PROVE TypeOK'
  <2>1. ChildrenOK' /\ ReapingOK' BY <1>13, <1>14 DEF Exit, ChildrenOK
  <2> QED BY <1>14, <2>1 DEF Exit, sockets, watch
<1>15. CASE WriterReads /\ UNCHANGED loop
  <2>1. pipe \in Seq(Bytes) /\ file \in Seq(Bytes) /\ Len(pipe) <= PipeRoom BY DEF StoringOK
  <2>2. Len(pipe) \in Nat /\ PipeRoom \in Nat /\ Buf \in Nat
    BY <2>1, LenProperties, PipeAssumption, BoundsAssumption
  <2> DEFINE n == Least(Buf, Len(pipe))
  <2>3. n \in 0 .. Len(pipe) BY <2>2, LeastIs
  <2> HIDE DEF n
  <2>4. /\ First(pipe, n) \in Seq(Bytes)
        /\ Rest(pipe, n) \in Seq(Bytes) /\ Len(Rest(pipe, n)) = Len(pipe) - n
    BY <2>1, <2>3, FirstRest
  <2>5. file \o First(pipe, n) \in Seq(Bytes) BY <2>1, <2>4, ConcatProperties
  <2>6. Len(Rest(pipe, n)) <= PipeRoom BY <2>1, <2>2, <2>3, <2>4
  <2>7. file' = file \o First(pipe, n) /\ pipe' = Rest(pipe, n) BY <1>15 DEF WriterReads, n
  <2>8. reads' \in 0 .. Quota /\ writer' \in {"none", "read", "exit", "ended"}
    BY <1>15, PipeAssumption DEF WriterReads, Writes, StoringOK
  <2>9. StoringOK' BY <2>4, <2>5, <2>6, <2>7, <2>8 DEF StoringOK
  <2> QED BY <1>15, <2>9 DEF WriterReads, sockets, watch
<1>16. CASE WriterExits /\ UNCHANGED loop
  <2>1. ReapingOK' BY <1>13, <1>16 DEF WriterExits
  <2>2. StoringOK' BY <1>16 DEF WriterExits, StoringOK
  <2> QED BY <1>16, <2>1, <2>2 DEF WriterExits, sockets, watch
<1>17. CASE (Signalled \/ Reap) /\ UNCHANGED loop
  <2>1. sigchld' \in BOOLEAN /\ handler' \in BOOLEAN
    BY <1>17, Zenon DEF Signalled, Reap, ReapingOK
  <2>2. zombies' \subseteq zombies /\ merged' = merged BY <1>17 DEF Signalled, Reap
  <2>3. ReapingOK' BY <2>1, <2>2 DEF ReapingOK
  <2> QED BY <1>17, <2>3 DEF Signalled, Reap, sockets, watch
<1>18. CASE Wait /\ UNCHANGED forking
  <2>1. SocketsOK' BY <1>18 DEF SocketsOK, LoopOK, Wait, Watched, clients
  <2>2. LoopOK' BY <1>18 DEF SocketsOK, LoopOK, Wait, Watched
  <2> QED BY <1>18, <2>1, <2>2
<1>19. CASE (NextEvent \/ NothingLeft \/ \E c \in Conns : ClientEvent(c)) /\ UNCHANGED forking
  <2>1. UNCHANGED sockets BY <1>19 DEF NextEvent, NothingLeft, ClientEvent
  <2>2. LoopOK' BY <1>19, <2>1 DEF LoopOK, NextEvent, NothingLeft, ClientEvent, sockets, watch
  <2> QED BY <1>19, <2>1, <2>2
<1>20. CASE AcceptEvent /\ UNCHANGED forking
  <2>1. backlog # <<>> BY <1>20 DEF AcceptEvent, Looping
  <2>2. Head(backlog) \in begun BY <2>1, QueueType DEF Queue
  <2>3. SocketsOK' BY <1>20, <2>1, <2>2, QueueType DEF SocketsOK, AcceptEvent, clients
  <2>4. LoopOK' BY <1>20 DEF LoopOK, AcceptEvent
  <2> QED BY <1>20, <2>3, <2>4
<1>21. CASE ReadEvent /\ UNCHANGED forking
  <2>1. fd \in Conns BY <1>21 DEF ReadEvent, Looping
  <2>2. SocketsOK' BY <1>21, <2>1, TakeType DEF SocketsOK, ReadEvent, Take, clients, watch
  <2>3. LoopOK' BY <1>21, <2>1, TakeType DEF LoopOK, ReadEvent, watch
  <2> QED BY <1>21, <2>2, <2>3
<1>22. CASE CloseEvent /\ UNCHANGED forking
  <2>1. SocketsOK' BY <1>22 DEF SocketsOK, CloseEvent, AtEnd, clients
  <2>2. LoopOK' BY <1>22 DEF LoopOK, CloseEvent, Looping
  <2> QED BY <1>22, <2>1, <2>2
<1>23. CASE (WriteEvent \/ WriteNow) /\ UNCHANGED forking
  <2>1. fd \in Conns /\ chunk \in Seq(Bytes) BY <1>23 DEF LoopOK, WriteEvent, WriteNow, Looping
  <2>2. /\ out[fd] \o First(chunk, Fits(fd, chunk)) \in Seq(Bytes)
        /\ Len(out[fd] \o First(chunk, Fits(fd, chunk))) <= Room
        /\ Rest(chunk, Fits(fd, chunk)) \in Seq(Bytes)
    BY <2>1, PutType
  <2>3. out' \in [Conns -> Seq(Bytes)] /\ \A d \in Conns : Len(out'[d]) <= Room
    BY <1>23, <2>1, <2>2 DEF SocketsOK, WriteEvent, WriteNow, Put
  <2>4. SocketsOK'
    <3>1. fd \in begun BY <1>23, <2>1, ServSockAssumption
                       DEF WriteEvent, WriteNow, Looping, SocketsOK
    <3> QED BY <1>23, <2>3, <3>1 DEF SocketsOK, WriteEvent, WriteNow, clients, watch
  <2>5. LoopOK' BY <1>0, <1>23, <2>2 DEF LoopOK, WriteEvent, WriteNow, watch
  <2> QED BY <1>23, <2>4, <2>5
<1>24. CASE UNCHANGED vars BY <1>24 DEF vars, sockets, watch
<1> QED BY <1>1, <1>2, <1>3, <1>4, <1>5, <1>6, <1>7, <1>8, <1>9, <1>10, <1>11, <1>12,
           <1>14, <1>15, <1>16, <1>17, <1>18, <1>19, <1>20, <1>21, <1>22, <1>23, <1>24
        DEF Next, ClientStep, Client, ProcessStep, Process, ParentStep, Parent,
            WriterStep, WriterProcess, HandlerStep, Handler, LoopStep, Loop
-----------------------------------------------------------------------------
(* Who is where: the part of the invariant that is not about the bytes.    *)
Places == Queue /\ Between /\ Processes /\ Unserved /\ OneKind /\ Looping /\ Writes

(* Queue holds as long as nobody joins it, or is served or watched.        *)
LEMMA QueueStays ==
  ASSUME TypeOK, Queue, UNCHANGED backlog, begun \subseteq begun',
         \A c \in Conns : c \in begun /\ c \notin hung /\ c \notin registered /\ pc[c] = "none"
                          /\ (\E i \in 1 .. Len(backlog) : backlog[i] = c)
                            => c \notin hung' /\ c \notin registered' /\ pc'[c] = "none"
  PROVE  Queue'
<1>1. \A i \in 1 .. Len(backlog) : backlog[i] \in Conns
  BY ElementOfSeq DEF TypeOK, SocketsOK
<1> QED BY <1>1 DEF Queue

(* Accepting takes the first connection, which nobody serves yet.          *)
LEMMA QueueMoves ==
  ASSUME TypeOK, Queue, backlog # <<>>, backlog' = Tail(backlog), UNCHANGED <<begun, hung>>,
         \A c \in Conns : c # Head(backlog) /\ c \notin registered => c \notin registered',
         \A c \in Conns : c # Head(backlog) => pc'[c] = pc[c]
  PROVE  /\ Queue'
         /\ \A i \in 1 .. Len(backlog') : backlog'[i] # Head(backlog)
         /\ Head(backlog) \in begun \ hung /\ Head(backlog) \notin registered
         /\ pc[Head(backlog)] = "none"
<1>1. \A i \in 1 .. Len(backlog) : backlog[i] \in Conns
  BY ElementOfSeq DEF TypeOK, SocketsOK
<1>2. /\ Head(backlog) = backlog[1] /\ 1 \in 1 .. Len(backlog)
      /\ \A i \in 1 .. Len(backlog') :
           i + 1 \in 1 .. Len(backlog) /\ backlog'[i] = backlog[i + 1]
  BY QueueType
<1>3. ASSUME NEW i \in 1 .. Len(backlog')
      PROVE  /\ i + 1 \in 1 .. Len(backlog) /\ backlog'[i] = backlog[i + 1]
             /\ backlog'[i] # Head(backlog) /\ backlog'[i] \in Conns
  <2>1. i + 1 # 1 OBVIOUS
  <2> QED BY <1>1, <1>2, <2>1 DEF Queue
<1>4. ASSUME NEW i \in 1 .. Len(backlog'), NEW j \in 1 .. Len(backlog'), backlog'[i] = backlog'[j]
      PROVE  i = j
  <2>1. i + 1 = j + 1 BY <1>3, <1>4 DEF Queue
  <2> QED BY <2>1
<1>5. \A i \in 1 .. Len(backlog') :
         /\ backlog'[i] \in begun' \ hung' /\ backlog'[i] \notin registered'
         /\ pc'[backlog'[i]] = "none"
  BY <1>3 DEF Queue
<1>6. Queue' BY <1>4, <1>5 DEF Queue
<1>7. Head(backlog) \in begun \ hung /\ Head(backlog) \notin registered /\ pc[Head(backlog)] = "none"
  BY <1>2 DEF Queue
<1> QED BY <1>3, <1>6, <1>7

(* Who connects was nowhere before.                                        *)
LEMMA QueueGrows ==
  ASSUME TypeOK, Queue, Processes, NEW c \in Conns, c \notin begun, backlog' = Append(backlog, c),
         begun' = begun \cup {c}, UNCHANGED <<hung, registered, pc>>
  PROVE  /\ Queue' /\ backlog' # <<>>
         /\ \A i \in 1 .. Len(backlog') :
              backlog'[i] = c \/ \E j \in 1 .. Len(backlog) : backlog'[i] = backlog[j]
<1>1. backlog \in Seq(Conns) BY DEF TypeOK, SocketsOK
<1>2. /\ Len(backlog') = Len(backlog) + 1 /\ backlog' # <<>> /\ Len(backlog) \in Nat
      /\ \A i \in 1 .. Len(backlog) : backlog'[i] = backlog[i]
      /\ backlog'[Len(backlog) + 1] = c
  BY <1>1, AppendProperties, LenProperties
<1>3. \A i \in 1 .. Len(backlog') : i \in 1 .. Len(backlog) \/ i = Len(backlog) + 1 BY <1>2
<1>4. \A i \in 1 .. Len(backlog) : backlog[i] # c BY DEF Queue
<1>5. c \notin hung /\ c \notin registered /\ pc[c] = "none"
  BY ServSockAssumption DEF TypeOK, SocketsOK, Processes
<1>6. \A i, j \in 1 .. Len(backlog') : backlog'[i] = backlog'[j] => i = j
  BY <1>2, <1>3, <1>4 DEF Queue
<1>7. \A i \in 1 .. Len(backlog') :
         /\ backlog'[i] \in begun' \ hung' /\ backlog'[i] \notin registered'
         /\ pc'[backlog'[i]] = "none"
  BY <1>2, <1>3, <1>5 DEF Queue
<1>8. Queue' BY <1>6, <1>7 DEF Queue
<1> QED BY <1>2, <1>3, <1>8

(* Every step keeps who is where.                                          *)
LEMMA PlacesInductive ==
  ASSUME TypeOK, Places, [Next]_vars
  PROVE  Places'
<1> USE DEF forking, Places
<1>a. begun \subseteq Conns /\ hung \subseteq begun BY DEF TypeOK, SocketsOK
<1>1. ASSUME NEW c \in Conns, Connect(c), UNCHANGED <<forking, loop>> PROVE Places'
  <2>1. /\ c \notin begun /\ backlog' = Append(backlog, c) /\ begun' = begun \cup {c}
        /\ UNCHANGED <<hung, registered, in, shut>>
        /\ UNCHANGED <<pc, buf, main, clnt_sock, writer, reads>>
        /\ UNCHANGED <<step, events, fd, chunk>>
    BY <1>1 DEF Connect, parent, children, storing, loop
  <2>2. /\ Queue' /\ backlog' # <<>>
        /\ \A i \in 1 .. Len(backlog') :
              backlog'[i] = c \/ \E j \in 1 .. Len(backlog) : backlog'[i] = backlog[j]
    BY <2>1, QueueGrows
  <2>3. Between' BY <2>1, <2>2 DEF Between
  <2>4. Processes' BY <2>1 DEF Processes, AtEnd
  <2>5. Unserved' /\ OneKind' /\ Looping' /\ Writes'
    BY <2>1, <2>2 DEF Unserved, OneKind, Looping, Writes
  <2> QED BY <2>2, <2>3, <2>4, <2>5
<1>2. ASSUME NEW c \in Conns, Say(c) \/ Shutdown(c) \/ Hear(c), UNCHANGED <<forking, loop>>
      PROVE  Places'
  <2>1. /\ UNCHANGED <<backlog, begun, hung, registered>>
        /\ UNCHANGED <<pc, buf, main, clnt_sock, writer, reads>>
        /\ UNCHANGED <<step, events, fd, chunk>>
    BY <1>2 DEF Say, Shutdown, Hear, watch, parent, children, storing, loop
  <2>2. Queue' BY <2>1 DEF Queue
  <2>3. Processes'
    <3>1. \A d \in Conns : AtEnd(d) => AtEnd(d)'
      <4>1. CASE Say(c) BY <4>1 DEF Say, AtEnd, TypeOK, SocketsOK
      <4>2. CASE Shutdown(c) BY <4>2 DEF Shutdown, AtEnd
      <4>3. CASE Hear(c) BY <4>3 DEF Hear, AtEnd
      <4> QED BY <1>2, <4>1, <4>2, <4>3
    <3> QED BY <2>1, <3>1 DEF Processes
  <2>4. Between' /\ Unserved' /\ OneKind' /\ Looping' /\ Writes'
    BY <2>1 DEF Between, Unserved, OneKind, Looping, Writes
  <2> QED BY <2>2, <2>3, <2>4
<1>3. CASE Accept /\ UNCHANGED loop
  <2> DEFINE c == Head(backlog)
  <2>1. /\ backlog # <<>> /\ backlog' = Tail(backlog) /\ main = "accept" /\ clnt_sock' = c
        /\ \/ main' = "serve" /\ pc' = [pc EXCEPT ![c] = "read"]
           \/ main' = "fork" /\ pc' = pc
        /\ UNCHANGED <<begun, hung, registered, in, shut>>
        /\ UNCHANGED <<buf, writer, reads>>
        /\ UNCHANGED <<step, events, fd, chunk>>
    BY <1>3 DEF Accept, clients, watch, storing, loop
  <2>2. c \in Conns /\ pc \in [Conns -> {"none", "read", "write", "store", "close", "exit", "ended"}]
    BY <2>1, QueueType DEF TypeOK, ChildrenOK
  <2>3. /\ Queue' /\ (\A i \in 1 .. Len(backlog') : backlog'[i] # c)
        /\ c \in begun \ hung /\ c \notin registered /\ pc[c] = "none"
    BY <2>1, <2>2, QueueMoves
  <2> HIDE DEF c
  <2>4. step = "none" /\ events = {} BY <2>1 DEF OneKind
  <2>5. Between' BY <2>1, <2>2, <2>3 DEF Between
  <2>6. Processes' BY <2>1, <2>2, <2>3 DEF Processes, AtEnd
  <2>7. Unserved'
    <3>1. \A d \in hung : d \in Conns /\ d # c BY <1>a, <2>3
    <3>2. \A d \in hung : pc'[d] = pc[d] BY <2>1, <2>2, <3>1
    <3> QED BY <2>1, <3>2 DEF Unserved
  <2>8. OneKind' /\ Looping' /\ Writes' BY <2>1, <2>4 DEF OneKind, Looping, Writes
  <2> QED BY <2>3, <2>5, <2>6, <2>7, <2>8
<1>4. CASE (Fork \/ ForkFails \/ CloseParent) /\ UNCHANGED loop
  <2>1. /\ UNCHANGED <<backlog, begun, registered, in, shut>>
        /\ UNCHANGED <<buf, writer, reads>>
        /\ UNCHANGED <<step, events, fd, chunk>>
    BY <1>4 DEF Fork, ForkFails, CloseParent, sockets, clients, watch, children, storing, loop
  <2>2. clnt_sock \in begun BY <1>4 DEF Fork, ForkFails, CloseParent, Between
  <2>3. pc \in [Conns -> {"none", "read", "write", "store", "close", "exit", "ended"}]
    BY DEF TypeOK, ChildrenOK
  <2>4. OneKind' /\ Looping' /\ Writes'
    <3>1. step = "none" BY <1>4 DEF Fork, ForkFails, CloseParent, OneKind
    <3> QED BY <2>1, <3>1 DEF OneKind, Looping, Writes
  <2>5. CASE Fork
    <3>1. /\ main = "fork" /\ main' = "close" /\ pc' = [pc EXCEPT ![clnt_sock] = "read"]
          /\ UNCHANGED <<clnt_sock, hung>>
      BY <2>5 DEF Fork, sockets
    <3>2. Queue'
      <4>1. \A i \in 1 .. Len(backlog) : backlog[i] # clnt_sock BY <3>1 DEF Between
      <4> QED BY <2>1, <2>3, <3>1, <4>1, QueueStays
    <3>3. Between' /\ Processes' /\ Unserved'
      BY <1>a, <2>1, <2>2, <2>3, <3>1 DEF Between, Processes, Unserved, AtEnd
    <3> QED BY <2>4, <3>2, <3>3
  <2>6. CASE ForkFails
    <3>1. main = "fork" /\ main' = "accept" /\ hung' = hung \cup {clnt_sock} /\ UNCHANGED pc
      BY <2>6 DEF ForkFails, children
    <3>2. Queue'
      <4>1. \A i \in 1 .. Len(backlog) : backlog[i] # clnt_sock BY <3>1 DEF Between
      <4> QED BY <2>1, <3>1, <4>1, QueueStays
    <3>3. step = "none" /\ registered = {} BY <3>1 DEF OneKind
    <3>4. Between' /\ Processes' /\ Unserved'
      BY <2>1, <3>1, <3>3 DEF Between, Processes, Unserved, AtEnd
    <3> QED BY <2>4, <3>2, <3>4
  <2>7. CASE CloseParent
    <3>1. /\ main = "close" /\ main' = "accept" /\ UNCHANGED pc
          /\ hung' = IF HasSocket(clnt_sock) THEN hung ELSE hung \cup {clnt_sock}
      BY <2>7 DEF CloseParent, children
    <3>2. pc[clnt_sock] # "none" BY <3>1 DEF Between
    <3>3. Queue' BY <2>1, <3>1, <3>2, QueueStays
    <3>4. step = "none" /\ registered = {} BY <3>1 DEF OneKind
    <3>5. Unserved' BY <1>a, <2>1, <2>2, <2>3, <3>1, <3>2, <3>4 DEF Unserved, HasSocket
    <3>6. Between' /\ Processes' BY <2>1, <3>1 DEF Between, Processes, AtEnd
    <3> QED BY <2>4, <3>3, <3>5, <3>6
  <2> QED BY <1>4, <2>5, <2>6, <2>7
<1>5. ASSUME NEW c \in Conns, Process(c), UNCHANGED loop PROVE Places'
  <2>1. pc \in [Conns -> {"none", "read", "write", "store", "close", "exit", "ended"}]
        /\ buf \in [Conns -> Seq(Bytes)] /\ in \in [Conns -> Seq(Bytes)]
    BY DEF TypeOK, ChildrenOK, SocketsOK
  <2>2. /\ UNCHANGED <<backlog, begun, registered, shut>>
        /\ UNCHANGED <<writer>>
        /\ UNCHANGED <<step, events, fd, chunk>>
        /\ reads' = reads
    BY <1>5 DEF Process, Read, Write, Store, CloseChild, Exit, sockets, clients, watch, storing, loop
  <2>3. pc[c] # "none" /\ pc'[c] # "none" /\ \A d \in Conns : d # c => pc'[d] = pc[d]
    BY <1>5, <2>1 DEF Process, Read, Write, Store, CloseChild, Exit
  <2>4. hung' \in {hung, hung \cup {c}} /\ (hung' # hung => CloseChild(c))
    BY <1>5 DEF Process, Read, Write, Store, CloseChild, Exit, sockets
  <2>5. c \in begun /\ step = "none" /\ registered = {} BY <2>3 DEF Processes, OneKind
  <2>6. Queue' BY <2>2, <2>3, <2>4, QueueStays
  <2>7. \/ main' = main /\ clnt_sock' = clnt_sock
        \/ main' = "accept"
    BY <1>5 DEF Process, Read, Write, Store, CloseChild, Exit, parent
  <2>8. Between' BY <1>a, <2>2, <2>3, <2>4, <2>7 DEF Between
  <2>9. Unserved'
    <3>1. CASE CloseChild(c)
      <4>1. pc'[c] \in {"exit", "ended"} BY <2>1, <3>1 DEF CloseChild
      <4> QED BY <1>a, <2>2, <2>3, <2>4, <2>5, <4>1 DEF Unserved
    <3>2. CASE Exit(c)
      <4>1. pc'[c] = "ended" BY <2>1, <3>2 DEF Exit
      <4> QED BY <1>a, <2>2, <2>3, <2>4, <2>5, <4>1 DEF Unserved
    <3>3. CASE Read(c) \/ Write(c) \/ Store(c)
      <4>1. pc[c] \in {"read", "write", "store"} BY <3>3 DEF Read, Write, Store
      <4>2. c \notin hung BY <4>1 DEF Unserved
      <4>3. hung' = hung BY <3>3 DEF Read, Write, Store, sockets
      <4> QED BY <1>a, <2>2, <2>3, <4>2, <4>3 DEF Unserved
    <3> QED BY <1>5, <3>1, <3>2, <3>3 DEF Process
  <2>10. Processes'
    <3>1. CASE Read(c)
      <4>1. CASE AtEnd(c)
        <5>1. pc'[c] = "close" /\ UNCHANGED <<in, buf>> BY <2>1, <3>1, <4>1 DEF Read
        <5>2. pc[c] = "read" BY <3>1 DEF Read
        <5> QED BY <2>2, <2>3, <2>5, <4>1, <5>1, <5>2 DEF Processes, AtEnd
      <4>2. CASE ~AtEnd(c)
        <5>1. /\ pc'[c] = "write"
              /\ \A d \in Conns : d # c => in'[d] = in[d] /\ buf'[d] = buf[d]
          BY <2>1, <3>1, <4>2 DEF Read, Take
        <5> QED BY <2>2, <2>3, <2>5, <5>1 DEF Processes, AtEnd
      <4> QED BY <4>1, <4>2
    <3>2. CASE Write(c)
      <4>1. /\ pc'[c] \in {"write", "store", "read"} /\ UNCHANGED in
            /\ \A d \in Conns : d # c => buf'[d] = buf[d]
        BY <2>1, <3>2 DEF Write
      <4>2. pc'[c] # "write" => buf'[c] = <<>>
        <5>1. ASSUME pc'[c] # "write" PROVE Len(Rest(buf[c], Fits(c, buf[c]))) = 0
          <6>1. ~(Fits(c, buf[c]) < Len(buf[c]))
            <7>2. Fits(c, buf[c]) < Len(buf[c]) => pc'[c] = "write" BY <2>1, <3>2 DEF Write
            <7> QED BY <5>1, <7>2
          <6>2. /\ Fits(c, buf[c]) \in 0 .. Len(buf[c]) /\ Len(buf[c]) \in Nat
                /\ Len(Rest(buf[c], Fits(c, buf[c]))) = Len(buf[c]) - Fits(c, buf[c])
            BY <2>1, PutType, LenProperties
          <6> QED BY <6>1, <6>2
        <5>2. Rest(buf[c], Fits(c, buf[c])) \in Seq(Bytes) BY <2>1, PutType
        <5>3. buf'[c] = Rest(buf[c], Fits(c, buf[c])) BY <2>1, <3>2 DEF Write
        <5> QED BY <5>1, <5>2, <5>3, EmptySeq
      <4> QED BY <2>2, <2>3, <2>5, <4>1, <4>2 DEF Processes, AtEnd
    <3>3. CASE Store(c) \/ CloseChild(c) \/ Exit(c)
      <4>1. /\ pc[c] # "write" /\ pc'[c] # "write" /\ UNCHANGED <<in, buf>>
            /\ (pc'[c] \in {"close", "exit", "ended"} => pc[c] \in {"close", "exit", "ended"})
        BY <2>1, <3>3 DEF Store, CloseChild, Exit, sockets
      <4> QED BY <2>2, <2>3, <2>5, <4>1 DEF Processes, AtEnd
    <3> QED BY <1>5, <3>1, <3>2, <3>3 DEF Process
  <2>11. OneKind' /\ Looping' /\ Writes' BY <2>2, <2>5 DEF OneKind, Looping, Writes
  <2> QED BY <2>6, <2>8, <2>9, <2>10, <2>11
<1>6. CASE (WriterProcess \/ Handler) /\ UNCHANGED loop
  <2>1. UNCHANGED <<sockets, parent, children, loop>>
    BY <1>6 DEF WriterProcess, WriterReads, WriterExits, Handler, Signalled, Reap
  <2>2. Writes'
    <3>1. CASE WriterReads
      <4>1. reads \in 0 .. Quota /\ Quota \in Nat BY PipeAssumption DEF TypeOK, StoringOK
      <4> QED BY <3>1, <4>1 DEF WriterReads, Writes
    <3>2. CASE WriterExits BY <3>2 DEF WriterExits, Writes
    <3>3. CASE Handler BY <3>3 DEF Handler, Signalled, Reap, storing, Writes
    <3> QED BY <1>6, <3>1, <3>2, <3>3 DEF WriterProcess
  <2>3. Queue' BY <2>1 DEF Queue, sockets, clients, watch, children
  <2>4. Between' /\ Processes' /\ Unserved' /\ OneKind' /\ Looping'
    BY <2>1 DEF Between, Processes, AtEnd, Unserved, OneKind, Looping, sockets, clients, watch,
                parent, children, loop
  <2> QED BY <2>2, <2>3, <2>4
<1>7. CASE AcceptEvent /\ UNCHANGED forking
  <2> DEFINE c == Head(backlog)
  <2>1. /\ step = "event" /\ serv_sock \in events /\ backlog' = Tail(backlog)
        /\ registered' = registered \cup {c} /\ events' = events \ {serv_sock}
        /\ UNCHANGED <<begun, hung, in, shut>>
        /\ UNCHANGED <<pc, buf, main, clnt_sock, writer, reads>>
        /\ UNCHANGED <<step, fd, chunk>>
    BY <1>7 DEF AcceptEvent, clients, parent, children, storing
  <2>2. backlog # <<>> BY <2>1 DEF Looping
  <2>3. /\ Queue' /\ (\A i \in 1 .. Len(backlog') : backlog'[i] # c)
        /\ c \in begun \ hung /\ c \notin registered /\ pc[c] = "none"
    BY <2>1, <2>2, QueueMoves
  <2> HIDE DEF c
  <2>4. main = "none" BY <2>1 DEF OneKind
  <2>5. Between' /\ Processes' BY <2>1, <2>4 DEF Between, Processes, AtEnd
  <2>6. Unserved' BY <2>1, <2>3 DEF Unserved
  <2>7. OneKind' /\ Looping' /\ Writes' BY <2>1, <2>3 DEF OneKind, Looping, Writes
  <2> QED BY <2>3, <2>5, <2>6, <2>7
<1>8. CASE CloseEvent /\ UNCHANGED forking
  <2>1. /\ step = "read" /\ step' = "event" /\ registered' = registered \ {fd}
        /\ hung' = hung \cup {fd}
        /\ UNCHANGED <<begun, backlog, in, shut>>
        /\ UNCHANGED <<pc, buf, main, clnt_sock, writer, reads>>
        /\ UNCHANGED <<events, fd, chunk>>
    BY <1>8 DEF CloseEvent, clients, parent, children, storing
  <2>2. fd \in Conns /\ fd \in registered /\ fd \notin events BY <2>1 DEF Looping
  <2>3. main = "none" /\ \A c \in Conns : pc[c] = "none" BY <2>1 DEF OneKind
  <2>4. Queue' BY <2>1, <2>2, QueueStays
  <2>5. Between' /\ Processes' BY <2>1, <2>3 DEF Between, Processes, AtEnd
  <2>6. Unserved' BY <1>a, <2>1, <2>2, <2>3 DEF Unserved
  <2>7. OneKind' /\ Looping' /\ Writes' BY <2>1, <2>2, <2>3 DEF OneKind, Looping, Writes
  <2> QED BY <2>4, <2>5, <2>6, <2>7
<1>9. CASE Loop /\ ~AcceptEvent /\ ~CloseEvent /\ UNCHANGED forking
  <2>1. /\ UNCHANGED <<begun, backlog, hung, registered, shut>>
        /\ UNCHANGED <<pc, buf, main, clnt_sock, writer, reads>>
    BY <1>9 DEF Loop, Wait, NextEvent, ClientEvent, ReadEvent, NothingLeft, WriteEvent, WriteNow,
                sockets, clients, watch, parent, children, storing
  <2>2. step # "none" /\ step' # "none"
    BY <1>9 DEF Loop, Wait, NextEvent, ClientEvent, ReadEvent, NothingLeft, WriteEvent, WriteNow
  <2>3. main = "none" /\ \A c \in Conns : pc[c] = "none" BY <2>2 DEF OneKind
  <2>4. Queue' BY <2>1, QueueStays
  <2>5. Between' /\ Processes' /\ Unserved' /\ OneKind' /\ Writes'
    <3>1. \A c \in Conns : buf[c] = <<>> BY <2>3 DEF Processes
    <3> QED BY <2>1, <2>2, <2>3, <3>1 DEF Between, Processes, Unserved, OneKind, Writes
  <2>6. Looping'
    <3>1. CASE Wait
      <4>1. /\ events' = {f \in Watched : IsReady(f)} /\ step' = "event" /\ chunk' = chunk
            /\ step = "wait"
        BY <3>1 DEF Wait
      <4> QED BY <2>1, <4>1 DEF Looping, IsReady
    <3>2. CASE NextEvent \/ NothingLeft
      BY <2>1, <3>2 DEF NextEvent, NothingLeft, Looping
    <3>3. ASSUME NEW c \in Conns, ClientEvent(c) PROVE Looping'
      <4>1. events \subseteq registered BY DEF TypeOK, LoopOK
      <4> QED BY <2>1, <3>3, <4>1 DEF ClientEvent, Looping
    <3>4. CASE ReadEvent BY <2>1, <3>4 DEF ReadEvent, Looping
    <3>5. CASE WriteEvent \/ WriteNow BY <2>1, <3>5 DEF WriteEvent, WriteNow, Looping
    <3> QED BY <1>9, <3>1, <3>2, <3>3, <3>4, <3>5 DEF Loop
  <2> QED BY <2>1, <2>4, <2>5, <2>6
<1>10. CASE UNCHANGED vars
  <2>1. UNCHANGED <<sockets, parent, children, storing, loop>> BY <1>10 DEF vars
  <2>2. Queue' BY <2>1 DEF Queue, sockets, clients, watch, children
  <2>3. Between' /\ Processes' /\ Unserved' /\ OneKind' /\ Looping' /\ Writes'
    BY <2>1 DEF Between, Processes, AtEnd, Unserved, OneKind, Looping, Writes, sockets, clients,
                watch, parent, children, storing, loop
  <2> QED BY <2>2, <2>3
<1> QED BY <1>1, <1>2, <1>3, <1>4, <1>5, <1>6, <1>7, <1>8, <1>9, <1>10
        DEF Next, ClientStep, Client, ProcessStep, ParentStep, Parent, WriterStep, HandlerStep, LoopStep
-----------------------------------------------------------------------------
(* A handler that waits for one child finds one: the zombies are just as   *)
(* many as ZombiesAreMerged allows.                                        *)
CountOfZombies ==
  Cardinality(zombies) = merged + (IF sigchld THEN 1 ELSE 0) + (IF handler THEN 1 ELSE 0)

(* A child that has not ended before is one more zombie.                   *)
LEMMA OneMore ==
  ASSUME TypeOK, Ended, CountOfZombies, NEW child \in Conns \cup {Writer},
         child \notin zombies, Ends(child)
  PROVE  CountOfZombies' /\ IsFiniteSet(zombies')
<1> DEFINE n == Cardinality(zombies)  m == Cardinality(zombies')
           s == IF sigchld THEN 1 ELSE 0  h == IF handler THEN 1 ELSE 0
           t == IF sigchld' THEN 1 ELSE 0  k == IF handler' THEN 1 ELSE 0
<1>1. zombies' = zombies \cup {child} /\ IsFiniteSet(zombies) BY DEF Ends, Ended
<1>2. m = n + 1 /\ IsFiniteSet(zombies') BY <1>1, FS_AddElement
<1>3. n \in Nat /\ merged \in Nat BY <1>1, FS_CardinalityType DEF TypeOK, ReapingOK
<1>4. n = merged + s + h BY DEF CountOfZombies
<1>5. t = 1 /\ k = h /\ s \in {0, 1} /\ h \in {0, 1} BY DEF Ends
<1>6. merged' = merged + s BY <1>3 DEF Ends
<1> HIDE DEF n, m, s, h, t, k
<1>7. m = merged' + t + k BY <1>2, <1>3, <1>4, <1>5, <1>6
<1> QED BY <1>2, <1>7 DEF CountOfZombies, m, t, k

(* Every step keeps the count of the zombies.                              *)
LEMMA ReapingInductive ==
  ASSUME TypeOK, Places, Ended, CountOfZombies, [Next]_vars
  PROVE  Ended' /\ CountOfZombies'
<1> USE DEF forking
<1>a. pc \in [Conns -> {"none", "read", "write", "store", "close", "exit", "ended"}]
  BY DEF TypeOK, ChildrenOK
<1>b. ASSUME UNCHANGED reaping, \A c \in Conns : pc[c] = "ended" => pc'[c] = "ended",
             writer = "ended" => writer' = "ended"
      PROVE  Ended' /\ CountOfZombies'
  <2>1. zombies' = zombies /\ sigchld' = sigchld /\ handler' = handler /\ merged' = merged
    BY <1>b, Zenon DEF reaping
  <2>2. Ended' BY <1>b, <2>1 DEF Ended
  <2>3. CountOfZombies' BY <2>1 DEF CountOfZombies
  <2> QED BY <2>2, <2>3
<1>1. ASSUME NEW c \in Conns, Client(c), UNCHANGED <<forking, loop>>
      PROVE  Ended' /\ CountOfZombies'
  BY <1>b, <1>1 DEF children, storing
<1>2. CASE Parent /\ UNCHANGED loop
  <2>1. UNCHANGED <<reaping, storing>>
    BY <1>2 DEF Parent, Accept, Fork, ForkFails, CloseParent
  <2>2. \A c \in Conns : pc[c] = "ended" => pc'[c] = "ended"
    <3>1. CASE Accept
      <4>1. pc[Head(backlog)] = "none"
        <5>1. backlog # <<>> BY <3>1 DEF Accept
        <5> QED BY <5>1, QueueType DEF Places, Queue
      <4> QED BY <1>a, <3>1, <4>1 DEF Accept
    <3>2. CASE Fork BY <1>a, <3>2 DEF Fork, Places, Between
    <3>3. CASE ForkFails \/ CloseParent BY <3>3 DEF ForkFails, CloseParent, children
    <3> QED BY <1>2, <3>1, <3>2, <3>3 DEF Parent
  <2> QED BY <1>b, <2>1, <2>2 DEF storing
<1>3. ASSUME NEW c \in Conns, Process(c), ~Exit(c), UNCHANGED loop
      PROVE  Ended' /\ CountOfZombies'
  <2>1. UNCHANGED <<reaping, writer>>
    BY <1>3 DEF Process, Read, Write, Store, CloseChild, storing
  <2>2. \A d \in Conns : pc[d] = "ended" => pc'[d] = "ended"
    BY <1>a, <1>3 DEF Process, Read, Write, Store, CloseChild
  <2> QED BY <1>b, <2>1, <2>2
<1>4. ASSUME NEW c \in Conns, Exit(c), UNCHANGED loop
      PROVE  Ended' /\ CountOfZombies'
  <2>1. c \notin zombies BY <1>4 DEF Exit, Ended
  <2>2. CountOfZombies' /\ IsFiniteSet(zombies') BY <1>4, <2>1, OneMore DEF Exit
  <2>3. zombies' = zombies \cup {c} /\ pc' = [pc EXCEPT ![c] = "ended"] /\ UNCHANGED writer
    BY <1>4 DEF Exit, Ends, storing
  <2>4. Ended' BY <1>a, <2>2, <2>3, WriterAssumption DEF Ended
  <2> QED BY <2>2, <2>4
<1>5. CASE WriterReads /\ UNCHANGED loop
  BY <1>b, <1>5 DEF WriterReads, children
<1>6. CASE WriterExits /\ UNCHANGED loop
  <2>1. Writer \notin zombies BY <1>6 DEF WriterExits, Ended
  <2>2. CountOfZombies' /\ IsFiniteSet(zombies') BY <1>6, <2>1, OneMore DEF WriterExits
  <2>3. zombies' = zombies \cup {Writer} /\ writer' = "ended" /\ UNCHANGED pc
    BY <1>6 DEF WriterExits, Ends, children
  <2>4. Ended' BY <2>2, <2>3, WriterAssumption DEF Ended
  <2> QED BY <2>2, <2>4
<1>7. CASE Signalled /\ UNCHANGED loop
  <2>1. /\ sigchld = TRUE /\ handler = FALSE /\ sigchld' = FALSE /\ handler' = TRUE
        /\ UNCHANGED <<zombies, merged>> /\ UNCHANGED <<pc, writer>>
    BY <1>7 DEF Signalled, children, storing, TypeOK, ReapingOK
  <2>2. Ended' BY <2>1 DEF Ended
  <2>3. Cardinality(zombies) = merged + 1 + 0 BY <2>1 DEF CountOfZombies
  <2>4. merged \in Nat BY DEF TypeOK, ReapingOK
  <2>5. merged + 1 + 0 = merged + 0 + 1 BY <2>4
  <2>6. CountOfZombies' BY <2>1, <2>3, <2>5 DEF CountOfZombies
  <2> QED BY <2>2, <2>6
<1>8. CASE Reap /\ UNCHANGED loop
  <2> DEFINE n == Cardinality(zombies)  s == IF sigchld THEN 1 ELSE 0
             m == Cardinality(zombies')
  <2>1. /\ handler = TRUE /\ handler' = FALSE /\ UNCHANGED <<sigchld, merged>>
        /\ UNCHANGED <<pc, writer>>
    BY <1>8 DEF Reap, children, storing, TypeOK, ReapingOK
  <2>2. n = merged + s + 1 /\ merged \in Nat /\ s \in {0, 1}
    BY <2>1 DEF CountOfZombies, TypeOK, ReapingOK
  <2>3. zombies # {}
    <3>1. Cardinality({}) = 0 BY FS_EmptySet
    <3>2. n # 0
      <4> HIDE DEF n, s
      <4> QED BY <2>2
    <3> QED BY <3>1, <3>2
  <2>4. PICK child \in zombies : zombies' = zombies \ {child} BY <1>8, <2>3 DEF Reap
  <2>5. m = n - 1 /\ IsFiniteSet(zombies') BY <2>4, FS_RemoveElement DEF Ended
  <2>6. Ended' BY <2>1, <2>4, <2>5 DEF Ended
  <2>7. m = merged + s + 0
    <3> HIDE DEF n, m, s
    <3> QED BY <2>2, <2>5
  <2>8. CountOfZombies' BY <2>1, <2>7 DEF CountOfZombies
  <2> QED BY <2>6, <2>8
<1>9. CASE Loop /\ UNCHANGED forking BY <1>b, <1>9 DEF children, storing
<1>10. CASE UNCHANGED vars BY <1>b, <1>10 DEF vars, children, storing
<1> QED BY <1>1, <1>2, <1>3, <1>4, <1>5, <1>6, <1>7, <1>8, <1>9, <1>10
        DEF Next, ClientStep, ProcessStep, Process, ParentStep, WriterStep, WriterProcess,
            HandlerStep, Handler, LoopStep
-----------------------------------------------------------------------------
(* A run is empty when its ends meet.                                      *)
LEMMA EmptyRun ==
  ASSUME NEW c \in Conns, NEW a \in Nat, NEW b \in Nat, a <= b
  PROVE  Run(c, a, b) = <<>> <=> a = b
<1> DEFINE s == Run(c, a, b)
<1>1. s \in Seq(Bytes) /\ Len(s) = b - a BY RunType
<1> HIDE DEF s
<1>2. s = <<>> <=> Len(s) = 0 BY <1>1, EmptySeq
<1>3. b - a = 0 <=> a = b OBVIOUS
<1>4. s = <<>> <=> a = b BY <1>1, <1>2, <1>3
<1> QED BY <1>4 DEF s

(* The four ways in which bytes move on.                                   *)
LEMMA MoreSaid ==
  ASSUME TypeOK, NEW c \in Conns, Flows(c), NEW n \in Nat, sent'[c] = sent[c] + n,
         in'[c] = in[c] \o Run(c, sent[c], sent[c] + n),
         got'[c] = got[c], out'[c] = out[c], Pend(c)' = Pend(c)
  PROVE  Flows(c)'
<1>1. sent[c] \in Nat BY DEF TypeOK, SocketsOK
<1>2. PICK i \in 0 .. sent[c], j \in 0 .. sent[c], k \in 0 .. sent[c] : Along(c, i, j, k) BY DEF Flows
<1>n. 0 \in Nat /\ i \in Nat /\ j \in Nat /\ k \in Nat /\ 0 <= i /\ 0 <= j /\ k <= sent[c]
  BY <1>1
<1>3. i \in 0 .. sent'[c] /\ j \in 0 .. sent'[c] /\ k \in 0 .. sent'[c] BY <1>1
<1>4. in'[c] = Run(c, k, sent'[c])
  <2>1. PICK d \in Nat : d = sent[c] + n BY <1>1
  <2>2. PICK e \in Nat : e = sent[c] BY <1>1
  <2>3. k <= e /\ e <= d BY <1>n, <2>1, <2>2
  <2>4. Run(c, k, e) \o Run(c, e, d) = Run(c, k, d) BY <1>n, <2>3, RunJoin
  <2> QED BY <1>2, <2>1, <2>2, <2>4 DEF Along
<1>5. Along(c, i, j, k)' BY <1>2, <1>4 DEF Along, Run
<1> QED BY <1>3, <1>5 DEF Flows

LEMMA OneHeard ==
  ASSUME TypeOK, NEW c \in Conns, Flows(c), out[c] # <<>>,
         got'[c] = Append(got[c], Head(out[c])), out'[c] = Tail(out[c]),
         sent'[c] = sent[c], in'[c] = in[c], Pend(c)' = Pend(c)
  PROVE  Flows(c)'
<1>1. sent[c] \in Nat BY DEF TypeOK, SocketsOK
<1>2. PICK i \in 0 .. sent[c], j \in 0 .. sent[c], k \in 0 .. sent[c] : Along(c, i, j, k) BY DEF Flows
<1>n. 0 \in Nat /\ i \in Nat /\ j \in Nat /\ k \in Nat /\ 0 <= i /\ 0 <= j /\ k <= sent[c]
  BY <1>1
<1>3. i < j
  <2>1. i # j BY <1>1, <1>2, EmptyRun DEF Along
  <2> QED BY <1>1, <1>2, <2>1 DEF Along
<1>4. got'[c] = Run(c, 0, i + 1) /\ out'[c] = Run(c, i + 1, j)
  <2>1. /\ Append(Run(c, 0, i), Head(Run(c, i, j))) = Run(c, 0, i + 1)
        /\ Tail(Run(c, i, j)) = Run(c, i + 1, j)
    BY <1>3, <1>n, RunMove
  <2> QED BY <1>2, <2>1 DEF Along
<1>5. i + 1 \in 0 .. sent'[c] /\ i + 1 <= j BY <1>1, <1>3
<1>6. Along(c, i + 1, j, k)' BY <1>2, <1>4, <1>5 DEF Along, Run
<1> QED BY <1>5, <1>6 DEF Flows

LEMMA SomeRead ==
  ASSUME TypeOK, NEW c \in Conns, Flows(c), Pend(c) = <<>>,
         Pend(c)' = Taken(c), in'[c] = Rest(in[c], Least(Buf, Len(in[c]))),
         got'[c] = got[c], out'[c] = out[c], sent'[c] = sent[c]
  PROVE  Flows(c)'
<1>1. sent[c] \in Nat BY DEF TypeOK, SocketsOK
<1>2. PICK i \in 0 .. sent[c], j \in 0 .. sent[c], k \in 0 .. sent[c] : Along(c, i, j, k) BY DEF Flows
<1>n. 0 \in Nat /\ i \in Nat /\ j \in Nat /\ k \in Nat /\ 0 <= i /\ 0 <= j /\ k <= sent[c]
  BY <1>1
<1>3. j = k BY <1>1, <1>2, EmptyRun DEF Along
<1>4. PICK n \in 0 .. Len(in[c]) : n = Least(Buf, Len(in[c])) BY TakeType
<1>5. Taken(c) = First(in[c], n) /\ in'[c] = Rest(in[c], n) BY <1>4 DEF Taken
<1>6. in[c] = Run(c, k, sent[c]) BY <1>2 DEF Along
<1>7. n \in 0 .. sent[c] - k
  <2>1. Len(Run(c, k, sent[c])) = sent[c] - k BY <1>1, <1>n, RunType
  <2> QED BY <1>1, <1>4, <1>6, <1>n, <2>1
<1>8. First(in[c], n) = Run(c, k, k + n) /\ Rest(in[c], n) = Run(c, k + n, sent[c])
  BY <1>1, <1>6, <1>7, <1>n, RunCut
<1>9. k + n \in 0 .. sent'[c] /\ j <= k + n BY <1>1, <1>3, <1>7, <1>n
<1>10. Along(c, i, j, k + n)' BY <1>2, <1>3, <1>5, <1>8, <1>9 DEF Along, Run
<1> QED BY <1>9, <1>10 DEF Flows

LEMMA SomeWritten ==
  ASSUME TypeOK, NEW c \in Conns, Flows(c), NEW s \in Seq(Bytes), s = Pend(c),
         out'[c] = out[c] \o First(s, Fits(c, s)), Pend(c)' = Rest(s, Fits(c, s)),
         got'[c] = got[c], in'[c] = in[c], sent'[c] = sent[c]
  PROVE  /\ Flows(c)'
         /\ \E n \in Len(got[c] \o out[c]) .. sent[c] : got'[c] \o out'[c] = Run(c, 0, n)
<1>1. sent[c] \in Nat BY DEF TypeOK, SocketsOK
<1>2. PICK i \in 0 .. sent[c], j \in 0 .. sent[c], k \in 0 .. sent[c] : Along(c, i, j, k) BY DEF Flows
<1>n. 0 \in Nat /\ i \in Nat /\ j \in Nat /\ k \in Nat /\ 0 <= i /\ 0 <= j /\ k <= sent[c]
  BY <1>1
<1>3. PICK n \in 0 .. Len(s) : n = Fits(c, s) BY PutType
<1>4. out'[c] = out[c] \o First(s, n) /\ Pend(c)' = Rest(s, n) BY <1>3
<1>5. s = Run(c, j, k) BY <1>2 DEF Along
<1>6. n \in 0 .. k - j
  <2>1. Len(Run(c, j, k)) = k - j BY <1>2, <1>n, RunType DEF Along
  <2> QED BY <1>3, <1>5, <2>1
<1>7. First(s, n) = Run(c, j, j + n) /\ Rest(s, n) = Run(c, j + n, k)
  BY <1>2, <1>5, <1>6, <1>n, RunCut DEF Along
<1>8. j + n \in 0 .. sent'[c] /\ n \in Nat /\ j <= j + n /\ j + n <= k /\ i <= j + n /\ i <= j
  BY <1>1, <1>2, <1>6, <1>n DEF Along
<1>9. out'[c] = Run(c, i, j + n)
  <2>1. PICK d \in Nat : d = j + n BY <1>8
  <2>2. i <= j /\ j <= d BY <1>8, <2>1
  <2>3. Run(c, i, j) \o Run(c, j, d) = Run(c, i, d) BY <1>n, <2>2, RunJoin
  <2> QED BY <1>2, <1>4, <1>7, <2>1, <2>3 DEF Along
<1>10. Along(c, i, j + n, k)' BY <1>2, <1>4, <1>7, <1>8, <1>9 DEF Along, Run
<1>11. Flows(c)' BY <1>8, <1>10 DEF Flows
<1>12. got[c] \o out[c] = Run(c, 0, j) /\ got'[c] \o out'[c] = Run(c, 0, j + n)
  <2>1. Run(c, 0, i) \o Run(c, i, j) = Run(c, 0, j) BY <1>8, <1>n, RunJoin
  <2>2. PICK d \in Nat : d = j + n BY <1>8
  <2>3. i <= d BY <1>8, <2>2
  <2>4. Run(c, 0, i) \o Run(c, i, d) = Run(c, 0, d) BY <1>n, <2>3, RunJoin
  <2> QED BY <1>2, <1>9, <2>1, <2>2, <2>4 DEF Along
<1>13. Len(Run(c, 0, j)) = j
  <2>1. Len(Run(c, 0, j)) = j - 0 BY <1>n, RunType
  <2> QED BY <1>1, <2>1
<1>14. j + n \in Len(got[c] \o out[c]) .. sent[c] BY <1>1, <1>8, <1>12, <1>13
<1> QED BY <1>11, <1>12, <1>14

(* Where nothing moves.                                                    *)
LEMMA FlowStays ==
  ASSUME NEW c \in Conns, Flows(c), sent'[c] = sent[c], got'[c] = got[c], out'[c] = out[c],
         in'[c] = in[c], Pend(c)' = Pend(c)
  PROVE  Flows(c)'
BY DEF Flows, Along, Run

(* All of the bytes of a client that is at its end have been echoed.       *)
LEMMA AllEchoed ==
  ASSUME TypeOK, NEW c \in Conns, Flows(c), in[c] = <<>>, Pend(c) = <<>>
  PROVE  Len(got[c] \o out[c]) = sent[c]
<1>1. sent[c] \in Nat BY DEF TypeOK, SocketsOK
<1>2. PICK i \in 0 .. sent[c], j \in 0 .. sent[c], k \in 0 .. sent[c] : Along(c, i, j, k) BY DEF Flows
<1>n. 0 \in Nat /\ i \in Nat /\ j \in Nat /\ k \in Nat /\ 0 <= i /\ 0 <= j /\ k <= sent[c]
  BY <1>1
<1>3. j = k /\ k = sent[c] BY <1>1, <1>2, EmptyRun DEF Along
<1>4. got[c] \o out[c] = Run(c, 0, j)
  <2>1. Run(c, 0, i) \o Run(c, i, j) = Run(c, 0, j) BY <1>2, <1>n, RunJoin DEF Along
  <2> QED BY <1>2, <2>1 DEF Along
<1>5. Len(Run(c, 0, j)) = j - 0 BY <1>n, RunType
<1> QED BY <1>1, <1>3, <1>4, <1>5

(* What a client has got is taken from what was on the way to it.          *)
LEMMA MovesOn ==
  ASSUME NEW s \in Seq(Bytes), NEW t \in Seq(Bytes), t # <<>>
  PROVE  Append(s, Head(t)) \o Tail(t) = s \o t
<1> DEFINE h == Head(t)  r == Tail(t)  a == Append(s, h)
<1>1. /\ h \in Bytes /\ h = t[1] /\ r \in Seq(Bytes) /\ Len(r) = Len(t) - 1
      /\ \A i \in 1 .. Len(r) : r[i] = t[i + 1]
  BY HeadTailProperties
<1>2. Len(s) \in Nat /\ Len(t) \in Nat /\ Len(t) # 0 BY EmptySeq, LenProperties
<1> HIDE DEF h, r
<1>3. /\ a \in Seq(Bytes) /\ Len(a) = Len(s) + 1
      /\ (\A i \in 1 .. Len(s) : a[i] = s[i]) /\ a[Len(s) + 1] = h
  BY <1>1, AppendProperties
<1> HIDE DEF a
<1>4. /\ a \o r \in Seq(Bytes) /\ Len(a \o r) = Len(a) + Len(r)
      /\ \A i \in 1 .. Len(a) + Len(r) : (a \o r)[i] = IF i <= Len(a) THEN a[i] ELSE r[i - Len(a)]
  BY <1>1, <1>3, ConcatProperties
<1>5. /\ s \o t \in Seq(Bytes) /\ Len(s \o t) = Len(s) + Len(t)
      /\ \A i \in 1 .. Len(s) + Len(t) : (s \o t)[i] = IF i <= Len(s) THEN s[i] ELSE t[i - Len(s)]
  BY ConcatProperties
<1>6. Len(a) + Len(r) = Len(s) + Len(t) BY <1>1, <1>2, <1>3
<1>7. ASSUME NEW i \in 1 .. Len(s) + Len(t) PROVE (a \o r)[i] = (s \o t)[i]
  <2>1. CASE i <= Len(s)
    <3>1. i \in 1 .. Len(s) /\ i <= Len(a) BY <1>2, <1>3, <2>1
    <3> QED BY <1>3, <1>4, <1>5, <1>6, <2>1, <3>1
  <2>2. CASE i = Len(s) + 1
    <3>1. i <= Len(a) /\ ~(i <= Len(s)) /\ i - Len(s) = 1 BY <1>2, <1>3, <2>2
    <3>2. (a \o r)[i] = h BY <1>3, <1>4, <1>6, <2>2, <3>1
    <3>3. (s \o t)[i] = t[1] BY <1>5, <3>1
    <3> QED BY <1>1, <3>2, <3>3
  <2>3. CASE i > Len(s) + 1
    <3>1. ~(i <= Len(a)) /\ ~(i <= Len(s)) /\ i - Len(a) \in 1 .. Len(r)
          /\ (i - Len(a)) + 1 = i - Len(s)
      BY <1>1, <1>2, <1>3, <2>3
    <3>2. (a \o r)[i] = r[i - Len(a)] BY <1>4, <1>6, <3>1
    <3>3. r[i - Len(a)] = t[i - Len(s)] BY <1>1, <3>1
    <3>4. (s \o t)[i] = t[i - Len(s)] BY <1>5, <3>1
    <3> QED BY <3>2, <3>3, <3>4
  <2>4. i <= Len(s) \/ i = Len(s) + 1 \/ i > Len(s) + 1 BY <1>2
  <2> QED BY <2>1, <2>2, <2>3, <2>4
<1>8. a \o r = s \o t BY <1>4, <1>5, <1>6, <1>7, SeqEqual
<1> QED BY <1>8 DEF h, r, a
-----------------------------------------------------------------------------
(* Where the bytes of all clients but one stay.                            *)
Elsewhere(c) ==
  \A d \in Conns \ {c} : /\ sent'[d] = sent[d] /\ in'[d] = in[d] /\ got'[d] = got[d]
                         /\ out'[d] = out[d] /\ Pend(d)' = Pend(d)

(* So only that one need be looked at.                                     *)
LEMMA FlowOfOne ==
  ASSUME Flow, NEW c \in Conns, Elsewhere(c), lost \subseteq lost', c \notin lost' => Flows(c)'
  PROVE  Flow'
<1>1. ASSUME NEW d \in Conns \ lost', d # c PROVE Flows(d)'
  <2>1. d \in Conns \ lost BY <1>1
  <2> QED BY <1>1, <2>1, FlowStays DEF Flow, Elsewhere
<1> QED BY <1>1 DEF Flow

(* What the service sees of a step in which nothing is echoed.             *)
LEMMA SameEchoes ==
  ASSUME UNCHANGED <<got, out>>
  PROVE  [c \in Conns |-> got[c] \o out[c]]' = [c \in Conns |-> got[c] \o out[c]]
OBVIOUS

(* Every step keeps the bytes in order, and is a step of the service or    *)
(* none that the service sees.                                             *)
LEMMA FlowInductive ==
  ASSUME TypeOK, Places, Flow, [Next]_vars
  PROVE  Flow' /\ [Service!ServiceNext]_Service!service
<1> USE DEF forking
<1> DEFINE Echoed == [c \in Conns |-> got[c] \o out[c]]
           Same == UNCHANGED <<sent, Echoed, shut, hung, lost>>
<1>a. /\ in \in [Conns -> Seq(Bytes)] /\ got \in [Conns -> Seq(Bytes)]
      /\ out \in [Conns -> Seq(Bytes)] /\ sent \in [Conns -> Nat] /\ buf \in [Conns -> Seq(Bytes)]
      /\ begun \subseteq Conns /\ hung \subseteq begun
  BY DEF TypeOK, SocketsOK, ChildrenOK
<1>b. Same => [Service!ServiceNext]_Service!service BY DEF Service!service
<1>c. ASSUME UNCHANGED <<sent, in, got, out>>, \A c \in Conns : Pend(c)' = Pend(c),
             lost \subseteq lost'
      PROVE  Flow' /\ UNCHANGED <<sent, Echoed>>
  BY <1>c, FlowStays DEF Flow
<1>d. ASSUME NEW c \in Conns, UNCHANGED <<sent, Echoed, shut>>, hung' = hung \cup {c},
             lost' \in {lost, lost \cup {c}}, c \in lost' \/ (c \in shut /\ Len(got[c] \o out[c]) = sent[c])
      PROVE  Service!ServiceNext
  <2>1. Echoed[c] = got[c] \o out[c] OBVIOUS
  <2> QED BY <1>d, <2>1 DEF Service!ServiceNext, Service!HangsUpOn
<1>e. ASSUME NEW c \in Conns, c \notin hung, UNCHANGED <<sent, shut, hung>>,
             lost' \in {lost, lost \cup {c}}, got' = got, \A d \in Conns \ {c} : out'[d] = out[d],
             \/ c \in lost'
             \/ \E n \in Len(got[c] \o out[c]) .. sent[c] : got'[c] \o out'[c] = Run(c, 0, n)
      PROVE  Service!ServiceNext
  <2>1. Echoed' = [Echoed EXCEPT ![c] = Echoed'[c]] BY <1>e
  <2>2. \A n \in Nat : Service!Stream(c, n) = Run(c, 0, n) BY DEF Service!Stream, Run
  <2>3. Echoed[c] = got[c] \o out[c] /\ Echoed'[c] = got'[c] \o out'[c] OBVIOUS
  <2>4. c \in lost' \/ \E n \in Len(Echoed[c]) .. sent[c] : Echoed'[c] = Service!Stream(c, n)
    <3>1. Len(Echoed[c]) \in Nat
      <4>1. got[c] \o out[c] \in Seq(Bytes) BY <1>a, ConcatProperties
      <4> QED BY <2>3, <4>1, LenProperties
    <3>2. CASE c \in lost' BY <3>2
    <3>3. CASE c \notin lost'
      <4>1. PICK n \in Len(got[c] \o out[c]) .. sent[c] : got'[c] \o out'[c] = Run(c, 0, n)
        BY <1>e, <3>3
      <4> HIDE DEF Echoed
      <4>2. n \in Len(Echoed[c]) .. sent[c] /\ Echoed'[c] = Run(c, 0, n) BY <2>3, <4>1
      <4>3. n \in Nat BY <1>a, <3>1, <4>2
      <4> QED BY <2>2, <4>2, <4>3
    <3> QED BY <3>2, <3>3
  <2> QED BY <1>e, <2>1, <2>4 DEF Service!ServiceNext, Service!Echoes
<1>f. ASSUME NEW c \in Conns, AtEnd(c), Pend(c) = <<>>, c \notin lost
      PROVE  c \in shut /\ Len(got[c] \o out[c]) = sent[c]
  BY <1>f, AllEchoed DEF AtEnd, Flow
<1>1. ASSUME NEW c \in Conns, Connect(c), UNCHANGED <<forking, loop>>
      PROVE  Flow' /\ [Service!ServiceNext]_Service!service
  <2>1. UNCHANGED <<sent, in, got, out, shut, hung, lost>> /\ UNCHANGED <<step, fd, chunk, buf>>
    BY <1>1 DEF Connect, children, loop
  <2> QED BY <1>b, <1>c, <2>1 DEF Pend
<1>2. ASSUME NEW c \in Conns, Say(c), UNCHANGED <<forking, loop>>
      PROVE  Flow' /\ [Service!ServiceNext]_Service!service
  <2>1. PICK n \in 1 .. MaxSent[c] - sent[c] :
          /\ sent' = [sent EXCEPT ![c] = @ + n]
          /\ in' = [in EXCEPT ![c] = @ \o [k \in 1 .. n |-> <<c, sent[c] + k>>]]
    BY <1>2 DEF Say
  <2>2. /\ UNCHANGED <<got, out, shut, hung, lost>> /\ UNCHANGED <<step, fd, chunk, buf>>
        /\ c \notin shut
    BY <1>2 DEF Say, children, loop
  <2>3. \A d \in Conns : Pend(d)' = Pend(d) BY <2>2 DEF Pend
  <2>4. n \in Nat /\ n > 0 /\ (sent[c] + n) - sent[c] = n BY <1>a, BoundsAssumption
  <2>5. sent'[c] = sent[c] + n /\ in'[c] = in[c] \o Run(c, sent[c], sent[c] + n)
    BY <1>a, <2>1, <2>4 DEF Run
  <2>6. c \notin lost' => Flows(c)' BY <2>2, <2>3, <2>4, <2>5, MoreSaid DEF Flow
  <2>7. Elsewhere(c) BY <1>a, <2>1, <2>2, <2>3 DEF Elsewhere
  <2>8. Flow' BY <2>2, <2>6, <2>7, FlowOfOne
  <2>9. Service!ClientSays(c)
    <3>1. sent'[c] > sent[c] /\ sent' = [sent EXCEPT ![c] = sent'[c]] BY <1>a, <2>1, <2>4, <2>5
    <3> QED BY <2>2, <3>1 DEF Service!ClientSays
  <2> QED BY <2>8, <2>9 DEF Service!ServiceNext
<1>3. ASSUME NEW c \in Conns, Shutdown(c), UNCHANGED <<forking, loop>>
      PROVE  Flow' /\ [Service!ServiceNext]_Service!service
  <2>1. /\ UNCHANGED <<sent, in, got, out, hung, lost>> /\ UNCHANGED <<step, fd, chunk, buf>>
        /\ shut' = shut \cup {c}
    BY <1>3 DEF Shutdown, children, loop
  <2>2. Flow' /\ UNCHANGED Echoed BY <1>c, <2>1 DEF Pend
  <2>3. Service!ClientEnds(c) BY <2>1, <2>2 DEF Service!ClientEnds
  <2> QED BY <2>2, <2>3 DEF Service!ServiceNext
<1>4. ASSUME NEW c \in Conns, Hear(c), UNCHANGED <<forking, loop>>
      PROVE  Flow' /\ [Service!ServiceNext]_Service!service
  <2>1. /\ out[c] # <<>>
        /\ got' = [got EXCEPT ![c] = Append(@, Head(out[c]))]
        /\ out' = [out EXCEPT ![c] = Tail(@)]
        /\ UNCHANGED <<sent, in, shut, hung, lost>> /\ UNCHANGED <<step, fd, chunk, buf>>
    BY <1>4 DEF Hear, children, loop
  <2>2. \A d \in Conns : Pend(d)' = Pend(d) BY <2>1 DEF Pend
  <2>3. got'[c] = Append(got[c], Head(out[c])) /\ out'[c] = Tail(out[c]) BY <1>a, <2>1
  <2>4. c \notin lost' => Flows(c)' BY <2>1, <2>2, <2>3, OneHeard DEF Flow
  <2>5. Elsewhere(c) BY <1>a, <2>1, <2>2 DEF Elsewhere
  <2>6. Flow' BY <2>1, <2>4, <2>5, FlowOfOne
  <2>7. got'[c] \o out'[c] = got[c] \o out[c] BY <1>a, <2>1, <2>3, MovesOn
  <2>8. UNCHANGED Echoed BY <2>5, <2>7 DEF Elsewhere
  <2> QED BY <1>b, <2>1, <2>6, <2>8
<1>5. CASE (Accept \/ Fork) /\ UNCHANGED loop
  <2>1. UNCHANGED <<sent, in, got, out, shut, hung, lost>> /\ UNCHANGED <<step, fd, chunk, buf>>
    BY <1>5 DEF Accept, Fork, sockets, clients, loop
  <2> QED BY <1>b, <1>c, <2>1 DEF Pend
<1>6. CASE ForkFails /\ UNCHANGED loop
  <2>1. /\ UNCHANGED <<sent, in, got, out, shut>> /\ UNCHANGED <<step, fd, chunk, buf>>
        /\ hung' = hung \cup {clnt_sock} /\ lost' = lost \cup {clnt_sock} /\ clnt_sock \in begun
    BY <1>6 DEF ForkFails, Places, Between, clients, children, loop
  <2>2. Flow' /\ UNCHANGED <<sent, Echoed>> BY <1>c, <2>1 DEF Pend
  <2>3. clnt_sock \in Conns BY <1>a, <2>1
  <2>4. Service!ServiceNext
    <3> HIDE DEF Echoed
    <3> QED BY <1>d, <2>1, <2>2, <2>3
  <2> QED BY <2>2, <2>4
<1>7. CASE CloseParent /\ UNCHANGED loop
  <2>1. /\ UNCHANGED <<sent, in, got, out, shut, lost>> /\ UNCHANGED <<step, fd, chunk, buf>>
        /\ hung' = IF HasSocket(clnt_sock) THEN hung ELSE hung \cup {clnt_sock}
        /\ main = "close"
    BY <1>7 DEF CloseParent, clients, children, loop
  <2>2. Flow' /\ UNCHANGED <<sent, Echoed>> BY <1>c, <2>1 DEF Pend
  <2>3. clnt_sock \in Conns /\ pc[clnt_sock] # "none"
        /\ pc[clnt_sock] \in {"none", "read", "write", "store", "close", "exit", "ended"}
    BY <1>a, <2>1 DEF Places, Between, TypeOK, ChildrenOK
  <2>4. CASE HasSocket(clnt_sock)
    <3> HIDE DEF Echoed
    <3> QED BY <1>b, <2>1, <2>2, <2>4
  <2>5. CASE ~HasSocket(clnt_sock)
    <3>1. pc[clnt_sock] \in {"exit", "ended"} BY <2>3, <2>5 DEF HasSocket
    <3>2. AtEnd(clnt_sock) /\ buf[clnt_sock] = <<>> BY <2>3, <3>1 DEF Places, Processes
    <3>3. step = "none" BY <2>1 DEF Places, OneKind
    <3>4. Pend(clnt_sock) = <<>> BY <3>2, <3>3 DEF Pend
    <3>5. clnt_sock \in lost' \/ (clnt_sock \in shut /\ Len(got[clnt_sock] \o out[clnt_sock]) = sent[clnt_sock])
      BY <1>f, <2>1, <2>3, <3>2, <3>4
    <3>6. Service!ServiceNext
      <4> HIDE DEF Echoed
      <4> QED BY <1>d, <2>1, <2>2, <2>3, <2>5, <3>5
    <3> QED BY <2>2, <3>6
  <2> QED BY <2>4, <2>5
<1>8. ASSUME NEW c \in Conns, Process(c), UNCHANGED loop
      PROVE  Flow' /\ [Service!ServiceNext]_Service!service
  <2>1. step = "none" /\ UNCHANGED <<step, fd, chunk>> /\ UNCHANGED <<sent, got, shut, lost>>
    <3>1. pc[c] # "none" BY <1>8 DEF Process, Read, Write, Store, CloseChild, Exit
    <3> QED BY <1>8, <3>1 DEF Places, OneKind, Process, Read, Write, Store, CloseChild, Exit,
                              sockets, clients, loop
  <2>2. \A d \in Conns : Pend(d) = buf[d] /\ Pend(d)' = buf'[d] BY <2>1 DEF Pend
  <2>3. CASE Read(c) /\ ~AtEnd(c)
    <3>1. /\ in' = [in EXCEPT ![c] = Rest(@, Least(Buf, Len(@)))]
          /\ buf' = [buf EXCEPT ![c] = Taken(c)]
          /\ UNCHANGED <<out, hung>> /\ pc[c] = "read"
      BY <2>3 DEF Read, Take
    <3>2. in'[c] = Rest(in[c], Least(Buf, Len(in[c]))) /\ buf'[c] = Taken(c) BY <1>a, <3>1
    <3>3. buf[c] = <<>> BY <3>1 DEF Places, Processes
    <3>4. c \notin lost' => Flows(c)' BY <2>1, <2>2, <3>1, <3>2, <3>3, SomeRead DEF Flow
    <3>5. Elsewhere(c) BY <1>a, <2>1, <2>2, <3>1 DEF Elsewhere
    <3>6. Flow' BY <2>1, <3>4, <3>5, FlowOfOne
    <3>7. UNCHANGED Echoed BY <2>1, <3>1
    <3> QED BY <1>b, <2>1, <3>1, <3>6, <3>7
  <2>4. CASE Write(c)
    <3>1. /\ out' = [out EXCEPT ![c] = @ \o First(buf[c], Fits(c, buf[c]))]
          /\ buf' = [buf EXCEPT ![c] = Rest(@, Fits(c, @))]
          /\ UNCHANGED <<in, hung>> /\ pc[c] = "write"
      BY <2>4 DEF Write, Put
    <3>2. out'[c] = out[c] \o First(buf[c], Fits(c, buf[c])) /\ buf'[c] = Rest(buf[c], Fits(c, buf[c]))
      BY <1>a, <3>1
    <3>3. ASSUME c \notin lost'
          PROVE  /\ Flows(c)'
                 /\ \E n \in Len(got[c] \o out[c]) .. sent[c] : got'[c] \o out'[c] = Run(c, 0, n)
      BY <1>a, <2>1, <2>2, <3>1, <3>2, <3>3, SomeWritten DEF Flow
    <3>4. Elsewhere(c) BY <1>a, <2>1, <2>2, <3>1 DEF Elsewhere
    <3>5. Flow' BY <2>1, <3>3, <3>4, FlowOfOne
    <3>6. c \notin hung BY <3>1 DEF Places, Unserved
    <3>7. \A d \in Conns \ {c} : out'[d] = out[d] BY <3>4 DEF Elsewhere
    <3>8. Service!ServiceNext
      <4>1. lost' \in {lost, lost \cup {c}} BY <2>1
      <4> QED BY <1>e, <2>1, <3>1, <3>3, <3>6, <3>7, <4>1
    <3> QED BY <3>5, <3>8
  <2>5. CASE CloseChild(c)
    <3>1. /\ UNCHANGED <<in, out, buf>> /\ pc[c] = "close"
          /\ hung' = hung \/ hung' = hung \cup {c}
      BY <2>5 DEF CloseChild
    <3>2. Flow' /\ UNCHANGED <<sent, Echoed>> BY <1>c, <2>1, <2>2, <3>1
    <3>3. AtEnd(c) /\ Pend(c) = <<>> BY <2>2, <3>1 DEF Places, Processes
    <3>4. c \in lost' \/ (c \in shut /\ Len(got[c] \o out[c]) = sent[c]) BY <1>f, <2>1, <3>3
    <3> HIDE DEF Echoed
    <3>5. CASE hung' = hung BY <1>b, <2>1, <3>2, <3>5
    <3>6. CASE hung' = hung \cup {c}
      <4>1. Service!ServiceNext BY <1>d, <2>1, <3>2, <3>4, <3>6
      <4> QED BY <3>2, <4>1
    <3> QED BY <3>1, <3>5, <3>6
  <2>6. CASE (Read(c) /\ AtEnd(c)) \/ Store(c) \/ Exit(c)
    <3>1. UNCHANGED <<in, out, hung, buf>> BY <2>6 DEF Read, Store, Exit, sockets
    <3> QED BY <1>b, <1>c, <2>1, <2>2, <3>1
  <2> QED BY <1>8, <2>3, <2>4, <2>5, <2>6 DEF Process
<1>9. CASE (WriterProcess \/ Handler) /\ UNCHANGED loop
  <2>1. UNCHANGED <<sent, in, got, out, shut, hung, lost>> /\ UNCHANGED <<step, fd, chunk, buf>>
    BY <1>9 DEF WriterProcess, WriterReads, WriterExits, Handler, Signalled, Reap,
                sockets, clients, children, loop
  <2> QED BY <1>b, <1>c, <2>1 DEF Pend
<1>10. CASE ReadEvent /\ UNCHANGED forking
  <2>1. /\ step = "read" /\ step' = "write" /\ chunk' = Taken(fd)
        /\ in' = [in EXCEPT ![fd] = Rest(@, Least(Buf, Len(@)))]
        /\ UNCHANGED <<sent, got, out, shut, hung, lost, fd>>
    BY <1>10 DEF ReadEvent, Take, clients
  <2>2. fd \in Conns BY <2>1 DEF Places, Looping
  <2>3. PICK c \in Conns : c = fd BY <2>2
  <2>4. Pend(c) = <<>> /\ Pend(c)' = Taken(c) BY <2>1, <2>3 DEF Pend
  <2>5. \A d \in Conns \ {c} : Pend(d)' = Pend(d) BY <2>1, <2>3 DEF Pend
  <2>6. in'[c] = Rest(in[c], Least(Buf, Len(in[c]))) BY <1>a, <2>1, <2>3
  <2>7. c \notin lost' => Flows(c)' BY <2>1, <2>4, <2>6, SomeRead DEF Flow
  <2>8. Elsewhere(c) BY <1>a, <2>1, <2>3, <2>5 DEF Elsewhere
  <2>9. Flow' BY <2>1, <2>7, <2>8, FlowOfOne
  <2>10. UNCHANGED Echoed BY <2>1
  <2> QED BY <1>b, <2>1, <2>9, <2>10
<1>11. CASE (WriteEvent \/ WriteNow) /\ UNCHANGED forking
  <2>1. /\ step = "write" /\ step' # "none" /\ (step' # "write" => chunk' = <<>>)
        /\ out' = [out EXCEPT ![fd] = @ \o First(chunk, Fits(fd, chunk))]
        /\ UNCHANGED <<sent, in, got, shut, hung, fd>>
    BY <1>11 DEF WriteEvent, WriteNow, Put, clients
  <2>2. fd \in Conns /\ fd \in registered BY <2>1 DEF Places, Looping
  <2>3. PICK c \in Conns : c = fd BY <2>2
  <2>4. chunk \in Seq(Bytes) BY DEF TypeOK, LoopOK
  <2>5. /\ lost' \in {lost, lost \cup {c}}
        /\ c \notin lost' => chunk' = Rest(chunk, Fits(c, chunk))
    <3>1. CASE WriteEvent BY <2>3, <3>1 DEF WriteEvent
    <3>2. CASE WriteNow
      <4>1. /\ chunk' = <<>>
            /\ lost' = IF Fits(c, chunk) < Len(chunk) THEN lost \cup {c} ELSE lost
        BY <2>3, <3>2 DEF WriteNow
      <4>2. ASSUME c \notin lost' PROVE chunk' = Rest(chunk, Fits(c, chunk))
        <5>1. ~(Fits(c, chunk) < Len(chunk)) BY <4>1, <4>2
        <5>2. /\ Fits(c, chunk) \in 0 .. Len(chunk) /\ Rest(chunk, Fits(c, chunk)) \in Seq(Bytes)
              /\ Len(Rest(chunk, Fits(c, chunk))) = Len(chunk) - Fits(c, chunk)
          BY <2>4, PutType
        <5>3. Len(chunk) \in Nat BY <2>4, LenProperties
        <5>4. Len(Rest(chunk, Fits(c, chunk))) = 0 BY <5>1, <5>2, <5>3
        <5>5. Rest(chunk, Fits(c, chunk)) = <<>> BY <5>2, <5>4, EmptySeq
        <5> QED BY <4>1, <5>5
      <4> QED BY <4>1, <4>2
    <3> QED BY <1>11, <3>1, <3>2
  <2>6. Pend(c) = chunk /\ Pend(c)' = chunk' BY <2>1, <2>3 DEF Pend
  <2>7. out'[c] = out[c] \o First(chunk, Fits(c, chunk)) BY <1>a, <2>1, <2>3
  <2>8. ASSUME c \notin lost'
        PROVE  /\ Flows(c)'
               /\ \E n \in Len(got[c] \o out[c]) .. sent[c] : got'[c] \o out'[c] = Run(c, 0, n)
    BY <2>1, <2>4, <2>5, <2>6, <2>7, <2>8, SomeWritten DEF Flow
  <2>9. \A d \in Conns \ {c} : out'[d] = out[d] /\ Pend(d)' = Pend(d) BY <1>a, <2>1, <2>3 DEF Pend
  <2>10. Elsewhere(c) BY <2>1, <2>9 DEF Elsewhere
  <2>11. Flow' BY <2>5, <2>8, <2>10, FlowOfOne
  <2>12. c \notin hung BY <2>2, <2>3 DEF Places, Unserved
  <2>13. Service!ServiceNext BY <1>e, <2>1, <2>5, <2>8, <2>9, <2>12
  <2> QED BY <2>11, <2>13
<1>12. CASE CloseEvent /\ UNCHANGED forking
  <2>1. /\ step = "read" /\ step' = "event" /\ AtEnd(fd) /\ hung' = hung \cup {fd}
        /\ UNCHANGED <<sent, in, got, out, shut, lost, fd, chunk>>
    BY <1>12 DEF CloseEvent, clients
  <2>2. fd \in Conns BY <2>1 DEF Places, Looping
  <2>3. \A d \in Conns : Pend(d) = <<>> /\ Pend(d)' = <<>> BY <2>1 DEF Pend
  <2>4. Flow' /\ UNCHANGED <<sent, Echoed>> BY <1>c, <2>1, <2>3
  <2>5. fd \in lost' \/ (fd \in shut /\ Len(got[fd] \o out[fd]) = sent[fd]) BY <1>f, <2>1, <2>2, <2>3
  <2>6. Service!ServiceNext
    <3> HIDE DEF Echoed
    <3> QED BY <1>d, <2>1, <2>2, <2>4, <2>5
  <2> QED BY <2>4, <2>6
<1>13. CASE (Wait \/ NextEvent \/ AcceptEvent \/ NothingLeft \/ \E c \in Conns : ClientEvent(c))
            /\ UNCHANGED forking
  <2>1. /\ step \notin {"none", "write"} /\ step' \notin {"none", "write"}
        /\ UNCHANGED <<sent, in, got, out, shut, hung, lost>>
    BY <1>13 DEF Wait, NextEvent, AcceptEvent, NothingLeft, ClientEvent, sockets, clients
  <2>2. \A c \in Conns : Pend(c) = <<>> /\ Pend(c)' = <<>> BY <2>1 DEF Pend
  <2> QED BY <1>b, <1>c, <2>1, <2>2
<1>14. CASE UNCHANGED vars
  <2>1. UNCHANGED <<sent, in, got, out, shut, hung, lost>> /\ UNCHANGED <<step, fd, chunk, buf>>
    BY <1>14 DEF vars, sockets, clients, children, loop
  <2> QED BY <1>b, <1>c, <2>1 DEF Pend
<1> QED
  <2> HIDE DEF Echoed, Same
  <2> QED BY <1>1, <1>2, <1>3, <1>4, <1>5, <1>6, <1>7, <1>8, <1>9, <1>10, <1>11, <1>12, <1>13, <1>14
        DEF Next, ClientStep, Client, ProcessStep, ParentStep, Parent, WriterStep, HandlerStep,
            LoopStep, Loop
-----------------------------------------------------------------------------
(* What a client's socket and its process hold is that client's.           *)
OwnBytes ==
  \A c \in Conns : in[c] \in Seq({c} \X Nat) /\ tostore[c] \in Seq({c} \X Nat)

(* Only between a read and the next does a process hold bytes to store, and *)
(* with processes there is no loop.                                        *)
Holding ==
  /\ server \in ForkServers => step = "none"
  /\ server = "echo_storeserv" =>
       \A c \in Conns : pc[c] \notin {"write", "store"} => tostore[c] = <<>>

StoredInv == OwnBytes /\ Holding /\ StoredIsEchoed

(* Where a piece of the client's own is cut off, both parts are its own.   *)
LEMMA OwnTaken ==
  ASSUME TypeOK, OwnBytes, NEW c \in Conns
  PROVE  /\ Taken(c) \in Seq({c} \X Nat)
         /\ Rest(in[c], Least(Buf, Len(in[c]))) \in Seq({c} \X Nat)
<1>1. in[c] \in Seq({c} \X Nat) BY DEF OwnBytes
<1>2. Least(Buf, Len(in[c])) \in 0 .. Len(in[c]) BY TakeType
<1> QED BY <1>1, <1>2, FirstRest DEF Taken

LEMMA OwnRun ==
  ASSUME NEW c \in Conns, NEW a \in Nat, NEW n \in Nat
  PROVE  [k \in 1 .. n |-> <<c, a + k>>] \in Seq({c} \X Nat)
<1>1. \A k \in 1 .. n : <<c, a + k>> \in {c} \X Nat OBVIOUS
<1> QED BY <1>1, IsASeq

(* What a write takes from the buffer is added to what is on the way.      *)
LEMMA WriteMoves ==
  ASSUME TypeOK, NEW c \in Conns
  PROVE  got[c] \o (out[c] \o First(buf[c], Fits(c, buf[c]))) \o Rest(buf[c], Fits(c, buf[c]))
           = got[c] \o out[c] \o buf[c]
<1>1. got[c] \in Seq(Bytes) /\ out[c] \in Seq(Bytes) /\ buf[c] \in Seq(Bytes)
  BY DEF TypeOK, SocketsOK, ChildrenOK
<1>2. PICK n \in 0 .. Len(buf[c]) : n = Fits(c, buf[c]) BY <1>1, PutType
<1>3. PICK g \in Seq(Bytes), o \in Seq(Bytes), b \in Seq(Bytes) :
        g = got[c] /\ o = out[c] /\ b = buf[c]
  BY <1>1
<1>4. PICK x \in Seq(Bytes), y \in Seq(Bytes) : x = First(b, n) /\ y = Rest(b, n) /\ x \o y = b
  BY <1>2, <1>3, Whole
<1>5. (g \o o) \o x = g \o (o \o x) BY ConcatAssociative
<1>6. PICK m \in Seq(Bytes) : m = g \o o BY ConcatProperties
<1>7. (m \o x) \o y = m \o (x \o y) BY ConcatAssociative
<1> QED BY <1>2, <1>3, <1>4, <1>5, <1>6, <1>7

(* Every step keeps the file and the pipe complete.                        *)
LEMMA StoredInductive ==
  ASSUME TypeOK, Places, StoredInv, [Next]_vars
  PROVE  StoredInv'
<1> USE DEF forking, StoredInv
<1>a. /\ in \in [Conns -> Seq(Bytes)] /\ got \in [Conns -> Seq(Bytes)]
      /\ out \in [Conns -> Seq(Bytes)] /\ sent \in [Conns -> Nat]
      /\ buf \in [Conns -> Seq(Bytes)] /\ tostore \in [Conns -> Seq(Bytes)]
      /\ pc \in [Conns -> {"none", "read", "write", "store", "close", "exit", "ended"}]
      /\ file \in Seq(Bytes) /\ pipe \in Seq(Bytes)
  BY DEF TypeOK, SocketsOK, ChildrenOK, StoringOK
<1>b. ASSUME UNCHANGED <<server, got, out, buf, tostore, file, pipe>> PROVE StoredIsEchoed'
  BY <1>b DEF StoredIsEchoed
<1>c. ASSUME UNCHANGED <<server, step, pc, tostore>> PROVE Holding' BY <1>c DEF Holding
<1>1. ASSUME NEW c \in Conns, Client(c), ~Hear(c), UNCHANGED <<forking, loop>> PROVE StoredInv'
  <2>1. UNCHANGED <<server, got, out>> BY <1>1 DEF Client, Connect, Say, Shutdown
  <2>2. UNCHANGED <<step, pc, buf, tostore, file, pipe>> BY <1>1 DEF children, storing, loop
  <2>3. OwnBytes'
    <3>1. CASE Say(c)
      <4>1. PICK n \in 1 .. MaxSent[c] - sent[c] :
              in' = [in EXCEPT ![c] = @ \o [k \in 1 .. n |-> <<c, sent[c] + k>>]]
        BY <3>1 DEF Say
      <4> DEFINE r == [k \in 1 .. n |-> <<c, sent[c] + k>>]
      <4>2. n \in Nat BY <1>a, BoundsAssumption
      <4>3. r \in Seq({c} \X Nat) BY <1>a, <4>2, OwnRun
      <4> HIDE DEF r
      <4>4. in[c] \o r \in Seq({c} \X Nat) BY <4>3, ConcatProperties DEF OwnBytes
      <4>5. in' = [in EXCEPT ![c] = in[c] \o r] BY <4>1 DEF r
      <4> QED BY <1>a, <2>2, <4>4, <4>5 DEF OwnBytes
    <3>2. CASE Connect(c) \/ Shutdown(c) BY <2>2, <3>2 DEF Connect, Shutdown, OwnBytes
    <3> QED BY <1>1, <3>1, <3>2 DEF Client
  <2> QED BY <1>b, <1>c, <2>1, <2>2, <2>3
<1>2. ASSUME NEW c \in Conns, Hear(c), UNCHANGED <<forking, loop>> PROVE StoredInv'
  <2>1. /\ out[c] # <<>>
        /\ got' = [got EXCEPT ![c] = Append(@, Head(out[c]))]
        /\ out' = [out EXCEPT ![c] = Tail(@)]
        /\ UNCHANGED <<server, in>> /\ UNCHANGED <<step, pc, buf, tostore, file, pipe>>
    BY <1>2 DEF Hear, children, storing, loop
  <2>2. \A d \in Conns : got'[d] \o out'[d] = got[d] \o out[d]
    <3>1. Append(got[c], Head(out[c])) \o Tail(out[c]) = got[c] \o out[c] BY <1>a, <2>1, MovesOn
    <3> QED BY <1>a, <2>1, <3>1
  <2>3. StoredIsEchoed' BY <2>1, <2>2 DEF StoredIsEchoed
  <2>4. OwnBytes' BY <2>1 DEF OwnBytes
  <2> QED BY <1>c, <2>1, <2>3, <2>4
<1>3. CASE Parent /\ UNCHANGED loop
  <2>1. UNCHANGED <<server, step, in, got, out, buf, tostore, file, pipe>>
    BY <1>3 DEF Parent, Accept, Fork, ForkFails, CloseParent, sockets, clients, children, storing, loop
  <2>2. server = "echo_storeserv" =>
          \A c \in Conns : pc'[c] \notin {"write", "store"} => tostore[c] = <<>>
    <3>1. CASE Accept
      <4>1. server = "echo_storeserv" => UNCHANGED pc BY <3>1 DEF Accept
      <4> QED BY <4>1 DEF Holding
    <3>2. CASE Fork
      <4>1. pc' = [pc EXCEPT ![clnt_sock] = "read"] /\ pc[clnt_sock] = "none"
        BY <3>2 DEF Fork, Places, Between
      <4> QED BY <1>a, <4>1 DEF Holding
    <3>3. CASE ForkFails \/ CloseParent BY <3>3 DEF ForkFails, CloseParent, children, Holding
    <3> QED BY <1>3, <3>1, <3>2, <3>3 DEF Parent
  <2>3. Holding' BY <2>1, <2>2 DEF Holding
  <2>4. OwnBytes' BY <2>1 DEF OwnBytes
  <2> QED BY <1>b, <2>1, <2>3, <2>4
<1>4. ASSUME NEW c \in Conns, Process(c), UNCHANGED loop PROVE StoredInv'
  <2>1. UNCHANGED <<server, step, got, file>>
    BY <1>4 DEF Process, Read, Write, Store, CloseChild, Exit, sockets, clients, storing, loop
  <2>2. CASE Read(c) /\ ~AtEnd(c)
    <3>1. /\ pc[c] = "read" /\ pc' = [pc EXCEPT ![c] = "write"]
          /\ in' = [in EXCEPT ![c] = Rest(@, Least(Buf, Len(@)))]
          /\ buf' = [buf EXCEPT ![c] = Taken(c)]
          /\ tostore' = IF server = "echo_storeserv"
                        THEN [tostore EXCEPT ![c] = Taken(c)] ELSE tostore
          /\ UNCHANGED <<out, pipe>>
      BY <2>2 DEF Read, Take, storing
    <3>2. Taken(c) \in Seq({c} \X Nat) /\ Rest(in[c], Least(Buf, Len(in[c]))) \in Seq({c} \X Nat)
      BY OwnTaken
    <3>3. OwnBytes' BY <1>a, <3>1, <3>2 DEF OwnBytes
    <3>4. Holding' BY <1>a, <2>1, <3>1 DEF Holding
    <3>5. ASSUME server = "echo_storeserv", NEW d \in Conns
          PROVE  Of(d, file' \o pipe') \o tostore'[d] = got'[d] \o out'[d] \o buf'[d]
      <4>0. Of(d, file \o pipe) \o tostore[d] = got[d] \o out[d] \o buf[d]
        BY <3>5 DEF StoredIsEchoed
      <4>1. CASE d # c
        <5>1. tostore'[d] = tostore[d] /\ buf'[d] = buf[d] BY <1>a, <3>1, <4>1
        <5> QED BY <2>1, <3>1, <4>0, <5>1
      <4>2. CASE d = c
        <5>1. tostore[d] = <<>> /\ buf[d] = <<>>
          BY <3>1, <3>5, <4>2 DEF Holding, Places, Processes
        <5>2. tostore'[d] = Taken(c) /\ buf'[d] = Taken(c) BY <1>a, <3>1, <3>5, <4>2
        <5>3. got[d] \o out[d] \in Seq(Bytes) BY <1>a, ConcatProperties
        <5>4. (got[d] \o out[d]) \o <<>> = got[d] \o out[d] BY <5>3, ConcatEmptySeq
        <5>5. Of(d, file \o pipe) \o <<>> = Of(d, file \o pipe)
          <6>1. file \o pipe \in Seq(Bytes) BY <1>a, ConcatProperties
          <6>2. Of(d, file \o pipe) \in Seq(Bytes) BY <6>1, OfType
          <6> QED BY <6>2, ConcatEmptySeq
        <5>6. Of(d, file \o pipe) = got[d] \o out[d] BY <4>0, <5>1, <5>4, <5>5
        <5> QED BY <2>1, <3>1, <5>2, <5>6
      <4> QED BY <4>1, <4>2
    <3>6. StoredIsEchoed' BY <2>1, <3>5 DEF StoredIsEchoed
    <3> QED BY <3>3, <3>4, <3>6
  <2>3. CASE Write(c)
    <3>1. /\ pc[c] = "write" /\ UNCHANGED <<in, tostore, pipe>>
          /\ out' = [out EXCEPT ![c] = @ \o First(buf[c], Fits(c, buf[c]))]
          /\ buf' = [buf EXCEPT ![c] = Rest(@, Fits(c, @))]
          /\ pc' = [pc EXCEPT ![c] = IF Fits(c, buf[c]) < Len(buf[c]) THEN "write"
                             ELSE IF server = "echo_storeserv" THEN "store" ELSE "read"]
      BY <2>3 DEF Write, Put, storing
    <3>2. OwnBytes' BY <3>1 DEF OwnBytes
    <3>3. Holding' BY <1>a, <2>1, <3>1 DEF Holding
    <3>4. \A d \in Conns : got'[d] \o out'[d] \o buf'[d] = got[d] \o out[d] \o buf[d]
      <4>1. out'[c] = out[c] \o First(buf[c], Fits(c, buf[c]))
            /\ buf'[c] = Rest(buf[c], Fits(c, buf[c]))
        BY <1>a, <3>1
      <4>2. \A d \in Conns \ {c} : out'[d] = out[d] /\ buf'[d] = buf[d] BY <1>a, <3>1
      <4>3. got'[c] \o out'[c] \o buf'[c] = got[c] \o out[c] \o buf[c]
        BY <2>1, <4>1, WriteMoves
      <4> QED BY <2>1, <4>2, <4>3
    <3>5. StoredIsEchoed' BY <2>1, <3>1, <3>4 DEF StoredIsEchoed
    <3> QED BY <3>2, <3>3, <3>5
  <2>4. CASE Store(c)
    <3>1. /\ pc[c] = "store" /\ pipe' = pipe \o tostore[c]
          /\ tostore' = [tostore EXCEPT ![c] = <<>>] /\ pc' = [pc EXCEPT ![c] = "read"]
          /\ UNCHANGED <<in, out, buf>>
      BY <2>4 DEF Store, sockets
    <3>2. <<>> \in Seq({c} \X Nat) BY EmptySeq
    <3>3. OwnBytes' BY <1>a, <3>1, <3>2 DEF OwnBytes
    <3>4. Holding' BY <1>a, <2>1, <3>1 DEF Holding
    <3>5. file' \o pipe' = (file \o pipe) \o tostore[c]
      <4>1. PICK x \in Seq(Bytes), y \in Seq(Bytes), z \in Seq(Bytes) :
              x = file /\ y = pipe /\ z = tostore[c]
        BY <1>a
      <4>2. (x \o y) \o z = x \o (y \o z) BY ConcatAssociative
      <4> QED BY <2>1, <3>1, <4>1, <4>2
    <3>6. file \o pipe \in Seq(Bytes) BY <1>a, ConcatProperties
    <3>7. ASSUME NEW d \in Conns PROVE Of(d, file' \o pipe') \o tostore'[d] = Of(d, file \o pipe) \o tostore[d]
      <4>1. PICK t \in Seq({c} \X Nat) : t = tostore[c] BY DEF OwnBytes
      <4>2. Of(d, (file \o pipe) \o t) = IF d = c THEN Of(d, file \o pipe) \o t ELSE Of(d, file \o pipe)
        BY <3>6, OfConcat
      <4>3. CASE d # c
        <5>1. tostore'[d] = tostore[d] BY <1>a, <3>1, <4>3
        <5> QED BY <3>5, <4>1, <4>2, <4>3, <5>1
      <4>4. CASE d = c
        <5>1. tostore'[d] = <<>> BY <1>a, <3>1, <4>4
        <5>2. Of(d, file \o pipe) \o t \in Seq(Bytes)
          <6>1. t \in Seq(Bytes) BY <1>a, <4>1
          <6>2. Of(d, file \o pipe) \in Seq(Bytes) BY <3>6, OfType
          <6> QED BY <6>1, <6>2, ConcatProperties
        <5>3. (Of(d, file \o pipe) \o t) \o <<>> = Of(d, file \o pipe) \o t BY <5>2, ConcatEmptySeq
        <5> QED BY <3>5, <4>1, <4>2, <4>4, <5>1, <5>3
      <4> QED BY <4>3, <4>4
    <3>8. StoredIsEchoed' BY <2>1, <3>1, <3>7 DEF StoredIsEchoed
    <3> QED BY <3>3, <3>4, <3>8
  <2>5. CASE (Read(c) /\ AtEnd(c)) \/ CloseChild(c) \/ Exit(c)
    <3>1. /\ UNCHANGED <<in, out, buf, tostore, pipe>> /\ pc[c] \notin {"write", "store"}
          /\ \A d \in Conns \ {c} : pc'[d] = pc[d]
      BY <1>a, <2>5 DEF Read, CloseChild, Exit, sockets, storing
    <3>2. OwnBytes' BY <3>1 DEF OwnBytes
    <3>3. Holding' BY <2>1, <3>1 DEF Holding
    <3> QED BY <1>b, <2>1, <3>1, <3>2, <3>3
  <2> QED BY <1>4, <2>2, <2>3, <2>4, <2>5 DEF Process
<1>5. CASE WriterReads /\ UNCHANGED loop
  <2>1. /\ UNCHANGED <<server, in, got, out>> /\ UNCHANGED <<pc, buf, tostore, step>>
        /\ file' = file \o First(pipe, Least(Buf, Len(pipe)))
        /\ pipe' = Rest(pipe, Least(Buf, Len(pipe)))
    BY <1>5 DEF WriterReads, sockets, clients, children, loop
  <2>2. file' \o pipe' = file \o pipe
    <3>1. PICK n \in 0 .. Len(pipe) : n = Least(Buf, Len(pipe))
      <4>1. Len(pipe) \in Nat /\ Buf \in Nat BY <1>a, LenProperties, BoundsAssumption
      <4> QED BY <4>1, LeastIs
    <3>2. PICK x \in Seq(Bytes), y \in Seq(Bytes) :
            x = First(pipe, n) /\ y = Rest(pipe, n) /\ x \o y = pipe
      BY <1>a, <3>1, Whole
    <3>3. (file \o x) \o y = file \o (x \o y) BY <1>a, ConcatAssociative
    <3> QED BY <2>1, <3>1, <3>2, <3>3
  <2>3. StoredIsEchoed' BY <2>1, <2>2 DEF StoredIsEchoed
  <2>4. OwnBytes' BY <2>1 DEF OwnBytes
  <2> QED BY <1>c, <2>1, <2>3, <2>4
<1>6. CASE (WriterExits \/ Handler) /\ UNCHANGED loop
  <2>1. UNCHANGED <<server, in, got, out>> /\ UNCHANGED <<pc, buf, tostore, step>>
        /\ UNCHANGED <<file, pipe>>
    BY <1>6 DEF WriterExits, Handler, Signalled, Reap, sockets, clients, children, storing, loop
  <2>2. OwnBytes' BY <2>1 DEF OwnBytes
  <2> QED BY <1>b, <1>c, <2>1, <2>2
<1>7. CASE Loop /\ UNCHANGED forking
  <2>1. step # "none" /\ UNCHANGED <<server, tostore>>
    BY <1>7 DEF Loop, Wait, NextEvent, AcceptEvent, ClientEvent, ReadEvent, CloseEvent, NothingLeft,
                WriteEvent, WriteNow, sockets, children
  <2>2. server \notin ForkServers /\ server # "echo_storeserv" BY <2>1 DEF Holding, ForkServers
  <2>3. Holding' /\ StoredIsEchoed' BY <2>1, <2>2 DEF Holding, StoredIsEchoed
  <2>4. OwnBytes'
    <3>1. CASE ReadEvent
      <4>1. fd \in Conns BY <3>1 DEF ReadEvent, Places, Looping
      <4>2. PICK c \in Conns : c = fd BY <4>1
      <4>3. in' = [in EXCEPT ![c] = Rest(in[c], Least(Buf, Len(in[c])))] BY <3>1, <4>2 DEF ReadEvent, Take
      <4>4. Rest(in[c], Least(Buf, Len(in[c]))) \in Seq({c} \X Nat) BY OwnTaken
      <4> QED BY <1>a, <2>1, <4>3, <4>4 DEF OwnBytes
    <3>2. CASE ~ReadEvent
      <4>1. UNCHANGED in
        BY <1>7, <3>2 DEF Loop, Wait, NextEvent, AcceptEvent, ClientEvent, CloseEvent, NothingLeft,
                          WriteEvent, WriteNow, sockets
      <4> QED BY <2>1, <4>1 DEF OwnBytes
    <3> QED BY <3>1, <3>2
  <2> QED BY <2>3, <2>4
<1>8. CASE UNCHANGED vars
  <2>1. UNCHANGED <<server, in, got, out>> /\ UNCHANGED <<pc, buf, tostore, step>>
        /\ UNCHANGED <<file, pipe>>
    BY <1>8 DEF vars, sockets, clients, children, storing, loop
  <2>2. OwnBytes' BY <2>1 DEF OwnBytes
  <2> QED BY <1>b, <1>c, <2>1, <2>2
<1> QED BY <1>1, <1>2, <1>3, <1>4, <1>5, <1>6, <1>7, <1>8
        DEF Next, ClientStep, Client, ProcessStep, ParentStep, WriterStep, WriterProcess,
            HandlerStep, LoopStep
-----------------------------------------------------------------------------
(* The inductive invariant.                                                *)
IInv == TypeOK /\ Places /\ Ended /\ CountOfZombies /\ Flow

(* The servers start as the service does.                                  *)
LEMMA Starts ==
  ASSUME Init
  PROVE  IInv /\ Service!ServiceInit
<1> USE DEF Init, SocketsInit, ForkInit, EventInit
<1>1. <<>> \in Seq(Bytes) /\ <<>> \in Seq(Conns) /\ Len(<<>>) = 0 BY EmptySeq
<1>2. SocketsOK BY <1>1, BoundsAssumption DEF SocketsOK
<1>3. ParentOK /\ ChildrenOK BY <1>1 DEF ParentOK, ChildrenOK
<1>4. StoringOK BY <1>1, PipeAssumption DEF StoringOK
<1>5. ReapingOK /\ LoopOK BY <1>1 DEF ReapingOK, LoopOK
<1>6. Queue BY <1>1 DEF Queue
<1>7. Between /\ Processes /\ Unserved /\ Looping BY DEF Between, Processes, Unserved, Looping
<1>8. OneKind BY DEF OneKind, ForkServers, EventServers
<1>9. Writes BY PipeAssumption DEF Writes
<1>10. Cardinality(zombies) = 0 /\ IsFiniteSet(zombies) BY FS_EmptySet
<1>11. Ended /\ CountOfZombies BY <1>10 DEF Ended, CountOfZombies
<1>12. Flow
  <2>1. ASSUME NEW c \in Conns PROVE Flows(c)
    <3>1. Run(c, 0, 0) = <<>> BY EmptyRun
    <3>2. Along(c, 0, 0, 0) BY <3>1 DEF Along, Pend
    <3> QED BY <3>2 DEF Flows
  <2> QED BY <2>1 DEF Flow
<1>13. Service!ServiceInit
  <2>1. <<>> \o <<>> = <<>> BY <1>1, ConcatEmptySeq
  <2> QED BY <2>1 DEF Service!ServiceInit
<1> QED BY <1>2, <1>3, <1>4, <1>5, <1>6, <1>7, <1>8, <1>9, <1>11, <1>12, <1>13
        DEF IInv, TypeOK, Places

(* The inductive invariant holds of every run of every server, for any     *)
(* number of clients and any sizes of buffer, socket and pipe.             *)
THEOREM AlwaysIInv == Spec => []IInv
<1>1. Init => IInv BY Starts
<1>2. IInv /\ [Next]_vars => IInv'
  <2> SUFFICES ASSUME IInv, [Next]_vars PROVE IInv' OBVIOUS
  <2>1. TypeOK' BY TypeInductive DEF IInv, Places
  <2>2. Places' BY PlacesInductive DEF IInv
  <2>3. Ended' /\ CountOfZombies' BY ReapingInductive DEF IInv
  <2>4. Flow' BY FlowInductive DEF IInv
  <2> QED BY <2>1, <2>2, <2>3, <2>4 DEF IInv
<1> QED BY <1>1, <1>2, PTL DEF Spec

(* Every variable stays in its type, and no socket and no pipe holds more  *)
(* than it has room for.                                                   *)
THEOREM TypeCorrect == Spec => []TypeOK
<1>1. IInv => TypeOK BY DEF IInv
<1> QED BY <1>1, AlwaysIInv, PTL

(* read_childproc leaves at most one zombie for each child that ended      *)
(* while the signal of another was pending.                                *)
THEOREM AlwaysMerged == Spec => []ZombiesAreMerged
<1>1. ASSUME NEW n, NEW s \in Nat, n = s PROVE n <= s BY <1>1
<1>2. IInv => ZombiesAreMerged
  <2> SUFFICES ASSUME IInv PROVE ZombiesAreMerged OBVIOUS
  <2>1. merged + (IF sigchld THEN 1 ELSE 0) + (IF handler THEN 1 ELSE 0) \in Nat
    BY DEF IInv, TypeOK, ReapingOK
  <2> QED BY <1>1, <2>1 DEF IInv, CountOfZombies, ZombiesAreMerged
<1> QED BY <1>2, AlwaysIInv, PTL

(* Every one of the six servers implements the echo service: a client gets *)
(* its own bytes, in order, and is hung up on after the last of them,      *)
(* unless the server has dropped some or could not fork for it.            *)
THEOREM EchoIsService == Spec => ImplementsService
<1>1. Init => Service!ServiceInit BY Starts
<1>2. IInv /\ [Next]_vars => [Service!ServiceNext]_Service!service
  BY FlowInductive DEF IInv
<1> QED BY <1>1, <1>2, AlwaysIInv, PTL DEF Spec, ImplementsService, Service!ServiceSpec

(* In echo_storeserv, what is in the file and in the pipe of a client is   *)
(* what has been echoed to it, in order and without a gap, up to the read  *)
(* that its child is working on; with any number of children that write to *)
(* the one pipe in any order, and also after its reader has ended.         *)
THEOREM AlwaysStoredIsEchoed == Spec => []StoredIsEchoed
<1>1. Init => StoredInv
  <2> SUFFICES ASSUME Init PROVE StoredInv OBVIOUS
  <2> USE DEF Init, SocketsInit, ForkInit, EventInit
  <2>1. OwnBytes
    <3>1. \A c \in Conns : <<>> \in Seq({c} \X Nat) BY EmptySeq
    <3> QED BY <3>1 DEF OwnBytes
  <2>2. Holding BY DEF Holding, ForkServers, EventServers
  <2>3. ASSUME NEW c \in Conns
        PROVE  Of(c, file \o pipe) \o tostore[c] = got[c] \o out[c] \o buf[c]
    <3>1. <<>> \in Seq(Bytes) /\ Len(<<>>) = 0 BY EmptySeq
    <3>2. <<>> \o <<>> = <<>> BY <3>1, ConcatEmptySeq
    <3>3. PICK f : Picks(f, c, <<>>, 0) BY PicksExists
    <3>4. f[0] = <<>> BY <3>3, PicksAt
    <3>5. Of(c, <<>>) = <<>> BY <3>1, <3>3, <3>4, OfIs
    <3> QED BY <3>2, <3>5
  <2> QED BY <2>1, <2>2, <2>3 DEF StoredInv, StoredIsEchoed
<1>2. IInv /\ StoredInv /\ [Next]_vars => StoredInv' BY StoredInductive DEF IInv
<1>3. StoredInv => StoredIsEchoed BY DEF StoredInv
<1> QED BY <1>1, <1>2, <1>3, AlwaysIInv, PTL DEF Spec
=============================================================================
