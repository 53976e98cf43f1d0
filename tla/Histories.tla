------------------------------- MODULE Histories -------------------------------
(***************************************************************************)
(* What the events in a queue will have told their reader once they are    *)
(* delivered.  A reader in some state hears the event e and goes on to     *)
(* another state: the triple <<e, state, next state>> is then in the       *)
(* relation R, and an event that must not be heard in a state has no such  *)
(* triple.  Leads says that a queue is heard in a proper way, from a state *)
(* of the reader to the one in which it will have caught up with the       *)
(* writer; the lemmas follow it through what a writer and a reader do.     *)
(***************************************************************************)
EXTENDS Integers, Sequences, WellFoundedInduction, TLAPS

Leads(R, S, q, a, z) ==
    \E f \in [0..Len(q) -> S] :
       /\ f[0] = a /\ f[Len(q)] = z
       /\ \A i \in 1..Len(q) : <<q[i], f[i - 1], f[i]>> \in R

\* With nothing queued, the reader knows what the writer does.
LEMMA LeadsNowhere ==
  ASSUME NEW R, NEW S, NEW a \in S, NEW z
  PROVE  Leads(R, S, <<>>, a, z) <=> a = z
<1>1. ASSUME a = z PROVE Leads(R, S, <<>>, a, z)
  <2> DEFINE f == [i \in 0..Len(<<>>) |-> a]
  <2>1. f \in [0..Len(<<>>) -> S] /\ f[0] = a /\ f[Len(<<>>)] = z
    BY <1>1
  <2>2. \A i \in 1..Len(<<>>) : <<(<<>>)[i], f[i - 1], f[i]>> \in R
    OBVIOUS
  <2> HIDE DEF f
  <2> QED BY <2>1, <2>2 DEF Leads
<1>2. ASSUME Leads(R, S, <<>>, a, z) PROVE a = z
  BY <1>2 DEF Leads
<1> QED BY <1>1, <1>2

\* One more event is written.
LEMMA LeadsOn ==
  ASSUME NEW R, NEW S, NEW E, NEW q \in Seq(E), NEW e \in E, NEW a \in S, NEW y \in S, NEW z \in S,
         Leads(R, S, q, a, y), <<e, y, z>> \in R
  PROVE  Leads(R, S, Append(q, e), a, z)
<1> DEFINE n == Len(q)
           p == Append(q, e)
<1>0. n \in Nat /\ Len(p) = n + 1 /\ p[n + 1] = e /\ \A i \in 1..n : p[i] = q[i]
  OBVIOUS
<1>1. PICK f \in [0..n -> S] : /\ f[0] = a /\ f[n] = y
                               /\ \A i \in 1..n : <<q[i], f[i - 1], f[i]>> \in R
  BY DEF Leads
<1> DEFINE g == [i \in 0..(n + 1) |-> IF i = n + 1 THEN z ELSE f[i]]
<1>2. g \in [0..Len(p) -> S]
  BY <1>0
<1>3. g[0] = a /\ g[Len(p)] = z
  BY <1>0, <1>1
<1>4. ASSUME NEW i \in 1..Len(p) PROVE <<p[i], g[i - 1], g[i]>> \in R
  <2>1. CASE i = n + 1
    BY <1>0, <1>1, <2>1
  <2>2. CASE i # n + 1
    <3>1. i \in 1..n /\ i - 1 \in 0..(n + 1) /\ i \in 0..(n + 1) /\ i - 1 # n + 1
      BY <1>0, <2>2
    <3>2. g[i - 1] = f[i - 1] /\ g[i] = f[i] /\ p[i] = q[i]
      BY <1>0, <2>2, <3>1
    <3> QED BY <1>1, <3>1, <3>2
  <2> QED BY <2>1, <2>2
<1> HIDE DEF g
<1> QED BY <1>2, <1>3, <1>4 DEF Leads

\* The reader takes the first event.
LEMMA LeadsAway ==
  ASSUME NEW R, NEW S, NEW E, NEW q \in Seq(E), q # <<>>, NEW a, NEW z, Leads(R, S, q, a, z)
  PROVE  \E b \in S : <<Head(q), a, b>> \in R /\ Leads(R, S, Tail(q), b, z)
<1> DEFINE n == Len(q)
           p == Tail(q)
<1>0. n \in Nat \ {0} /\ Len(p) = n - 1 /\ Head(q) = q[1] /\ \A i \in 1..(n - 1) : p[i] = q[i + 1]
  OBVIOUS
<1>1. PICK f \in [0..n -> S] : /\ f[0] = a /\ f[n] = z
                               /\ \A i \in 1..n : <<q[i], f[i - 1], f[i]>> \in R
  BY DEF Leads
<1> DEFINE g == [i \in 0..(n - 1) |-> f[i + 1]]
<1>2. g \in [0..Len(p) -> S] /\ g[0] = f[1] /\ g[Len(p)] = z /\ f[1] \in S
  BY <1>0, <1>1
<1>3. ASSUME NEW i \in 1..Len(p) PROVE <<p[i], g[i - 1], g[i]>> \in R
  <2>1. i + 1 \in 1..n /\ i - 1 \in 0..(n - 1) /\ i \in 0..(n - 1)
    BY <1>0
  <2>2. g[i - 1] = f[i] /\ g[i] = f[i + 1] /\ p[i] = q[i + 1] /\ (i + 1) - 1 = i
    BY <1>0, <2>1
  <2> QED BY <1>1, <2>1, <2>2
<1>4. <<Head(q), a, f[1]>> \in R
  BY <1>0, <1>1
<1> HIDE DEF g
<1> QED BY <1>2, <1>3, <1>4 DEF Leads

\* Several events are written, one after the other.
LEMMA LeadsFar ==
  ASSUME NEW R, NEW S, NEW E, NEW q \in Seq(E), NEW s \in Seq(E), NEW a, NEW y, NEW z,
         Leads(R, S, q, a, y), Leads(R, S, s, y, z)
  PROVE  Leads(R, S, q \o s, a, z)
<1> DEFINE n == Len(q)
           m == Len(s)
           p == q \o s
<1>0. /\ n \in Nat /\ m \in Nat /\ Len(p) = n + m
      /\ \A i \in 1..n : p[i] = q[i]
      /\ \A i \in 1..m : p[n + i] = s[i]
  OBVIOUS
<1>1. PICK f \in [0..n -> S] : /\ f[0] = a /\ f[n] = y
                               /\ \A i \in 1..n : <<q[i], f[i - 1], f[i]>> \in R
  BY DEF Leads
<1>2. PICK g \in [0..m -> S] : /\ g[0] = y /\ g[m] = z
                               /\ \A i \in 1..m : <<s[i], g[i - 1], g[i]>> \in R
  BY DEF Leads
<1> HIDE DEF n, m, p
<1> DEFINE h == [i \in 0..(n + m) |-> IF i <= n THEN f[i] ELSE g[i - n]]
<1>3. h \in [0..Len(p) -> S]
  <2>1. ASSUME NEW i \in 0..(n + m) PROVE h[i] \in S
    <3>1. CASE i <= n
      BY <1>0, <1>1, <3>1
    <3>2. CASE ~(i <= n)
      <4>1. i - n \in 0..m /\ h[i] = g[i - n]
        BY <1>0, <3>2
      <4> QED BY <1>2, <4>1
    <3> QED BY <3>1, <3>2
  <2> QED BY <1>0, <2>1
<1>4. h[0] = a /\ h[Len(p)] = z
  BY <1>0, <1>1, <1>2
<1>5. ASSUME NEW i \in 1..Len(p) PROVE <<p[i], h[i - 1], h[i]>> \in R
  <2>1. CASE i <= n
    <3>1. i \in 1..n /\ i - 1 \in 0..(n + m) /\ i \in 0..(n + m) /\ i - 1 <= n
      BY <1>0, <2>1
    <3> QED BY <1>0, <1>1, <2>1, <3>1
  <2>2. CASE i = n + 1
    <3>1. i \in 0..(n + m) /\ i - 1 = n /\ n \in 0..(n + m) /\ ~(i <= n) /\ i - n = 1 /\ 1 \in 1..m
      BY <1>0, <2>2
    <3>2. h[i - 1] = f[n] /\ h[i] = g[1]
      BY <1>0, <3>1
    <3>3. p[i] = s[1]
      <4>1. p[n + 1] = s[1]
        BY <1>0, <3>1
      <4> QED BY <2>2, <4>1
    <3>4. <<s[1], g[0], g[1]>> \in R
      <4>1. <<s[1], g[1 - 1], g[1]>> \in R
        BY <1>2, <3>1
      <4> QED BY <4>1
    <3> QED BY <1>1, <1>2, <3>2, <3>3, <3>4
  <2>3. CASE i > n + 1
    <3> DEFINE j == i - n
    <3>1. /\ i \in 0..(n + m) /\ i - 1 \in 0..(n + m) /\ ~(i <= n) /\ ~(i - 1 <= n)
          /\ j \in 1..m /\ (i - 1) - n = j - 1 /\ n + j = i
      BY <1>0, <2>3
    <3>2. h[i - 1] = g[j - 1] /\ h[i] = g[j] /\ p[i] = s[j]
      BY <1>0, <3>1
    <3> QED BY <1>2, <3>1, <3>2
  <2> QED BY <1>0, <2>1, <2>2, <2>3
<1> HIDE DEF h
<1>6. Leads(R, S, p, a, z)
  BY <1>3, <1>4, <1>5 DEF Leads
<1> QED BY <1>6 DEF p

\* Events that tell the reader nothing.
LEMMA LeadsStill ==
  ASSUME NEW R, NEW S, NEW E, NEW q \in Seq(E), NEW a \in S,
         \A i \in 1..Len(q) : <<q[i], a, a>> \in R
  PROVE  Leads(R, S, q, a, a)
<1> DEFINE f == [i \in 0..Len(q) |-> a]
<1>1. f \in [0..Len(q) -> S] /\ f[0] = a /\ f[Len(q)] = a
  OBVIOUS
<1>2. \A i \in 1..Len(q) : <<q[i], f[i - 1], f[i]>> \in R
  OBVIOUS
<1> HIDE DEF f
<1> QED BY <1>1, <1>2 DEF Leads

\* A single event.
LEMMA LeadsOnce ==
  ASSUME NEW R, NEW S, NEW e, NEW a \in S, NEW z \in S, <<e, a, z>> \in R
  PROVE  Leads(R, S, <<e>>, a, z)
<1>1. Leads(R, S, <<>>, a, a)
  BY LeadsNowhere
<1>2. <<>> \in Seq({e}) /\ Append(<<>>, e) = <<e>>
  OBVIOUS
<1> DEFINE E == {e}
<1>3. e \in E
  OBVIOUS
<1> HIDE DEF E
<1>4. Leads(R, S, Append(<<>>, e), a, z)
  BY <1>1, <1>2, <1>3, LeadsOn DEF E
<1> QED BY <1>2, <1>4

\* A set of natural numbers has a least element.
LEMMA LeastNumber ==
  ASSUME NEW M \in SUBSET Nat, M # {}
  PROVE  \E n \in M : \A m \in M : ~(m < n)
<1>1. PICK n \in M : \A m \in M : ~(<<m, n>> \in OpToRel(<, Nat))
  BY NatLessThanWellFounded, WFMin
<1>2. \A m \in M : m < n => <<m, n>> \in OpToRel(<, Nat)
  BY DEF OpToRel
<1> QED BY <1>1, <1>2

\* If the reader ends up where it was not, an event in the queue has taken it there.
LEMMA LeadsChange ==
  ASSUME NEW R, NEW S, NEW q, Len(q) \in Nat, NEW a, NEW z, Leads(R, S, q, a, z),
         NEW T, a \in T, z \notin T, NEW K,
         \A e, y, x : <<e, y, x>> \in R /\ y \in T /\ x \notin T => e \in K
  PROVE  \E i \in 1..Len(q) : q[i] \in K
<1>1. PICK f \in [0..Len(q) -> S] :
        /\ f[0] = a /\ f[Len(q)] = z
        /\ \A i \in 1..Len(q) : <<q[i], f[i - 1], f[i]>> \in R
  BY DEF Leads
<1> DEFINE M == {i \in 0..Len(q) : f[i] \notin T}
<1>2. M \in SUBSET Nat /\ Len(q) \in M
  BY <1>1
<1>3. PICK n \in M : \A m \in M : ~(m < n)
  BY <1>2, LeastNumber
<1>4. n \in 1..Len(q) /\ n - 1 \in 0..Len(q) /\ n - 1 < n
  BY <1>1, <1>3
<1>5. f[n - 1] \in T /\ f[n] \notin T
  BY <1>3, <1>4
<1> QED BY <1>1, <1>4, <1>5
=============================================================================
