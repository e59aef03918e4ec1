----------------------------- MODULE Induction ------------------------------
(***************************************************************************)
(* Induction and recursion over the natural numbers, for the proofs of the *)
(* other modules.  A property is given as the set of numbers that have it, *)
(* and the step of a recursion as a function, so that each lemma speaks    *)
(* about sets only.                                                        *)
(***************************************************************************)
EXTENDS Integers, Maps, WellFoundedInduction, TLAPS

\* A set of natural numbers that is not empty has a least element.
LEMMA LeastNumber ==
    ASSUME NEW T \in SUBSET Nat, T # {}
    PROVE  \E x \in T : \A y \in T : x <= y
<1> DEFINE R == OpToRel(<, Nat)
<1>1. IsWellFoundedOn(R, Nat)
  BY NatLessThanWellFounded
<1>2. \A x, y \in Nat : x < y => <<x, y>> \in R
  BY DEF OpToRel
<1> HIDE DEF R
<1>3. PICK x \in T : \A y \in T : ~ (<<y, x>> \in R)
  BY <1>1, WFMin
<1>4. \A y \in T : ~(y < x)
  BY <1>2, <1>3
<1>5. \A y \in T : y \in Nat /\ x \in Nat
  OBVIOUS
<1> QED BY <1>4, <1>5

\* What holds of 0, and of n + 1 when it holds of n, holds of every number.
LEMMA Induct ==
    ASSUME NEW S, 0 \in S, \A n \in Nat : n \in S => n + 1 \in S
    PROVE  Nat \subseteq S
<1> SUFFICES ASSUME ~(Nat \subseteq S) PROVE FALSE
  OBVIOUS
<1> DEFINE T == Nat \ S
<1>1. PICK x \in T : \A y \in T : x <= y
  <2> T \in SUBSET Nat /\ T # {}
    OBVIOUS
  <2> HIDE DEF T
  <2> QED BY LeastNumber
<1>2. x # 0 /\ x - 1 \in Nat /\ x - 1 \notin T
  BY <1>1
<1>3. x - 1 \in S
  BY <1>2
<1> QED BY <1>2, <1>3

\* The functions that follow the recursion up to n.
Prefixes(V, base, step, n) ==
    {g \in [0..n -> V] :
        g[0] = base /\ \A i \in 0..(n - 1) : g[i + 1] = step[<<i, g[i]>>]}

\* Two of them agree where both are defined.
LEMMA PrefixesAgree ==
    ASSUME NEW V, NEW base \in V, NEW step \in [Nat \X V -> V],
           NEW m \in Nat, NEW n \in Nat,
           NEW g \in Prefixes(V, base, step, m), NEW h \in Prefixes(V, base, step, n)
    PROVE  \A i \in Nat : i <= m /\ i <= n => g[i] = h[i]
<1> DEFINE S == {i \in Nat : i <= m /\ i <= n => g[i] = h[i]}
<1>1. 0 \in S
  BY DEF Prefixes
<1>2. ASSUME NEW i \in Nat, i \in S PROVE i + 1 \in S
  <2> SUFFICES ASSUME i + 1 <= m, i + 1 <= n PROVE g[i + 1] = h[i + 1]
    OBVIOUS
  <2>1. g[i] = h[i]
    BY <1>2
  <2>2. i \in 0..(m - 1) /\ i \in 0..(n - 1)
    OBVIOUS
  <2> QED BY <2>1, <2>2 DEF Prefixes
<1> HIDE DEF S
<1>3. Nat \subseteq S
  BY <1>1, <1>2, Induct
<1> QED BY <1>3 DEF S

\* There is one for every n.
LEMMA PrefixesExist ==
    ASSUME NEW V, NEW base \in V, NEW step \in [Nat \X V -> V]
    PROVE  \A n \in Nat : Prefixes(V, base, step, n) # {}
<1> DEFINE S == {n \in Nat : Prefixes(V, base, step, n) # {}}
<1>1. 0 \in S
  <2>1. [i \in 0..0 |-> base] \in Prefixes(V, base, step, 0)
    BY DEF Prefixes
  <2> QED BY <2>1
<1>2. ASSUME NEW n \in Nat, n \in S PROVE n + 1 \in S
  <2>1. PICK g : g \in Prefixes(V, base, step, n)
    BY <1>2
  <2> DEFINE h == [i \in 0..(n + 1) |-> IF i <= n THEN g[i] ELSE step[<<n, g[n]>>]]
  <2>2. g \in [0..n -> V] /\ g[0] = base
        /\ \A i \in 0..(n - 1) : g[i + 1] = step[<<i, g[i]>>]
    BY <2>1 DEF Prefixes
  <2>3. step[<<n, g[n]>>] \in V
    BY <2>2
  <2>4. h \in [0..(n + 1) -> V] /\ h[0] = base
    BY <2>2, <2>3
  <2>5. ASSUME NEW i \in 0..n PROVE h[i + 1] = step[<<i, h[i]>>]
    <3>1. CASE i = n
      BY <3>1
    <3>2. CASE i # n
      <4>1. i \in 0..(n - 1) /\ i + 1 <= n /\ i + 1 \in 0..(n + 1)
        BY <3>2
      <4> QED BY <2>2, <4>1
    <3> QED BY <3>1, <3>2
  <2>6. (n + 1) - 1 = n
    OBVIOUS
  <2> HIDE DEF h
  <2>7. h \in Prefixes(V, base, step, n + 1)
    BY <2>4, <2>5, <2>6 DEF Prefixes
  <2> QED BY <2>7
<1> HIDE DEF S
<1>3. Nat \subseteq S
  BY <1>1, <1>2, Induct
<1> QED BY <1>3 DEF S

\* f follows the recursion everywhere.
Follows(f, V, base, step) ==
    /\ f \in [Nat -> V]
    /\ f[0] = base
    /\ \A n \in Nat : f[n + 1] = step[<<n, f[n]>>]

\* A recursion over the natural numbers defines a function.
LEMMA Recursion ==
    ASSUME NEW V, NEW base \in V, NEW step \in [Nat \X V -> V]
    PROVE  \E f : Follows(f, V, base, step)
<1> DEFINE G(n) == Prefixes(V, base, step, n)
           c(n) == CHOOSE g : g \in G(n)
           f == [n \in Nat |-> c(n)[n]]
<1>1. \A n \in Nat : c(n) \in G(n)
  BY PrefixesExist
<1> HIDE DEF c
<1>2. \A n \in Nat : c(n) \in [0..n -> V] /\ c(n)[0] = base
  BY <1>1 DEF Prefixes
<1>3. f \in [Nat -> V] /\ f[0] = base
  BY <1>2
<1>4. ASSUME NEW n \in Nat PROVE f[n + 1] = step[<<n, f[n]>>]
  <2>1. c(n)[n] = c(n + 1)[n]
    <3>1. /\ n + 1 \in Nat /\ c(n) \in Prefixes(V, base, step, n)
          /\ c(n + 1) \in Prefixes(V, base, step, n + 1)
      BY <1>1
    <3>2. \A i \in Nat : i <= n /\ i <= n + 1 => c(n)[i] = c(n + 1)[i]
      BY <3>1, PrefixesAgree
    <3> QED BY <3>2
  <2>2. c(n + 1)[n + 1] = step[<<n, c(n + 1)[n]>>]
    BY <1>1 DEF Prefixes
  <2> QED BY <2>1, <2>2
<1> HIDE DEF f
<1>5. Follows(f, V, base, step)
  BY <1>3, <1>4 DEF Follows
<1> QED BY <1>5

\* The same up to some number, as a function definition in TLA+ states it.
FollowsTo(f, n, base, step) ==
    f = [i \in 0..n |-> IF i = 0 THEN base ELSE step[<<i, f[i - 1]>>]]

\* A recursion of finitely many steps has a solution.
LEMMA FiniteRecursion ==
    ASSUME NEW V, NEW base \in V, NEW n \in Nat, NEW step \in [(1..n) \X V -> V]
    PROVE  \E f \in [0..n -> V] : FollowsTo(f, n, base, step)
<1> DEFINE total == [x \in Nat \X V |-> IF x[1] < n THEN step[<<x[1] + 1, x[2]>>] ELSE x[2]]
<1>1. total \in [Nat \X V -> V]
  <2>1. ASSUME NEW i \in Nat, NEW v \in V PROVE total[<<i, v>>] \in V
    <3>1. CASE i < n
      <4>1. <<i + 1, v>> \in (1..n) \X V
        BY <3>1
      <4> QED BY <3>1, <4>1
    <3> QED BY <3>1
  <2> QED BY <2>1
<1>2. ASSUME NEW i \in Nat, NEW v \in V, i < n PROVE total[<<i, v>>] = step[<<i + 1, v>>]
  BY <1>2
<1> HIDE DEF total
<1>3. PICK g \in [Nat -> V] : g[0] = base /\ \A i \in Nat : g[i + 1] = total[<<i, g[i]>>]
  <2>1. PICK g : Follows(g, V, base, total)
    BY <1>1, Recursion
  <2> QED BY <2>1 DEF Follows
<1> DEFINE f == [i \in 0..n |-> g[i]]
<1>4. ASSUME NEW i \in 0..n, i # 0 PROVE f[i] = step[<<i, f[i - 1]>>]
  <2>1. i - 1 \in Nat /\ (i - 1) + 1 = i /\ i - 1 \in 0..n /\ i - 1 < n
    BY <1>4
  <2>2. g[i] = total[<<i - 1, g[i - 1]>>] /\ g[i - 1] \in V
    BY <1>3, <2>1
  <2> QED BY <1>2, <2>1, <2>2
<1>5. f[0] = base /\ f \in [0..n -> V]
  BY <1>3
<1>6. FollowsTo(f, n, base, step)
  BY <1>4, <1>5 DEF FollowsTo
<1> HIDE DEF f
<1> QED BY <1>5, <1>6

\* f is a loop over S: it ends with out in D and goes on with next elsewhere.
Loops(f, S, D, out, next) == f = [s \in S |-> IF s \in D THEN out[s] ELSE f[next[s]]]

\* A loop that carries all its state defines a function, whether or not it
\* ends: a state from which it does not may be given any result.
LEMMA TailRecursion ==
    ASSUME NEW S, NEW D, NEW out, NEW next \in [S -> S]
    PROVE  \E f : Loops(f, S, D, out, next)
<1> DEFINE step == [x \in Nat \X S |-> next[x[2]]]
           It(s) == CHOOSE g : Follows(g, S, s, step)
           Ends(s) == {n \in Nat : It(s)[n] \in D}
           first(s) == CHOOSE n : n \in Ends(s) /\ \A m \in Ends(s) : n <= m
           f == [s \in S |-> IF Ends(s) = {} THEN 0 ELSE out[It(s)[first(s)]]]
<1>1. /\ step \in [Nat \X S -> S]
      /\ \A n \in Nat, s \in S : step[<<n, s>>] = next[s]
  OBVIOUS
<1> HIDE DEF step
<1>2. ASSUME NEW s \in S PROVE Follows(It(s), S, s, step)
  <2>1. \E g : Follows(g, S, s, step)
    BY <1>1, Recursion
  <2> QED BY <2>1
<1> HIDE DEF It
<1>3. \A s \in S : /\ It(s) \in [Nat -> S] /\ It(s)[0] = s
                   /\ \A n \in Nat : It(s)[n + 1] = next[It(s)[n]]
  <2> TAKE s \in S
  <2>1. /\ It(s) \in [Nat -> S] /\ It(s)[0] = s
        /\ \A n \in Nat : It(s)[n + 1] = step[<<n, It(s)[n]>>]
    BY <1>2, Zenon DEF Follows
  <2>2. ASSUME NEW n \in Nat PROVE It(s)[n + 1] = next[It(s)[n]]
    <3>1. It(s)[n] \in S
      BY <2>1
    <3>2. step[<<n, It(s)[n]>>] = next[It(s)[n]]
      BY <1>1, <3>1
    <3> QED BY <2>1, <3>2
  <2> QED BY <2>1, <2>2
<1>4. ASSUME NEW s \in S PROVE \A n \in Nat : It(next[s])[n] = It(s)[n + 1]
  <2> DEFINE T == {n \in Nat : It(next[s])[n] = It(s)[n + 1]}
  <2>1. 0 \in T
    <3>1. It(s)[0 + 1] = next[It(s)[0]] /\ next[s] \in S
      BY <1>3
    <3> QED BY <1>3, <3>1
  <2>2. ASSUME NEW n \in Nat, n \in T PROVE n + 1 \in T
    <3>1. next[s] \in S /\ n + 1 \in Nat
      OBVIOUS
    <3>2. It(next[s])[n + 1] = next[It(next[s])[n]]
      BY <1>3, <3>1
    <3>3. It(s)[(n + 1) + 1] = next[It(s)[n + 1]]
      BY <1>3, <3>1
    <3> QED BY <2>2, <3>2, <3>3
  <2> HIDE DEF T
  <2>3. Nat \subseteq T
    BY <2>1, <2>2, Induct
  <2> QED BY <2>3 DEF T
<1>5. ASSUME NEW s \in S, Ends(s) # {}
      PROVE  first(s) \in Ends(s) /\ \A m \in Ends(s) : first(s) <= m
  <2>1. \E n \in Ends(s) : \A m \in Ends(s) : n <= m
    <3>1. Ends(s) \in SUBSET Nat
      OBVIOUS
    <3> HIDE DEF Ends
    <3> QED BY <1>5, <3>1, LeastNumber
  <2> HIDE DEF Ends
  <2> QED BY <2>1
<1> HIDE DEF first
<1>6. ASSUME NEW s \in S, s \in D PROVE f[s] = out[s]
  <2>1. 0 \in Ends(s)
    BY <1>3, <1>6
  <2>2. first(s) = 0
    BY <1>5, <2>1
  <2> QED BY <1>3, <2>1, <2>2
<1>7. ASSUME NEW s \in S, s \notin D PROVE f[s] = f[next[s]]
  <2>0. PICK t \in S : t = next[s]
    OBVIOUS
  <2>1. \A n \in Nat : n \in Ends(t) <=> n + 1 \in Ends(s)
    BY <1>4, <2>0
  <2>2. 0 \notin Ends(s)
    BY <1>3, <1>7
  <2>3. \A n \in Ends(s) : n - 1 \in Nat /\ n - 1 \in Ends(t)
    BY <2>1, <2>2
  <2>4. CASE Ends(s) = {}
    <3>1. Ends(t) = {}
      BY <2>1, <2>4
    <3> QED BY <2>0, <2>4, <3>1
  <2>5. CASE Ends(s) # {}
    <3>1. Ends(t) # {}
      BY <2>3, <2>5
    <3>2. first(s) = first(t) + 1 /\ first(t) \in Nat
      BY <1>5, <2>1, <2>3, <2>5, <3>1
    <3>3. It(s)[first(s)] = It(t)[first(t)]
      BY <1>4, <2>0, <3>2
    <3> HIDE DEF Ends
    <3> QED BY <2>0, <2>5, <3>1, <3>3
  <2> QED BY <2>4, <2>5
<1>8. Loops(f, S, D, out, next)
  <2>1. f = [s \in S |-> f[s]]
    OBVIOUS
  <2> HIDE DEF f
  <2> QED BY <1>6, <1>7, <2>1, Zenon DEF Loops
<1> QED BY <1>8

-----------------------------------------------------------------------------
(* Queues *)

\* Nobody is in the empty queue.
LEMMA RangeEmpty == Range(<<>>) = {}
BY DEF Range

\* What a queue holds after a push,
LEMMA AppendRange ==
    ASSUME NEW S, NEW s \in Seq(S), NEW e
    PROVE  Range(Append(s, e)) = Range(s) \cup {e}
<1>1. /\ DOMAIN Append(s, e) = 1..(Len(s) + 1) /\ Len(s) \in Nat
      /\ DOMAIN s = 1..Len(s) /\ Append(s, e)[Len(s) + 1] = e
      /\ \A i \in 1..Len(s) : Append(s, e)[i] = s[i]
  OBVIOUS
<1>2. 1..(Len(s) + 1) = 1..Len(s) \cup {Len(s) + 1}
  BY <1>1
<1> QED BY <1>1, <1>2 DEF Range

\* which keeps it free of repetitions if the element is new.
LEMMA AppendProps ==
    ASSUME NEW S, NEW s \in Seq(S), NEW e \in S
    PROVE  /\ Append(s, e) \in Seq(S)
           /\ Range(Append(s, e)) = Range(s) \cup {e}
           /\ NoRepeats(s) /\ e \notin Range(s) => NoRepeats(Append(s, e))
<1>1. Range(Append(s, e)) = Range(s) \cup {e}
  BY AppendRange
<1>2. NoRepeats(s) /\ e \notin Range(s) => NoRepeats(Append(s, e))
  BY DEF Range, NoRepeats
<1> QED BY <1>1, <1>2

\* What a queue holds after a pop.
LEMMA TailProps ==
    ASSUME NEW S, NEW s \in Seq(S), s # <<>>
    PROVE  /\ Head(s) \in S /\ Tail(s) \in Seq(S)
           /\ Range(s) = Range(Tail(s)) \cup {Head(s)}
           /\ NoRepeats(s) => NoRepeats(Tail(s)) /\ Head(s) \notin Range(Tail(s))
<1>1. /\ Head(s) = s[1] /\ Tail(s) \in Seq(S) /\ Len(s) \in Nat \ {0}
      /\ DOMAIN s = 1..Len(s) /\ DOMAIN Tail(s) = 1..(Len(s) - 1)
      /\ \A i \in 1..(Len(s) - 1) : Tail(s)[i] = s[i + 1]
  OBVIOUS
<1>2. Head(s) \in S /\ 1 \in DOMAIN s
  BY <1>1
<1>3. \A i \in DOMAIN Tail(s) : i + 1 \in DOMAIN s /\ i + 1 # 1 /\ Tail(s)[i] = s[i + 1]
  BY <1>1
<1>4. \A i \in DOMAIN s : i # 1 => i - 1 \in DOMAIN Tail(s) /\ s[i] = Tail(s)[i - 1]
  BY <1>1
<1>5. Range(s) = Range(Tail(s)) \cup {Head(s)}
  <2>1. ASSUME NEW i \in DOMAIN s PROVE s[i] \in Range(Tail(s)) \cup {Head(s)}
    BY <1>1, <1>4 DEF Range
  <2>2. ASSUME NEW i \in DOMAIN Tail(s) PROVE Tail(s)[i] \in Range(s)
    BY <1>3 DEF Range
  <2>3. Head(s) \in Range(s)
    BY <1>1, <1>2 DEF Range
  <2> QED BY <2>1, <2>2, <2>3, Zenon DEF Range
<1>6. ASSUME NoRepeats(s) PROVE NoRepeats(Tail(s)) /\ Head(s) \notin Range(Tail(s))
  <2>1. Head(s) \notin Range(Tail(s))
    BY <1>1, <1>2, <1>3, <1>6 DEF Range, NoRepeats
  <2>2. ASSUME NEW i \in DOMAIN Tail(s), NEW j \in DOMAIN Tail(s), Tail(s)[i] = Tail(s)[j]
        PROVE  i = j
    <3>1. i + 1 = j + 1
      BY <1>3, <1>6, <2>2 DEF NoRepeats
    <3> QED BY <1>1, <3>1
  <2> QED BY <2>1, <2>2 DEF NoRepeats
<1> QED BY <1>1, <1>2, <1>5, <1>6

\* What the definition of Leave computes on its way.
IsLeft(left, queue, P) ==
    /\ left[0] = <<>>
    /\ \A i \in 1..Len(queue) : left[i] = IF queue[i] \in P THEN left[i - 1]
                                          ELSE Append(left[i - 1], queue[i])
    /\ Leave(queue, P) = left[Len(queue)]

\* Leave follows a recursion along the queue.
LEMMA LeaveDef ==
    ASSUME NEW S, NEW queue \in Seq(S), NEW P, NEW n, n = Len(queue)
    PROVE  \E left \in [0..n -> Seq(S)] : IsLeft(left, queue, P)
<1> DEFINE step == [x \in (1..n) \X Seq(S) |->
                      IF queue[x[1]] \in P THEN x[2] ELSE Append(x[2], queue[x[1]])]
           Eqn(f) == f = [i \in 0..n |-> IF i = 0 THEN <<>>
                                         ELSE IF queue[i] \in P THEN f[i - 1]
                                         ELSE Append(f[i - 1], queue[i])]
           left == CHOOSE f : Eqn(f)
<1>0. n \in Nat /\ <<>> \in Seq(S) /\ \A i \in 1..n : queue[i] \in S
  OBVIOUS
<1>1. ASSUME NEW i \in 1..n, NEW s \in Seq(S)
      PROVE  /\ step[<<i, s>>] = IF queue[i] \in P THEN s ELSE Append(s, queue[i])
             /\ step[<<i, s>>] \in Seq(S)
  BY <1>0
<1>2. step \in [(1..n) \X Seq(S) -> Seq(S)]
  BY <1>1
<1> HIDE DEF step
<1>3. PICK g \in [0..n -> Seq(S)] :
         g = [i \in 0..n |-> IF i = 0 THEN <<>> ELSE step[<<i, g[i - 1]>>]]
  <2>1. PICK g \in [0..n -> Seq(S)] : FollowsTo(g, n, <<>>, step)
    BY <1>0, <1>2, FiniteRecursion
  <2> QED BY <2>1, Zenon DEF FollowsTo
<1>4. ASSUME NEW i \in 0..n
      PROVE  g[i] = IF i = 0 THEN <<>> ELSE IF queue[i] \in P THEN g[i - 1]
                    ELSE Append(g[i - 1], queue[i])
  <2>1. CASE i # 0
    <3>1. i \in 1..n /\ i - 1 \in 0..n
      BY <1>0, <2>1
    <3>2. g[i] = step[<<i, g[i - 1]>>] /\ g[i - 1] \in Seq(S)
      BY <1>3, <2>1, <3>1
    <3> QED BY <1>1, <2>1, <3>1, <3>2
  <2> QED BY <1>3, <2>1
<1>5. Eqn(g)
  BY <1>4
<1>6. Eqn(left)
  <2> HIDE DEF Eqn
  <2> QED BY <1>5
<1>7. Leave(queue, P) = left[n]
  BY DEF Leave
<1> HIDE DEF left
<1>8. /\ left[0] = <<>> /\ DOMAIN left = 0..n
      /\ \A i \in 1..n : left[i] = IF queue[i] \in P THEN left[i - 1]
                                   ELSE Append(left[i - 1], queue[i])
  <2>1. DOMAIN left = 0..n
    BY <1>6
  <2>2. left[0] = <<>>
    BY <1>0, <1>6
  <2>3. ASSUME NEW i \in 1..n
        PROVE  left[i] = IF queue[i] \in P THEN left[i - 1]
                         ELSE Append(left[i - 1], queue[i])
    <3>1. i \in 0..n /\ i # 0
      BY <1>0
    <3> QED BY <1>6, <3>1, Zenon
  <2> QED BY <2>1, <2>2, <2>3
<1>9. left \in [0..n -> Seq(S)]
  <2> DEFINE T == {i \in Nat : i <= n => left[i] \in Seq(S)}
  <2>1. 0 \in T
    BY <1>0, <1>8
  <2>2. ASSUME NEW i \in Nat, i \in T PROVE i + 1 \in T
    <3> SUFFICES ASSUME i + 1 <= n PROVE left[i + 1] \in Seq(S)
      OBVIOUS
    <3>1. left[i] \in Seq(S) /\ i + 1 \in 1..n /\ (i + 1) - 1 = i
      BY <1>0, <2>2
    <3>2. queue[i + 1] \in S
      BY <1>0, <3>1
    <3>3. left[i + 1] = IF queue[i + 1] \in P THEN left[i] ELSE Append(left[i], queue[i + 1])
      BY <1>8, <3>1
    <3> QED BY <3>1, <3>2, <3>3
  <2> HIDE DEF T
  <2>3. Nat \subseteq T
    BY <2>1, <2>2, Induct
  <2>4. \A i \in 0..n : left[i] \in Seq(S)
    BY <2>3 DEF T
  <2> QED BY <1>6, <2>4
<1> QED BY <1>7, <1>8, <1>9 DEF IsLeft

\* Those who stay are the ones not in P, each as often as before.
LEMMA LeaveProps ==
    ASSUME NEW S, NEW queue \in Seq(S), NEW P
    PROVE  /\ Leave(queue, P) \in Seq(S)
           /\ Range(Leave(queue, P)) = Range(queue) \ P
           /\ NoRepeats(queue) => NoRepeats(Leave(queue, P))
<1>0. PICK n : n = Len(queue)
  OBVIOUS
<1>00. n \in Nat /\ DOMAIN queue = 1..n /\ \A i \in 1..n : queue[i] \in S
  BY <1>0
<1>1. PICK left \in [0..n -> Seq(S)] :
         /\ left[0] = <<>>
         /\ \A i \in 1..n : left[i] = IF queue[i] \in P THEN left[i - 1]
                                      ELSE Append(left[i - 1], queue[i])
         /\ Leave(queue, P) = left[n]
  <2>1. PICK left \in [0..n -> Seq(S)] : IsLeft(left, queue, P)
    BY <1>0, LeaveDef
  <2> QED BY <1>0, <2>1, Zenon DEF IsLeft
<1> DEFINE Stay(k) == {queue[i] : i \in 1..k} \ P
           T == {i \in Nat : i <= n => /\ Range(left[i]) = Stay(i)
                                       /\ NoRepeats(queue) => NoRepeats(left[i])}
<1>2. 0 \in T
  BY <1>00, <1>1 DEF Range, NoRepeats
<1>3. ASSUME NEW i \in Nat, i \in T PROVE i + 1 \in T
  <2> SUFFICES ASSUME i + 1 <= n
               PROVE  /\ Range(left[i + 1]) = Stay(i + 1)
                      /\ NoRepeats(queue) => NoRepeats(left[i + 1])
    OBVIOUS
  <2>0. PICK s, e : s = left[i] /\ e = queue[i + 1]
    OBVIOUS
  <2>1. /\ s \in Seq(S) /\ e \in S /\ i + 1 \in 1..n
        /\ Range(s) = Stay(i) /\ (NoRepeats(queue) => NoRepeats(s))
    <3>1. i <= n /\ i \in 0..n /\ i + 1 \in 1..n
      BY <1>00
    <3>2. s \in Seq(S) /\ e \in S
      BY <1>00, <2>0, <3>1
    <3> QED BY <1>3, <2>0, <3>1, <3>2
  <2>2. left[i + 1] = IF e \in P THEN s ELSE Append(s, e)
    <3>1. (i + 1) - 1 = i
      OBVIOUS
    <3> QED BY <1>1, <2>0, <2>1, <3>1
  <2>3. {queue[j] : j \in 1..(i + 1)} = {queue[j] : j \in 1..i} \cup {e}
    <3>1. 1..(i + 1) = 1..i \cup {i + 1}
      OBVIOUS
    <3> QED BY <2>0, <3>1
  <2>4. NoRepeats(queue) => e \notin {queue[j] : j \in 1..i}
    <3> SUFFICES ASSUME NoRepeats(queue), NEW j \in 1..i, queue[j] = e PROVE FALSE
      OBVIOUS
    <3>1. j \in DOMAIN queue /\ i + 1 \in DOMAIN queue /\ j # i + 1
      BY <1>00, <2>1
    <3> QED BY <2>0, <3>1 DEF NoRepeats
  <2>5. CASE e \in P
    BY <2>1, <2>2, <2>3, <2>5
  <2>6. CASE e \notin P
    <3>1. Range(Append(s, e)) = Range(s) \cup {e}
      BY <2>1, AppendRange
    <3>2. NoRepeats(s) /\ e \notin Range(s) => NoRepeats(Append(s, e))
      BY <2>1 DEF Range, NoRepeats
    <3>3. Stay(i + 1) = Stay(i) \cup {e}
      BY <2>3, <2>6
    <3>4. NoRepeats(queue) => e \notin Range(s)
      BY <2>1, <2>4
    <3> QED BY <2>1, <2>2, <2>6, <3>1, <3>2, <3>3, <3>4
  <2> QED BY <2>5, <2>6
<1> HIDE DEF T
<1>4. Nat \subseteq T
  BY <1>2, <1>3, Induct
<1>5. n \in T
  BY <1>00, <1>4
<1>6. Range(left[n]) = Stay(n) /\ (NoRepeats(queue) => NoRepeats(left[n]))
  BY <1>00, <1>5 DEF T
<1>7. Stay(n) = Range(queue) \ P
  BY <1>00 DEF Range
<1> QED BY <1>00, <1>1, <1>6, <1>7

\* Whoever is first stays first.
LEMMA LeaveHead ==
    ASSUME NEW S, NEW queue \in Seq(S), NEW P, queue # <<>>, Head(queue) \notin P
    PROVE  Leave(queue, P) # <<>> /\ Head(Leave(queue, P)) = Head(queue)
<1>0. PICK n : n = Len(queue)
  OBVIOUS
<1>00. n \in Nat \ {0} /\ Head(queue) = queue[1] /\ \A i \in 1..n : queue[i] \in S
  BY <1>0
<1>1. PICK left \in [0..n -> Seq(S)] :
         /\ left[0] = <<>>
         /\ \A i \in 1..n : left[i] = IF queue[i] \in P THEN left[i - 1]
                                      ELSE Append(left[i - 1], queue[i])
         /\ Leave(queue, P) = left[n]
  <2>1. PICK left \in [0..n -> Seq(S)] : IsLeft(left, queue, P)
    BY <1>0, LeaveDef
  <2> QED BY <1>0, <2>1, Zenon DEF IsLeft
<1> DEFINE T == {i \in Nat : i + 1 <= n => left[i + 1] # <<>> /\ Head(left[i + 1]) = queue[1]}
<1>2. 0 \in T
  <2>1. 0 + 1 = 1 /\ 1 - 1 = 0 /\ 1 \in 1..n
    BY <1>00
  <2>2. left[1] = Append(left[0], queue[1])
    BY <1>00, <1>1, <2>1
  <2>3. left[1] # <<>> /\ Head(left[1]) = queue[1]
    BY <1>1, <2>2
  <2> QED BY <2>1, <2>3
<1>3. ASSUME NEW i \in Nat, i \in T PROVE i + 1 \in T
  <2> SUFFICES ASSUME (i + 1) + 1 <= n
               PROVE  left[(i + 1) + 1] # <<>> /\ Head(left[(i + 1) + 1]) = queue[1]
    OBVIOUS
  <2>0. PICK k, s, e : k = i + 1 /\ s = left[k] /\ e = queue[k + 1]
    OBVIOUS
  <2>1. k \in Nat /\ k \in 0..n /\ k + 1 \in 1..n /\ (k + 1) - 1 = k
    BY <1>00, <2>0
  <2>2. s # <<>> /\ Head(s) = queue[1]
    BY <1>3, <2>0, <2>1
  <2>3. s \in Seq(S) /\ e \in S
    BY <1>00, <2>0, <2>1
  <2>4. left[k + 1] = IF e \in P THEN s ELSE Append(s, e)
    BY <1>1, <2>0, <2>1
  <2>5. Append(s, e) # <<>> /\ Head(Append(s, e)) = queue[1]
    BY <2>2, <2>3
  <2> QED BY <2>0, <2>2, <2>4, <2>5
<1> HIDE DEF T
<1>4. Nat \subseteq T
  BY <1>2, <1>3, Induct
<1>5. n - 1 \in T /\ (n - 1) + 1 = n
  BY <1>00, <1>4
<1> QED BY <1>00, <1>1, <1>5 DEF T
=============================================================================
