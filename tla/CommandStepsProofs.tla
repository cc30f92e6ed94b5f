------------------------- MODULE CommandStepsProofs -------------------------
(***************************************************************************)
(* Lists of steps as the supervisor's loops leave them: a spawn is         *)
(* followed by what marks the worker it was for, a stop job by the wait    *)
(* for the worker it was sent to.                                          *)
(***************************************************************************)
EXTENDS CommandSteps, TLAPS

Begins == {"spawn", "pill"}
Ends == {"started", "revived", "wait"}

Follows(first, second) ==
  \/ first[1] = "spawn" /\ second \in {<<"started", first[2]>>, <<"revived", first[2]>>}
  \/ first[1] = "pill" /\ second = <<"wait", first[2]>>

\* Only the first step may be the second half of a pair.
Shaped(steps) ==
  /\ \A i \in 1..Len(steps) :
       steps[i][1] \in Begins => i < Len(steps) /\ Follows(steps[i], steps[i + 1])
  /\ \A i \in 2..Len(steps) :
       steps[i][1] \in Ends => Follows(steps[i - 1], steps[i])

LEMMA SeqOfMore == ASSUME NEW S, NEW T, S \subseteq T, NEW q \in Seq(S) PROVE q \in Seq(T)
OBVIOUS

LEMMA ListDomain == ASSUME NEW S, NEW q \in Seq(S) PROVE DOMAIN q = 1..Len(q)
OBVIOUS

LEMMA OneInList == \A i, k \in 1..1 : i = k
OBVIOUS

LEMMA Single == ASSUME NEW S, NEW x \in S PROVE <<x>> \in Seq(S)
OBVIOUS

LEMMA ByIndex ==
  ASSUME NEW S, NEW n \in Nat, NEW q, q = [i \in 1..n |-> q[i]], \A i \in 1..n : q[i] \in S
  PROVE  q \in Seq(S) /\ Len(q) = n
OBVIOUS

LEMMA TailFacts ==
  ASSUME NEW S, NEW q \in Seq(S), q # <<>>
  PROVE  /\ Tail(q) \in Seq(S) /\ Len(Tail(q)) = Len(q) - 1 /\ Len(q) \in Nat
         /\ \A i \in 1..Len(Tail(q)) : Tail(q)[i] = q[i + 1] /\ i + 1 \in 2..Len(q)
         /\ \A i \in 2..Len(q) : q[i] = Tail(q)[i - 1] /\ i - 1 \in 1..Len(Tail(q))
         /\ Head(q) = q[1] /\ 1 \in 1..Len(q) /\ q[1] \in S
         /\ \A i \in 1..Len(q) : q[i] \in S
OBVIOUS

LEMMA TailShaped ==
  ASSUME NEW S, NEW q \in Seq(S), q # <<>>, Shaped(q)
  PROVE  /\ Shaped(Tail(q))
         /\ Head(q)[1] \in Begins => Tail(q) # <<>> /\ Follows(Head(q), Head(Tail(q)))
         /\ Tail(q) # <<>> /\ Head(Tail(q))[1] \in Ends => Follows(Head(q), Head(Tail(q)))
<1> DEFINE t == Tail(q)
<1>1. /\ t \in Seq(S) /\ Len(t) = Len(q) - 1 /\ Len(q) \in Nat
      /\ \A i \in 1..Len(t) : t[i] = q[i + 1]
      /\ Head(q) = q[1]
  BY TailFacts
<1>2. t # <<>> => Head(t) = t[1] /\ 1 \in 1..Len(t)
  BY <1>1
<1> HIDE DEF t
<1>3. ASSUME NEW i \in 1..Len(t), t[i][1] \in Begins
      PROVE  i < Len(t) /\ Follows(t[i], t[i + 1])
  <2>1. i + 1 \in 1..Len(q) /\ q[i + 1][1] \in Begins
    BY <1>1, <1>3
  <2>2. i + 1 < Len(q) /\ Follows(q[i + 1], q[(i + 1) + 1])
    BY <2>1 DEF Shaped
  <2>3. i + 1 \in 1..Len(t) /\ t[i + 1] = q[(i + 1) + 1]
    BY <1>1, <2>2
  <2> QED
    BY <1>1, <2>2, <2>3
<1>4. ASSUME NEW i \in 2..Len(t), t[i][1] \in Ends
      PROVE  Follows(t[i - 1], t[i])
  <2>1. i + 1 \in 2..Len(q) /\ q[i + 1][1] \in Ends
    BY <1>1, <1>4
  <2>2. Follows(q[(i + 1) - 1], q[i + 1])
    BY <2>1 DEF Shaped
  <2>3. i - 1 \in 1..Len(t) /\ t[i - 1] = q[(i + 1) - 1] /\ t[i] = q[i + 1]
    <3>1. i - 1 \in 1..Len(t) /\ i \in 1..Len(t) /\ (i - 1) + 1 = (i + 1) - 1
      BY <1>1
    <3> QED
      BY <1>1, <3>1
  <2> QED
    BY <2>2, <2>3
<1>5. Shaped(t)
  BY <1>3, <1>4 DEF Shaped
<1>6. ASSUME Head(q)[1] \in Begins
      PROVE  t # <<>> /\ Follows(Head(q), Head(t))
  <2>1. 1 \in 1..Len(q)
    BY TailFacts
  <2>2. 1 < Len(q) /\ Follows(q[1], q[1 + 1])
    BY <1>1, <1>6, <2>1 DEF Shaped
  <2>3. t # <<>>
    BY <1>1, <2>2
  <2> QED
    BY <1>1, <1>2, <2>2, <2>3
<1>7. ASSUME t # <<>>, Head(t)[1] \in Ends
      PROVE  Follows(Head(q), Head(t))
  <2>1. 2 \in 2..Len(q) /\ t[1] = q[2]
    BY <1>1, <1>2, <1>7
  <2>2. Follows(q[2 - 1], q[2])
    BY <1>2, <1>7, <2>1 DEF Shaped
  <2> QED
    BY <1>1, <1>2, <1>7, <2>1, <2>2
<1> QED
  BY <1>5, <1>6, <1>7 DEF t

LEMMA ConcatFacts ==
  ASSUME NEW S, NEW p \in Seq(S), NEW q \in Seq(S)
  PROVE  /\ p \o q \in Seq(S) /\ Len(p \o q) = Len(p) + Len(q)
         /\ Len(p) \in Nat /\ Len(q) \in Nat
         /\ \A i \in 1..Len(p) : (p \o q)[i] = p[i]
         /\ \A i \in 1..Len(q) : (p \o q)[Len(p) + i] = q[i]
OBVIOUS

LEMMA ConcatShaped ==
  ASSUME NEW S, NEW p \in Seq(S), NEW q \in Seq(S), Shaped(p), Shaped(q),
         q # <<>> => q[1][1] \notin Ends
  PROVE  p \o q \in Seq(S) /\ Shaped(p \o q)
<1> DEFINE s == p \o q
<1>1. /\ s \in Seq(S) /\ Len(s) = Len(p) + Len(q) /\ Len(p) \in Nat /\ Len(q) \in Nat
      /\ \A i \in 1..Len(p) : s[i] = p[i]
      /\ \A i \in 1..Len(q) : s[Len(p) + i] = q[i]
  BY ConcatFacts
<1> HIDE DEF s
<1>2. ASSUME NEW i \in 1..Len(s), s[i][1] \in Begins
      PROVE  i < Len(s) /\ Follows(s[i], s[i + 1])
  <2>1. CASE i \in 1..Len(p)
    <3>1. i < Len(p) /\ Follows(p[i], p[i + 1])
      BY <1>1, <1>2, <2>1 DEF Shaped
    <3>2. i + 1 \in 1..Len(p)
      BY <1>1, <3>1
    <3> QED
      BY <1>1, <2>1, <3>1, <3>2
  <2>2. CASE i \notin 1..Len(p)
    <3>1. PICK k \in 1..Len(q) : i = Len(p) + k
      <4>1. i - Len(p) \in 1..Len(q) /\ i = Len(p) + (i - Len(p))
        BY <1>1, <2>2
      <4> QED
        BY <4>1
    <3>2. k < Len(q) /\ Follows(q[k], q[k + 1])
      BY <1>1, <1>2, <3>1 DEF Shaped
    <3>3. k + 1 \in 1..Len(q) /\ i + 1 = Len(p) + (k + 1)
      BY <1>1, <3>1, <3>2
    <3>4. s[i] = q[k] /\ s[i + 1] = q[k + 1]
      BY <1>1, <3>1, <3>3
    <3>5. i < Len(s)
      BY <1>1, <3>1, <3>2
    <3> QED
      BY <3>2, <3>4, <3>5
  <2> QED
    BY <2>1, <2>2
<1>3. ASSUME NEW i \in 2..Len(s), s[i][1] \in Ends
      PROVE  Follows(s[i - 1], s[i])
  <2>1. CASE i \in 1..Len(p)
    <3>1. i \in 2..Len(p) /\ i - 1 \in 1..Len(p)
      BY <1>1, <2>1
    <3>2. Follows(p[i - 1], p[i])
      BY <1>1, <1>3, <2>1, <3>1 DEF Shaped
    <3> QED
      BY <1>1, <2>1, <3>1, <3>2
  <2>2. CASE i \notin 1..Len(p)
    <3>1. PICK k \in 1..Len(q) : i = Len(p) + k
      <4>1. i - Len(p) \in 1..Len(q) /\ i = Len(p) + (i - Len(p))
        BY <1>1, <2>2
      <4> QED
        BY <4>1
    <3>2. s[i] = q[k] /\ q # <<>>
      BY <1>1, <3>1
    <3>3. k # 1
      BY <1>3, <3>2
    <3>4. k \in 2..Len(q) /\ k - 1 \in 1..Len(q) /\ i - 1 = Len(p) + (k - 1)
      BY <1>1, <3>1, <3>3
    <3>5. Follows(q[k - 1], q[k])
      BY <1>3, <3>2, <3>4 DEF Shaped
    <3>6. s[i - 1] = q[k - 1]
      BY <1>1, <3>4
    <3> QED
      BY <3>2, <3>5, <3>6
  <2> QED
    BY <2>1, <2>2
<1> QED
  BY <1>1, <1>2, <1>3 DEF Shaped, s

\* The loops of start and stop, worker by worker.
LEMMA PairsShaped ==
  ASSUME NEW W, NEW ws \in Seq(W), NEW a, NEW b,
         (a = "pill" /\ b = "wait") \/ (a = "spawn" /\ b = "started")
  PROVE  /\ Pairs(a, b, ws) \in Seq({a, b} \X W) /\ Shaped(Pairs(a, b, ws))
         /\ \A i \in 1..Len(Pairs(a, b, ws)) : Pairs(a, b, ws)[i][1] \in {a, b}
         /\ Pairs(a, b, ws) # <<>> => Pairs(a, b, ws)[1][1] = a
<1> DEFINE s == Pairs(a, b, ws)
           n == 2 * Len(ws)
<1>1. Len(ws) \in Nat /\ n \in Nat
  OBVIOUS
<1>2. \A i \in 1..n : (i + 1) \div 2 \in 1..Len(ws) /\ (i % 2 = 1 \/ i % 2 = 0)
  BY <1>1
<1>3. s = [i \in 1..n |-> <<IF i % 2 = 1 THEN a ELSE b, ws[(i + 1) \div 2]>>]
  BY DEF Pairs
<1>4. \A i \in 1..n : ws[(i + 1) \div 2] \in W
  BY <1>2
<1>6. \A i \in 1..n : <<IF i % 2 = 1 THEN a ELSE b, ws[(i + 1) \div 2]>> \in {a, b} \X W
  BY <1>4
<1> HIDE DEF s, n
<1>7. s \in Seq({a, b} \X W) /\ Len(s) = n
  <2>1. s = [i \in 1..n |-> s[i]] /\ \A i \in 1..n : s[i] \in {a, b} \X W
    BY <1>3, <1>6
  <2> QED
    BY <1>1, <2>1, ByIndex
<1>8. \A i \in 1..n :
        /\ s[i][1] = (IF i % 2 = 1 THEN a ELSE b)
        /\ s[i] = <<s[i][1], ws[(i + 1) \div 2]>>
  BY <1>3
<1>9. ASSUME NEW i \in 1..n, i % 2 = 1
      PROVE  i + 1 \in 1..n /\ i < n /\ Follows(s[i], s[i + 1])
  <2>1. i + 1 \in 1..n /\ i < n /\ (i + 1) % 2 # 1 /\ ((i + 1) + 1) \div 2 = (i + 1) \div 2
    BY <1>1, <1>9 DEF n
  <2>2. s[i] = <<a, ws[(i + 1) \div 2]>> /\ s[i + 1] = <<b, ws[(i + 1) \div 2]>>
    BY <1>3, <1>9, <2>1
  <2> QED
    BY <2>1, <2>2 DEF Follows
<1>10. ASSUME NEW i \in 1..n, i % 2 # 1
       PROVE  i - 1 \in 1..n /\ (i - 1) % 2 = 1
  BY <1>1, <1>10 DEF n
<1>11. a \in Begins /\ b \notin Begins /\ a \notin Ends
  BY DEF Begins, Ends
<1>12. Shaped(s)
  <2>1. ASSUME NEW i \in 1..Len(s), s[i][1] \in Begins
        PROVE  i < Len(s) /\ Follows(s[i], s[i + 1])
    BY <1>7, <1>8, <1>9, <1>11, <2>1
  <2>2. ASSUME NEW i \in 2..Len(s), s[i][1] \in Ends
        PROVE  Follows(s[i - 1], s[i])
    <3>1. i \in 1..n /\ i % 2 # 1
      BY <1>1, <1>7, <1>8, <1>11, <2>2
    <3>2. i - 1 \in 1..n /\ (i - 1) % 2 = 1 /\ (i - 1) + 1 = i
      BY <1>10, <3>1
    <3> QED
      BY <1>9, <3>2
  <2> QED
    BY <2>1, <2>2 DEF Shaped
<1>14. s # <<>> => s[1][1] = a
  <2>1. s # <<>> => 1 \in 1..n /\ 1 % 2 = 1
    BY <1>1, <1>7
  <2> QED
    BY <1>8, <2>1
<1> QED
  BY <1>7, <1>8, <1>12, <1>14 DEF s

\* Each of the workers gets its first step.
LEMMA PairsReach ==
  ASSUME NEW W, NEW ws \in Seq(W), NEW k \in 1..Len(ws)
  PROVE  \E i \in 1..Len(Pairs("spawn", "started", ws)) :
           Pairs("spawn", "started", ws)[i] = <<"spawn", ws[k]>>
<1> DEFINE s == Pairs("spawn", "started", ws)
<1>1. Len(ws) \in Nat
  OBVIOUS
<1>2. /\ 2 * k - 1 \in 1..(2 * Len(ws)) /\ (2 * k - 1) % 2 = 1
      /\ ((2 * k - 1) + 1) \div 2 = k
  BY <1>1
<1>3. s[2 * k - 1] = <<"spawn", ws[k]>>
  BY <1>2 DEF Pairs
<1>4. 1..Len(s) = 1..(2 * Len(ws))
  BY <1>1 DEF Pairs
<1> QED
  BY <1>2, <1>3, <1>4

LEMMA PairThenMore ==
  ASSUME NEW S, NEW p \in Seq(S), NEW q \in Seq(S), Len(p) = 2
  PROVE  /\ Len(p \o q) = Len(q) + 2 /\ p \o q # <<>>
         /\ (p \o q)[1] = p[1] /\ (p \o q)[2] = p[2] /\ Head(p \o q) = p[1]
         /\ \A i \in 1..Len(q) : (p \o q)[i + 2] = q[i]
         /\ \A i \in 3..Len(p \o q) : i - 2 \in 1..Len(q) /\ (p \o q)[i] = q[i - 2]
<1> DEFINE s == p \o q
<1>1. /\ Len(s) = Len(p) + Len(q) /\ Len(q) \in Nat /\ s \in Seq(S)
      /\ \A i \in 1..Len(p) : s[i] = p[i]
      /\ \A i \in 1..Len(q) : s[Len(p) + i] = q[i]
  BY ConcatFacts
<1> HIDE DEF s
<1>2. Len(s) = Len(q) + 2 /\ s # <<>> /\ s[1] = p[1] /\ s[2] = p[2] /\ Head(s) = p[1]
  BY <1>1
<1>3. \A i \in 1..Len(q) : s[i + 2] = q[i]
  BY <1>1
<1>4. ASSUME NEW i \in 3..Len(s) PROVE i - 2 \in 1..Len(q) /\ s[i] = q[i - 2]
  <2>1. i - 2 \in 1..Len(q) /\ (i - 2) + 2 = i
    BY <1>1, <1>2
  <2> QED
    BY <1>3, <2>1
<1> QED
  BY <1>2, <1>3, <1>4 DEF s

\* A worker that is spawned again: its two steps come before the others.
LEMMA RestartShaped ==
  ASSUME NEW S, NEW w, <<"spawn", w>> \in S, <<"revived", w>> \in S,
         NEW q \in Seq(S), Shaped(q),
         q # <<>> => q[1][1] \notin Ends
  PROVE  LET steps == <<<<"spawn", w>>, <<"revived", w>>>> \o q IN
         /\ steps \in Seq(S) /\ Shaped(steps) /\ steps # <<>>
         /\ Len(steps) = Len(q) + 2 /\ Head(steps) = <<"spawn", w>>
         /\ steps[1] = <<"spawn", w>> /\ steps[2] = <<"revived", w>>
         /\ \A i \in 1..Len(q) : steps[i + 2] = q[i]
         /\ \A i \in 3..Len(steps) : i - 2 \in 1..Len(q) /\ steps[i] = q[i - 2]
<1> DEFINE p == <<<<"spawn", w>>, <<"revived", w>>>>
<1>2. p \in Seq(S) /\ Len(p) = 2 /\ p[1] = <<"spawn", w>> /\ p[2] = <<"revived", w>>
  OBVIOUS
<1> HIDE DEF p
<1>3. Shaped(p)
  <2>1. \A i \in 1..2 : i = 1 \/ i = 2
    OBVIOUS
  <2>2. \A i \in 2..2 : i = 2
    OBVIOUS
  <2>3. "revived" \notin Begins /\ "spawn" \notin Ends
    BY DEF Begins, Ends
  <2> QED
    BY <1>2, <2>1, <2>2, <2>3 DEF Shaped, Follows
<1>4. p \o q \in Seq(S) /\ Shaped(p \o q)
  BY <1>2, <1>3, ConcatShaped
<1>5. p \in Seq(S) /\ Len(p) = 2 /\ q \in Seq(S)
  BY <1>2
<1>6. /\ Len(p \o q) = Len(q) + 2 /\ p \o q # <<>>
      /\ (p \o q)[1] = p[1] /\ (p \o q)[2] = p[2] /\ Head(p \o q) = p[1]
      /\ \A i \in 1..Len(q) : (p \o q)[i + 2] = q[i]
      /\ \A i \in 3..Len(p \o q) : i - 2 \in 1..Len(q) /\ (p \o q)[i] = q[i - 2]
  BY <1>5, PairThenMore
<1> QED
  BY <1>2, <1>4, <1>6 DEF p

----------------------------------------------------------------------------
(* No worker is spawned twice by one command, and by a restart only after  *)
(* the wait for it to leave.                                               *)

OnceEach(steps) ==
  \A i, k \in 1..Len(steps) : steps[i][1] = "spawn" /\ steps[k] = steps[i] => i = k

\* Every worker spawned is among those ready, or waited for before.
Waits(steps, ready) ==
  \A i \in 1..Len(steps) : steps[i][1] = "spawn" =>
    steps[i][2] \in ready \/ \E k \in 1..(i - 1) : steps[k] = <<"wait", steps[i][2]>>

LEMMA TailOnce ==
  ASSUME NEW S, NEW q \in Seq(S), q # <<>>, OnceEach(q)
  PROVE  /\ OnceEach(Tail(q))
         /\ Head(q)[1] = "spawn" => \A i \in 1..Len(Tail(q)) : Tail(q)[i] # Head(q)
<1> DEFINE t == Tail(q)
<1>1. /\ Len(t) = Len(q) - 1 /\ Len(q) \in Nat
      /\ \A i \in 1..Len(t) : t[i] = q[i + 1] /\ i + 1 \in 2..Len(q)
      /\ Head(q) = q[1] /\ 1 \in 1..Len(q)
  BY TailFacts
<1> HIDE DEF t
<1>2. \A i \in 1..Len(t) : t[i] = q[i + 1] /\ i + 1 \in 1..Len(q) /\ i + 1 # 1
  BY <1>1
<1>3. ASSUME NEW i \in 1..Len(t), NEW k \in 1..Len(t), t[i][1] = "spawn", t[k] = t[i]
      PROVE  i = k
  <2>1. i + 1 = k + 1
    BY <1>2, <1>3 DEF OnceEach
  <2> QED
    BY <1>1, <2>1
<1>4. ASSUME Head(q)[1] = "spawn", NEW i \in 1..Len(t)
      PROVE  t[i] # Head(q)
  BY <1>1, <1>2, <1>4 DEF OnceEach
<1> QED
  BY <1>3, <1>4 DEF OnceEach, t

\* After a step, also those waited for are ready.
LEMMA TailWaits ==
  ASSUME NEW S, NEW q \in Seq(S), q # <<>>, NEW ready, Waits(q, ready),
         NEW next, ready \subseteq next,
         \A w : Head(q) = <<"wait", w>> => w \in next
  PROVE  /\ Waits(Tail(q), next)
         /\ Head(q)[1] = "spawn" => Head(q)[2] \in ready
<1> DEFINE t == Tail(q)
<1>1. /\ Len(t) = Len(q) - 1 /\ Len(q) \in Nat
      /\ \A i \in 1..Len(t) : t[i] = q[i + 1] /\ i + 1 \in 2..Len(q)
      /\ Head(q) = q[1] /\ 1 \in 1..Len(q)
  BY TailFacts
<1> HIDE DEF t
<1>2. \A i \in 1..Len(t) : t[i] = q[i + 1] /\ i + 1 \in 1..Len(q)
  BY <1>1
<1>3. ASSUME NEW i \in 1..Len(t), t[i][1] = "spawn", t[i][2] \notin next
      PROVE  \E k \in 1..(i - 1) : t[k] = <<"wait", t[i][2]>>
  <2>0. i + 1 \in 1..Len(q) /\ q[i + 1][1] = "spawn" /\ q[i + 1][2] = t[i][2]
    BY <1>2, <1>3
  <2>3. t[i][2] \notin ready
    BY <1>3
  <2>1. PICK k \in 1..((i + 1) - 1) : q[k] = <<"wait", t[i][2]>>
    BY <2>0, <2>3 DEF Waits
  <2>2. k # 1
    BY <1>1, <1>3, <2>1
  <2>4. k - 1 \in 1..(i - 1) /\ k - 1 \in 1..Len(t) /\ (k - 1) + 1 = k
    BY <1>1, <2>2
  <2>5. t[k - 1] = q[k]
    BY <1>2, <2>4
  <2> QED
    BY <2>1, <2>4, <2>5
<1>4. Head(q)[1] = "spawn" => Head(q)[2] \in ready
  <2>1. 1..(1 - 1) = {}
    OBVIOUS
  <2> QED
    BY <1>1, <2>1 DEF Waits
<1> QED
  BY <1>3, <1>4 DEF Waits, t

\* A worker that is not spawned by the rest need no longer be ready.
LEMMA WaitsLess ==
  ASSUME NEW ops, NEW W, NEW q \in Seq(ops \X W), NEW ready, Waits(q, ready),
         NEW next, NEW w, ready \subseteq next \union {w},
         \A i \in 1..Len(q) : q[i] # <<"spawn", w>>
  PROVE  Waits(q, next)
<1>1. \A i \in 1..Len(q) : q[i] = <<q[i][1], q[i][2]>>
  <2>1. \A i \in 1..Len(q) : q[i] \in ops \X W
    OBVIOUS
  <2> QED
    BY <2>1
<1> QED
  BY <1>1 DEF Waits

\* The loop of start_workers spawns each worker of the list once.
LEMMA StartsOnce ==
  ASSUME NEW W, NEW ws \in Seq(W), \A i, k \in 1..Len(ws) : ws[i] = ws[k] => i = k
  PROVE  OnceEach(Pairs("spawn", "started", ws))
<1> DEFINE s == Pairs("spawn", "started", ws)
           n == 2 * Len(ws)
<1>1. Len(ws) \in Nat /\ n \in Nat
  OBVIOUS
<1>2. s = [i \in 1..n |-> <<IF i % 2 = 1 THEN "spawn" ELSE "started", ws[(i + 1) \div 2]>>]
  BY DEF Pairs
<1>3. 1..Len(s) = 1..n
  BY <1>1, <1>2
<1> HIDE DEF s
<1>4. ASSUME NEW i \in 1..n, NEW k \in 1..n, s[i][1] = "spawn", s[k] = s[i]
      PROVE  i = k
  <2>1. i % 2 = 1 /\ s[i] = <<"spawn", ws[(i + 1) \div 2]>>
    BY <1>2, <1>4
  <2>2. k % 2 = 1 /\ s[k] = <<"spawn", ws[(k + 1) \div 2]>>
    BY <1>2, <1>4
  <2>3. (i + 1) \div 2 \in 1..Len(ws) /\ (k + 1) \div 2 \in 1..Len(ws)
    BY <1>1
  <2>4. (i + 1) \div 2 = (k + 1) \div 2
    BY <1>4, <2>1, <2>2, <2>3
  <2> QED
    BY <2>1, <2>2, <2>4, SMTT(30)
<1> QED
  BY <1>3, <1>4 DEF OnceEach, s

\* Steps without a spawn wait for all that they spawn.
LEMMA NoSpawnWaits ==
  ASSUME NEW q, NEW ready, \A i \in 1..Len(q) : q[i][1] # "spawn"
  PROVE  OnceEach(q) /\ Waits(q, ready)
BY DEF OnceEach, Waits

\* A restart: the loop of stop_workers over the list, then that of start.
LEMMA RestartWaits ==
  ASSUME NEW W, NEW ws \in Seq(W), NEW ready,
         \A i, k \in 1..Len(ws) : ws[i] = ws[k] => i = k
  PROVE  LET steps == Pairs("pill", "wait", ws) \o Pairs("spawn", "started", ws) IN
         OnceEach(steps) /\ Waits(steps, ready)
<1> DEFINE p == Pairs("pill", "wait", ws)
           q == Pairs("spawn", "started", ws)
           s == p \o q
           n == 2 * Len(ws)
           S == {"pill", "wait", "spawn", "started"} \X W
<1>1. Len(ws) \in Nat /\ n \in Nat
  OBVIOUS
<1>2. /\ p = [i \in 1..n |-> <<IF i % 2 = 1 THEN "pill" ELSE "wait", ws[(i + 1) \div 2]>>]
      /\ q = [i \in 1..n |-> <<IF i % 2 = 1 THEN "spawn" ELSE "started", ws[(i + 1) \div 2]>>]
  BY DEF Pairs
<1>3. Len(p) = n /\ Len(q) = n
  BY <1>1, <1>2
<1>4. p \in Seq({"pill", "wait"} \X W) /\ q \in Seq({"spawn", "started"} \X W)
  BY PairsShaped
<1>5. p \in Seq(S) /\ q \in Seq(S)
  BY <1>4, SeqOfMore
<1>6. OnceEach(q)
  BY StartsOnce
<1> HIDE DEF p, q, n, S
<1>7. /\ Len(s) = n + n
      /\ \A i \in 1..n : s[i] = p[i] /\ s[n + i] = q[i]
  <2>1. /\ Len(s) = Len(p) + Len(q)
        /\ \A i \in 1..Len(p) : s[i] = p[i]
        /\ \A i \in 1..Len(q) : s[Len(p) + i] = q[i]
    BY <1>5, ConcatFacts
  <2> HIDE DEF s
  <2> QED
    BY <1>3, <2>1
<1> HIDE DEF s
<1>8. \A i \in 1..n : p[i][1] # "spawn"
  BY <1>2
<1>9. ASSUME NEW i \in 1..Len(s), s[i][1] = "spawn"
      PROVE  i - n \in 1..n /\ s[i] = q[i - n]
  <2>1. i \notin 1..n
    BY <1>7, <1>8, <1>9
  <2>2. i - n \in 1..n /\ n + (i - n) = i
    BY <1>1, <1>7, <2>1
  <2> QED
    BY <1>7, <2>2
<1>10. ASSUME NEW i \in 1..Len(s), NEW k \in 1..Len(s), s[i][1] = "spawn", s[k] = s[i]
       PROVE  i = k
  <2>1. i - n \in 1..n /\ s[i] = q[i - n] /\ k - n \in 1..n /\ s[k] = q[k - n]
    BY <1>9, <1>10
  <2>2. i - n = k - n
    BY <1>3, <1>6, <1>10, <2>1 DEF OnceEach
  <2> QED
    BY <1>1, <2>2
<1>11. ASSUME NEW i \in 1..Len(s), s[i][1] = "spawn"
       PROVE  \E k \in 1..(i - 1) : s[k] = <<"wait", s[i][2]>>
  <2>1. i - n \in 1..n /\ s[i] = q[i - n]
    BY <1>9, <1>11
  <2>2. (i - n) % 2 = 1 /\ s[i][2] = ws[((i - n) + 1) \div 2]
    BY <1>2, <1>11, <2>1
  <2> DEFINE k == (i - n) + 1
  <2>6. ASSUME NEW m \in 1..n, m % 2 = 1
        PROVE  m + 1 \in 1..n /\ (m + 1) % 2 # 1 /\ ((m + 1) + 1) \div 2 = (m + 1) \div 2
    BY <1>1, <2>6 DEF n
  <2>3. k \in 1..n /\ k % 2 # 1 /\ (k + 1) \div 2 = ((i - n) + 1) \div 2
    BY <2>1, <2>2, <2>6
  <2>4. s[k] = <<"wait", s[i][2]>>
    BY <1>2, <1>7, <2>2, <2>3
  <2>5. k \in 1..(i - 1)
    BY <1>1, <2>1, <2>3, SMTT(30)
  <2> QED
    BY <2>4, <2>5
<1> QED
  BY <1>10, <1>11 DEF OnceEach, Waits, s, p, q
=============================================================================
