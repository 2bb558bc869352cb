--------------------------- MODULE PromptQueue_proofs ---------------------------
(* Safety of the prompt queue, for any number of inputs of each kind and any *)
(* orders a client asks for.                                                 *)
EXTENDS PromptQueue, SequenceTheorems, WellFoundedInduction, TLAPS

(* The record of the arm, whole. *)
Places ==
    {"select", "pop", "flush", "fallback", "start", "drain", "cancel", "abort", "respond"}
Modes == {"select", "drain", "plain", "kill", "rewind", "send_now"}
ArmType == arm \in [at: Places, ids: Seq(Ids), task: Ids \cup {None}, then: Modes]

(* What each place of an arm carries. *)
ArmShape ==
    /\ arm.at \in {"start", "fallback"} => arm.then \in {"select", "drain"}
    /\ arm.at \in {"pop", "fallback"} => arm.ids # <<>>
    /\ arm.at = "fallback" => arm.ids \in Seq(Asides)

(* The queue holds no prompt twice, and the running one at its front. *)
Sound(q) ==
    /\ q \in Seq(Ids)
    /\ IsInjective(q)
    /\ running # None => q # <<>> /\ Head(q) = running

(* What is kept outside the queue and may still get a turn. *)
Held ==
    notices \cup monitor \cup ToSet(interjections)
        \cup (IF arm.at = "fallback" THEN ToSet(arm.ids) ELSE {})

(* No input is ahead of its arrival. *)
Arrived(t) == t[2] > left[t[1]]
AllArrived ==
    /\ \A t \in ToSet(queue) \cup Held : Arrived(t)
    /\ \A t \in Ids : turn[t] # "none" => Arrived(t)

(* Outside the queue nothing has had a turn, and nothing is held twice. *)
HeldFresh == \A t \in Held : turn[t] = "none" /\ t \notin ToSet(queue)
HeldOnce ==
    /\ IsInjective(interjections)
    /\ arm.at = "fallback" =>
           IsInjective(arm.ids) /\ ToSet(arm.ids) \cap ToSet(interjections) = {}

(* Of the queue, exactly the running prompt has had a turn. *)
QueueFresh ==
    /\ \A t \in ToSet(queue) : t # running => turn[t] = "none"
    /\ running # None => turn[running] # "none"

(* While a cancel can be accepted or carried out, what waits at the front  *)
(* of an idle queue is not a client's prompt.                              *)
CancelSafe ==
    /\ arm.at \in {"select", "drain", "cancel"} /\ running = None =>
           \A t \in ToSet(queue) : t[1] = "resume"
    /\ arm.at \in {"abort", "respond"} /\ arm.then # "kill" =>
           \A t \in ToSet(arm.ids) : t \in Users => turn[t] # "none"

(* The inductive invariant. *)
IInv ==
    /\ TypeOK /\ ArmType /\ ArmShape
    /\ Sound(queue) /\ AllArrived /\ HeldFresh /\ HeldOnce /\ QueueFresh
    /\ CancelSafe

-----------------------------------------------------------------------------
(* Sequences. *)

(* A set of numbers has a least one. *)
LEMMA LeastNat ==
    ASSUME NEW S \in SUBSET Nat, S # {}
    PROVE  \E m \in S : \A n \in S : m <= n
  <1> DEFINE lt == {ss \in Nat \X Nat : ss[1] < ss[2]}
  <1>1. IsWellFoundedOn(lt, Nat)
    BY NatLessThanWellFounded DEF OpToRel
  <1>2. PICK m \in S : \A n \in S : ~(<<n, m>> \in lt)
    <2> HIDE DEF lt
    <2> QED
      BY <1>1, WFMin
  <1>3. \A n \in S : ~(n < m)
    BY <1>2
  <1> QED
    BY <1>3

(* One round of Keep's loop, on the prefixes f kept so far. *)
KeepStep(q, S, f, i) ==
    IF i = 0 THEN <<>>
    ELSE IF q[i] \in S THEN Append(f[i - 1], q[i])
    ELSE f[i - 1]

(* Keep's loop has a result for every length: a least length without one   *)
(* would follow from the length before it.                                 *)
LEMMA KeptExists ==
    ASSUME NEW q, NEW S, NEW len \in Nat
    PROVE  \E f : f = [i \in 0 .. len |-> KeepStep(q, S, f, i)]
  <1> DEFINE Defined(n) == \E f : f = [i \in 0 .. n |-> KeepStep(q, S, f, i)]
  <1> DEFINE bad == {n \in Nat : ~Defined(n)}
  <1>1. Defined(0)
    <2> DEFINE f == [i \in 0 .. 0 |-> <<>>]
    <2>1. f = [i \in 0 .. 0 |-> KeepStep(q, S, f, i)]
      BY DEF KeepStep
    <2> QED
      BY <2>1
  <1>2. ASSUME NEW m \in Nat, m # 0, Defined(m - 1) PROVE Defined(m)
    <2>1. PICK f : f = [i \in 0 .. m - 1 |-> KeepStep(q, S, f, i)]
      BY <1>2
    <2> DEFINE g == [i \in 0 .. m |-> IF i = m THEN KeepStep(q, S, f, m) ELSE f[i]]
    <2>2. \A i \in 0 .. m - 1 : g[i] = f[i]
      OBVIOUS
    <2>3. \A i \in 0 .. m : g[i] = KeepStep(q, S, g, i)
      <3> SUFFICES ASSUME NEW i \in 0 .. m PROVE g[i] = KeepStep(q, S, g, i)
        OBVIOUS
      <3>1. i # 0 => g[i - 1] = f[i - 1]
        BY <2>2
      <3>2. KeepStep(q, S, g, i) = KeepStep(q, S, f, i)
        <4> HIDE DEF g
        <4> QED
          BY <3>1 DEF KeepStep
      <3>3. CASE i = m
        BY <3>2, <3>3
      <3>4. CASE i # m
        <4>1. i \in 0 .. m - 1
          BY <3>4
        <4>2. f[i] = KeepStep(q, S, f, i)
          BY <2>1, <4>1
        <4> QED
          BY <2>2, <3>2, <4>1, <4>2
      <3> QED
        BY <3>3, <3>4
    <2>4. g = [i \in 0 .. m |-> KeepStep(q, S, g, i)]
      BY <2>3
    <2> QED
      BY <2>4
  <1>3. ASSUME bad # {} PROVE FALSE
    <2>1. PICK m \in bad : \A n \in bad : m <= n
      <3>1. bad \in SUBSET Nat
        OBVIOUS
      <3> HIDE DEF bad
      <3> QED
        BY <1>3, <3>1, LeastNat
    <2>2. m \in Nat /\ ~Defined(m)
      OBVIOUS
    <2>3. m # 0
      BY <1>1, <2>2
    <2>4. m - 1 \in Nat
      BY <2>2, <2>3
    <2>5. m - 1 \notin bad
      BY <2>1, <2>2
    <2>6. Defined(m - 1)
      BY <2>4, <2>5
    <2> HIDE DEF Defined
    <2> QED
      BY <1>2, <2>2, <2>3, <2>6
  <1> QED
    BY <1>3

(* What Keep has kept of the first i items of q. *)
KeptOf(q, S, s, i) ==
    /\ s \in Seq(ToSet(q) \cap S)
    /\ \A j \in 1 .. i : q[j] \in S => q[j] \in ToSet(s)
    /\ \A k \in 1 .. Len(s) : \E j \in 1 .. i : s[k] = q[j]
    /\ IsInjective(q) => IsInjective(s)
    /\ i > 0 /\ q[1] \in S => s # <<>> /\ s[1] = q[1]

(* Keeping, or leaving out, one item more. *)
LEMMA KeepOneMore ==
    ASSUME NEW T, NEW q \in Seq(T), NEW S, NEW i \in 1 .. Len(q), NEW s, KeptOf(q, S, s, i - 1)
    PROVE  KeptOf(q, S, IF q[i] \in S THEN Append(s, q[i]) ELSE s, i)
  <1> DEFINE U == ToSet(q) \cap S
  <1>1. /\ s \in Seq(U) /\ i \in Nat \ {0}
        /\ \A j \in 1 .. i - 1 : q[j] \in S => q[j] \in ToSet(s)
        /\ \A k \in 1 .. Len(s) : \E j \in 1 .. i - 1 : s[k] = q[j]
        /\ IsInjective(q) => IsInjective(s)
        /\ i - 1 > 0 /\ q[1] \in S => s # <<>> /\ s[1] = q[1]
    BY DEF KeptOf
  <1>2. q[i] \in ToSet(q) /\ DOMAIN q = 1 .. Len(q)
    BY DEF ToSet
  <1>3. \A j \in 1 .. i : j = i \/ j \in 1 .. i - 1
    BY <1>1
  <1> DEFINE n == Len(s)
  <1>4. n \in Nat /\ DOMAIN s = 1 .. n
    BY <1>1
  <1>5. CASE q[i] \notin S
    <2>1. i > 0 /\ q[1] \in S => i - 1 > 0
      BY <1>1, <1>5
    <2>2. \A j \in 1 .. i : q[j] \in S => q[j] \in ToSet(s)
      BY <1>1, <1>3, <1>5
    <2>3. \A k \in 1 .. n : \E j \in 1 .. i : s[k] = q[j]
      BY <1>1
    <2> QED
      BY <1>1, <1>5, <2>1, <2>2, <2>3 DEF KeptOf
  <1>6. CASE q[i] \in S
    <2> DEFINE r == Append(s, q[i])
    <2>1. q[i] \in U
      BY <1>2, <1>6
    <2>2. /\ r \in Seq(U) /\ Len(r) = n + 1 /\ r[n + 1] = q[i] /\ DOMAIN r = 1 .. n + 1
          /\ \A k \in 1 .. n : r[k] = s[k]
      <3> HIDE DEF U
      <3> QED
        BY <1>1, <2>1
    <2> HIDE DEF r
    <2>3. \A t \in ToSet(s) : t \in ToSet(r)
      <3> SUFFICES ASSUME NEW k \in 1 .. n PROVE s[k] \in ToSet(r)
        BY <1>4 DEF ToSet
      <3>1. k \in 1 .. n + 1 /\ r[k] = s[k]
        BY <1>4, <2>2
      <3> QED
        BY <2>2, <3>1 DEF ToSet
    <2>4. q[i] \in ToSet(r)
      BY <1>4, <2>2 DEF ToSet
    <2>5. \A j \in 1 .. i : q[j] \in S => q[j] \in ToSet(r)
      BY <1>1, <1>3, <2>3, <2>4
    <2>6. \A k \in 1 .. Len(r) : \E j \in 1 .. i : r[k] = q[j]
      <3> SUFFICES ASSUME NEW k \in 1 .. n + 1 PROVE \E j \in 1 .. i : r[k] = q[j]
        BY <2>2
      <3>1. CASE k = n + 1
        BY <1>1, <2>2, <3>1
      <3>2. CASE k # n + 1
        <4>1. k \in 1 .. n
          BY <1>4, <3>2
        <4>2. PICK j \in 1 .. i - 1 : s[k] = q[j]
          BY <1>1, <4>1
        <4>3. j \in 1 .. i /\ r[k] = q[j]
          BY <1>1, <2>2, <4>1, <4>2
        <4> QED
          BY <4>3
      <3> QED
        BY <3>1, <3>2
    <2>7. ASSUME IsInjective(q) PROVE IsInjective(r)
      <3>1. \A k \in 1 .. n : r[k] # q[i]
        <4> SUFFICES ASSUME NEW k \in 1 .. n PROVE r[k] # q[i]
          OBVIOUS
        <4>1. PICK j \in 1 .. i - 1 : s[k] = q[j]
          BY <1>1
        <4>2. j \in 1 .. Len(q) /\ j # i
          BY <1>1
        <4>3. q[j] # q[i]
          BY <1>2, <2>7, <4>2 DEF IsInjective
        <4> QED
          BY <2>2, <4>1, <4>3
      <3>2. \A a, b \in 1 .. n : s[a] = s[b] => a = b
        BY <1>1, <1>4, <2>7 DEF IsInjective
      <3>3. \A a \in 1 .. n + 1 : a = n + 1 \/ a \in 1 .. n
        BY <1>4
      <3> QED
        BY <2>2, <3>1, <3>2, <3>3 DEF IsInjective
    <2>8. i > 0 /\ q[1] \in S => r # <<>> /\ r[1] = q[1]
      <3>1. r # <<>>
        BY <1>4, <2>2
      <3>2. CASE i = 1
        <4>1. n = 0
          BY <1>1, <1>4, <3>2
        <4> QED
          BY <2>2, <3>1, <3>2, <4>1
      <3>3. CASE i # 1 /\ q[1] \in S
        <4>1. s # <<>> /\ s[1] = q[1]
          BY <1>1, <3>3
        <4>2. 1 \in 1 .. n
          BY <1>1, <1>4, <4>1
        <4> QED
          BY <2>2, <3>1, <4>1, <4>2
      <3> QED
        BY <3>2, <3>3
    <2>9. KeptOf(q, S, r, i)
      BY <2>2, <2>5, <2>6, <2>7, <2>8 DEF KeptOf
    <2> QED
      BY <1>6, <2>9 DEF r
  <1> QED
    BY <1>5, <1>6

(* Keep has kept of all items what belongs to S. *)
LEMMA KeepAll ==
    ASSUME NEW T, NEW q \in Seq(T), NEW S
    PROVE  KeptOf(q, S, Keep(q, S), Len(q))
  <1> DEFINE f == CHOOSE f : f = [i \in 0 .. Len(q) |-> KeepStep(q, S, f, i)]
  <1>1. Keep(q, S) = f[Len(q)]
    BY DEF Keep, KeepStep
  <1>2. f = [i \in 0 .. Len(q) |-> KeepStep(q, S, f, i)]
    <2>1. Len(q) \in Nat
      OBVIOUS
    <2>2. \E g : g = [i \in 0 .. Len(q) |-> KeepStep(q, S, g, i)]
      BY <2>1, KeptExists
    <2> QED
      BY <2>2
  <1> HIDE DEF f
  <1>3. \A i \in 0 .. Len(q) : f[i] = KeepStep(q, S, f, i)
    BY <1>2
  <1> DEFINE bad == {i \in 0 .. Len(q) : ~KeptOf(q, S, f[i], i)}
  <1>4. ASSUME bad # {} PROVE FALSE
    <2>1. PICK m \in bad : \A n \in bad : m <= n
      <3>1. bad \in SUBSET Nat
        OBVIOUS
      <3> HIDE DEF bad
      <3> QED
        BY <1>4, <3>1, LeastNat
    <2>2. m \in 0 .. Len(q) /\ ~KeptOf(q, S, f[m], m)
      OBVIOUS
    <2>3. m # 0
      <3>1. f[0] = <<>>
        BY <1>3 DEF KeepStep
      <3>2. <<>> \in Seq(ToSet(q) \cap S) /\ Len(<<>>) = 0 /\ DOMAIN <<>> = {}
        OBVIOUS
      <3>3. KeptOf(q, S, f[0], 0)
        BY <3>1, <3>2 DEF KeptOf, IsInjective
      <3> QED
        BY <2>2, <3>3
    <2>4. m \in 1 .. Len(q) /\ m - 1 \in 0 .. Len(q) /\ m - 1 \notin bad
      BY <2>1, <2>2, <2>3
    <2>5. KeptOf(q, S, f[m - 1], m - 1)
      BY <2>4
    <2>6. f[m] = IF q[m] \in S THEN Append(f[m - 1], q[m]) ELSE f[m - 1]
      BY <1>3, <2>2, <2>3 DEF KeepStep
    <2>7. KeptOf(q, S, f[m], m)
      <3> HIDE DEF bad
      <3> QED
        BY <2>4, <2>5, <2>6, KeepOneMore
    <2> QED
      BY <2>2, <2>7
  <1>5. Len(q) \in 0 .. Len(q)
    OBVIOUS
  <1> QED
    BY <1>1, <1>4, <1>5

(* Keep is a filter: it keeps the items of S and no others, repeats none,   *)
(* and leaves the front in front.                                           *)
LEMMA KeepFacts ==
    ASSUME NEW T, NEW q \in Seq(T), NEW S
    PROVE  /\ Keep(q, S) \in Seq(T)
           /\ ToSet(Keep(q, S)) = ToSet(q) \cap S
           /\ IsInjective(q) => IsInjective(Keep(q, S))
           /\ q # <<>> /\ Head(q) \in S => Keep(q, S) # <<>> /\ Head(Keep(q, S)) = Head(q)
  <1> DEFINE s == Keep(q, S)
  <1> HIDE DEF s
  <1>1. KeptOf(q, S, s, Len(q))
    BY KeepAll DEF s
  <1>2. /\ s \in Seq(ToSet(q) \cap S) /\ DOMAIN s = 1 .. Len(s) /\ Len(s) \in Nat
        /\ DOMAIN q = 1 .. Len(q) /\ Len(q) \in Nat
    BY <1>1 DEF KeptOf
  <1>3. ToSet(q) \subseteq T
    BY <1>2 DEF ToSet
  <1>4. \A k \in 1 .. Len(s) : s[k] \in ToSet(q) \cap S
    BY <1>2
  <1>5. s \in Seq(T)
    BY <1>2, <1>3, <1>4
  <1>6. ToSet(s) = ToSet(q) \cap S
    <2>1. ToSet(s) \subseteq ToSet(q) \cap S
      BY <1>2, <1>4 DEF ToSet
    <2>2. \A j \in DOMAIN q : q[j] \in S => q[j] \in ToSet(s)
      BY <1>1, <1>2 DEF KeptOf
    <2>3. \A t \in ToSet(q) \cap S : t \in ToSet(s)
      <3> SUFFICES ASSUME NEW t \in ToSet(q), t \in S PROVE t \in ToSet(s)
        OBVIOUS
      <3>1. PICK j \in DOMAIN q : t = q[j]
        BY DEF ToSet
      <3> QED
        BY <2>2, <3>1
    <2> QED
      BY <2>1, <2>3
  <1>7. q # <<>> /\ Head(q) \in S => s # <<>> /\ Head(s) = Head(q)
    <2> SUFFICES ASSUME q # <<>>, Head(q) \in S PROVE s # <<>> /\ Head(s) = Head(q)
      OBVIOUS
    <2>1. Len(q) > 0 /\ Head(q) = q[1]
      OBVIOUS
    <2>2. s # <<>> /\ s[1] = q[1]
      BY <1>1, <2>1 DEF KeptOf
    <2> QED
      BY <1>5, <2>1, <2>2
  <1> QED
    BY <1>1, <1>5, <1>6, <1>7 DEF KeptOf, s

(* Putting one new item somewhere in a sequence. *)
LEMMA Inserted ==
    ASSUME NEW T, NEW q \in Seq(T), NEW t \in T \ ToSet(q), NEW at \in 1 .. Len(q) + 1,
           NEW r \in Seq(T), Len(r) = Len(q) + 1, r[at] = t,
           \A k \in 1 .. at - 1 : r[k] = q[k],
           \A k \in at + 1 .. Len(q) + 1 : r[k] = q[k - 1]
    PROVE  /\ ToSet(r) = ToSet(q) \cup {t}
           /\ IsInjective(q) => IsInjective(r)
           /\ at > 1 => r # <<>> /\ Head(r) = Head(q)
  <1> DEFINE n == Len(q)
  <1>1. n \in Nat /\ DOMAIN q = 1 .. n /\ DOMAIN r = 1 .. n + 1 /\ at \in Nat
    OBVIOUS
  <1> DEFINE old(k) == IF k < at THEN k ELSE k - 1
  <1>2. ASSUME NEW k \in 1 .. n + 1, k # at
        PROVE  old(k) \in 1 .. n /\ r[k] = q[old(k)]
    BY <1>1, <1>2
  <1>3. ASSUME NEW j \in 1 .. n PROVE \E k \in 1 .. n + 1 : k # at /\ old(k) = j
    <2>1. CASE j < at
      BY <1>1, <2>1
    <2>2. CASE ~(j < at)
      <3>1. j + 1 \in 1 .. n + 1 /\ j + 1 # at /\ old(j + 1) = j
        BY <1>1, <2>2
      <3> QED
        BY <3>1
    <2> QED
      BY <2>1, <2>2
  <1>4. \A a, b \in 1 .. n + 1 : a # at /\ b # at /\ old(a) = old(b) => a = b
    BY <1>1
  <1> HIDE DEF old
  <1>5. ToSet(r) = ToSet(q) \cup {t}
    <2>1. \A x \in ToSet(r) : x \in ToSet(q) \cup {t}
      BY <1>1, <1>2 DEF ToSet
    <2>2. \A x \in ToSet(q) : x \in ToSet(r)
      <3> SUFFICES ASSUME NEW j \in 1 .. n PROVE q[j] \in ToSet(r)
        BY <1>1 DEF ToSet
      <3>1. PICK k \in 1 .. n + 1 : k # at /\ old(k) = j
        BY <1>3
      <3>2. r[k] = q[j]
        BY <1>2, <3>1
      <3> QED
        BY <1>1, <3>2 DEF ToSet
    <2>3. t \in ToSet(r)
      BY <1>1 DEF ToSet
    <2> QED
      BY <2>1, <2>2, <2>3
  <1>6. ASSUME IsInjective(q) PROVE IsInjective(r)
    <2>1. \A k \in 1 .. n + 1 : k # at => r[k] # t
      BY <1>1, <1>2 DEF ToSet
    <2>2. \A a, b \in 1 .. n : q[a] = q[b] => a = b
      BY <1>1, <1>6 DEF IsInjective
    <2>3. ASSUME NEW a \in 1 .. n + 1, NEW b \in 1 .. n + 1, r[a] = r[b] PROVE a = b
      <3>1. CASE a = at \/ b = at
        BY <2>1, <2>3, <3>1
      <3>2. CASE a # at /\ b # at
        <4>1. old(a) \in 1 .. n /\ old(b) \in 1 .. n /\ r[a] = q[old(a)] /\ r[b] = q[old(b)]
          BY <1>2, <3>2
        <4>2. old(a) = old(b)
          BY <2>2, <2>3, <4>1
        <4> QED
          BY <1>4, <3>2, <4>2
      <3> QED
        BY <3>1, <3>2
    <2> QED
      BY <1>1, <2>3 DEF IsInjective
  <1>7. at > 1 => r # <<>> /\ Head(r) = Head(q)
    <2> SUFFICES ASSUME at > 1 PROVE r # <<>> /\ Head(r) = Head(q)
      OBVIOUS
    <2>1. r[1] = q[1] /\ n > 0
      BY <1>1
    <2> QED
      BY <1>1, <2>1
  <1> QED
    BY <1>5, <1>6, <1>7

(* Appending. *)
LEMMA Appended ==
    ASSUME NEW T, NEW q \in Seq(T), NEW t \in T \ ToSet(q)
    PROVE  /\ Append(q, t) \in Seq(T)
           /\ ToSet(Append(q, t)) = ToSet(q) \cup {t}
           /\ IsInjective(q) => IsInjective(Append(q, t))
           /\ q # <<>> => Head(Append(q, t)) = Head(q)
           /\ Append(q, t) # <<>>
  <1> DEFINE r == Append(q, t)
  <1> DEFINE n == Len(q)
  <1>1. /\ r \in Seq(T) /\ n \in Nat /\ Len(r) = n + 1 /\ r[n + 1] = t
        /\ \A k \in 1 .. n : r[k] = q[k]
    OBVIOUS
  <1>2. n + 1 \in 1 .. n + 1 /\ n + 1 - 1 = n
    BY <1>1
  <1>3. \A k \in n + 1 + 1 .. n + 1 : r[k] = q[k - 1]
    BY <1>1
  <1> HIDE DEF r
  <1>4. /\ ToSet(r) = ToSet(q) \cup {t}
        /\ IsInjective(q) => IsInjective(r)
        /\ n + 1 > 1 => r # <<>> /\ Head(r) = Head(q)
    BY <1>1, <1>2, <1>3, Inserted
  <1>5. q # <<>> => n + 1 > 1
    BY <1>1
  <1>6. r # <<>>
    BY <1>1
  <1> QED
    BY <1>1, <1>4, <1>5, <1>6 DEF r

(* InsertAt. *)
LEMMA InsertedAt ==
    ASSUME NEW T, NEW q \in Seq(T), NEW t \in T \ ToSet(q), NEW at \in 1 .. Len(q) + 1
    PROVE  /\ InsertAt(q, at, t) \in Seq(T)
           /\ ToSet(InsertAt(q, at, t)) = ToSet(q) \cup {t}
           /\ IsInjective(q) => IsInjective(InsertAt(q, at, t))
           /\ at > 1 => InsertAt(q, at, t) # <<>> /\ Head(InsertAt(q, at, t)) = Head(q)
  <1> DEFINE n == Len(q)
  <1> DEFINE a == SubSeq(q, 1, at - 1)
  <1> DEFINE b == SubSeq(q, at, n)
  <1> DEFINE r == a \o <<t>> \o b
  <1>1. n \in Nat /\ at \in Nat /\ at >= 1 /\ at <= n + 1
    OBVIOUS
  <1>2. a \in Seq(T) /\ Len(a) = at - 1 /\ \A k \in 1 .. at - 1 : a[k] = q[k]
    BY <1>1
  <1>3. b \in Seq(T) /\ Len(b) = n + 1 - at /\ \A k \in 1 .. n + 1 - at : b[k] = q[at + k - 1]
    BY <1>1
  <1> HIDE DEF a, b
  <1> DEFINE c == a \o <<t>>
  <1>4. /\ c \in Seq(T) /\ Len(c) = at /\ c[at] = t
        /\ \A k \in 1 .. at - 1 : c[k] = q[k]
    BY <1>1, <1>2
  <1> HIDE DEF c
  <1>5. r = c \o b
    BY DEF c
  <1> HIDE DEF r
  <1>6. r \in Seq(T) /\ Len(r) = n + 1 /\ r[at] = t /\ \A k \in 1 .. at - 1 : r[k] = q[k]
    <2>1. r \in Seq(T) /\ Len(r) = at + (n + 1 - at) /\ \A k \in 1 .. at : r[k] = c[k]
      BY <1>3, <1>4, <1>5
    <2>2. at + (n + 1 - at) = n + 1 /\ at \in 1 .. at /\ \A k \in 1 .. at - 1 : k \in 1 .. at
      BY <1>1
    <2> QED
      BY <1>4, <2>1, <2>2
  <1>7. ASSUME NEW k \in at + 1 .. n + 1 PROVE r[k] = q[k - 1]
    <2>1. r[k] = b[k - at] /\ k - at \in 1 .. n + 1 - at
      BY <1>1, <1>3, <1>4, <1>5
    <2>2. at + (k - at) - 1 = k - 1
      BY <1>1
    <2>3. b[k - at] = q[at + (k - at) - 1]
      BY <1>3, <2>1
    <2> QED
      BY <2>1, <2>2, <2>3
  <1>8. InsertAt(q, at, t) = r
    BY DEF InsertAt, r, a, b
  <1>9. /\ ToSet(r) = ToSet(q) \cup {t}
        /\ IsInjective(q) => IsInjective(r)
        /\ at > 1 => r # <<>> /\ Head(r) = Head(q)
    BY <1>6, <1>7, Inserted
  <1> QED
    BY <1>6, <1>8, <1>9

(* Taking the front away. *)
LEMMA TailFacts ==
    ASSUME NEW T, NEW q \in Seq(T), q # <<>>, IsInjective(q)
    PROVE  /\ Tail(q) \in Seq(T) /\ IsInjective(Tail(q))
           /\ ToSet(Tail(q)) \subseteq ToSet(q) \ {Head(q)}
           /\ Head(q) \in ToSet(q)
  <1> DEFINE r == Tail(q)
  <1> DEFINE n == Len(q)
  <1>1. /\ r \in Seq(T) /\ n \in Nat \ {0} /\ Len(r) = n - 1 /\ Head(q) = q[1]
        /\ \A k \in 1 .. n - 1 : r[k] = q[k + 1]
    OBVIOUS
  <1>2. DOMAIN q = 1 .. n /\ DOMAIN r = 1 .. n - 1
    BY <1>1
  <1> HIDE DEF r
  <1>3. \A a, b \in 1 .. n : q[a] = q[b] => a = b
    BY <1>2 DEF IsInjective
  <1>4. \A k \in 1 .. n - 1 : k + 1 \in 1 .. n /\ k + 1 # 1
    BY <1>1
  <1>5. IsInjective(r)
    <2> SUFFICES ASSUME NEW a \in 1 .. n - 1, NEW b \in 1 .. n - 1, r[a] = r[b] PROVE a = b
      BY <1>2 DEF IsInjective
    <2>1. q[a + 1] = q[b + 1]
      BY <1>1
    <2>2. a + 1 = b + 1
      BY <1>3, <1>4, <2>1
    <2> QED
      BY <2>2
  <1>6. ASSUME NEW k \in 1 .. n - 1 PROVE r[k] \in ToSet(q) /\ r[k] # q[1]
    <2>1. r[k] = q[k + 1] /\ 1 \in 1 .. n
      BY <1>1
    <2>2. q[k + 1] # q[1]
      BY <1>3, <1>4, <2>1
    <2> QED
      BY <1>2, <1>4, <2>1, <2>2 DEF ToSet
  <1>7. ToSet(r) \subseteq ToSet(q) \ {Head(q)}
    BY <1>1, <1>2, <1>6 DEF ToSet
  <1>8. Head(q) \in ToSet(q)
    BY <1>1, <1>2 DEF ToSet
  <1> QED
    BY <1>1, <1>5, <1>7, <1>8 DEF r

(* Concatenation of sequences that share nothing. *)
LEMMA Joined ==
    ASSUME NEW T, NEW a \in Seq(T), NEW b \in Seq(T)
    PROVE  /\ a \o b \in Seq(T)
           /\ ToSet(a \o b) = ToSet(a) \cup ToSet(b)
           /\ IsInjective(a) /\ IsInjective(b) /\ ToSet(a) \cap ToSet(b) = {} => IsInjective(a \o b)
           /\ a # <<>> => a \o b # <<>> /\ Head(a \o b) = Head(a)
  <1> DEFINE r == a \o b
  <1> DEFINE n == Len(a)
  <1> DEFINE m == Len(b)
  <1>1. /\ r \in Seq(T) /\ n \in Nat /\ m \in Nat /\ Len(r) = n + m
        /\ \A k \in 1 .. n : r[k] = a[k]
        /\ \A k \in n + 1 .. n + m : r[k] = b[k - n]
        /\ DOMAIN a = 1 .. n /\ DOMAIN b = 1 .. m /\ DOMAIN r = 1 .. n + m
    OBVIOUS
  <1> HIDE DEF r
  <1>2. ASSUME NEW k \in 1 .. n + m
        PROVE  \/ k \in 1 .. n /\ r[k] = a[k] /\ r[k] \in ToSet(a)
               \/ k - n \in 1 .. m /\ r[k] = b[k - n] /\ r[k] \in ToSet(b)
    <2>1. CASE k \in 1 .. n
      BY <1>1, <2>1 DEF ToSet
    <2>2. CASE k \notin 1 .. n
      <3>1. k \in n + 1 .. n + m /\ k - n \in 1 .. m
        BY <1>1, <2>2
      <3> QED
        BY <1>1, <3>1 DEF ToSet
    <2> QED
      BY <2>1, <2>2
  <1>3. ToSet(r) = ToSet(a) \cup ToSet(b)
    <2>1. \A x \in ToSet(r) : x \in ToSet(a) \cup ToSet(b)
      BY <1>1, <1>2 DEF ToSet
    <2>2. ASSUME NEW k \in 1 .. n PROVE a[k] \in ToSet(r)
      <3>1. k \in 1 .. n + m /\ r[k] = a[k]
        BY <1>1
      <3> QED
        BY <1>1, <3>1 DEF ToSet
    <2>3. ASSUME NEW k \in 1 .. m PROVE b[k] \in ToSet(r)
      <3>1. k + n \in n + 1 .. n + m /\ k + n \in 1 .. n + m /\ (k + n) - n = k
        BY <1>1
      <3>2. r[k + n] = b[k]
        BY <1>1, <3>1
      <3> QED
        BY <1>1, <3>1, <3>2 DEF ToSet
    <2>4. \A x \in ToSet(a) \cup ToSet(b) : x \in ToSet(r)
      BY <1>1, <2>2, <2>3 DEF ToSet
    <2> QED
      BY <2>1, <2>4
  <1>4. ASSUME IsInjective(a), IsInjective(b), ToSet(a) \cap ToSet(b) = {} PROVE IsInjective(r)
    <2>1. \A i, j \in 1 .. n : a[i] = a[j] => i = j
      BY <1>1, <1>4 DEF IsInjective
    <2>2. \A i, j \in 1 .. m : b[i] = b[j] => i = j
      BY <1>1, <1>4 DEF IsInjective
    <2> SUFFICES ASSUME NEW i \in 1 .. n + m, NEW j \in 1 .. n + m, r[i] = r[j] PROVE i = j
      BY <1>1 DEF IsInjective
    <2>3. \/ i \in 1 .. n /\ j \in 1 .. n /\ a[i] = a[j]
          \/ i - n \in 1 .. m /\ j - n \in 1 .. m /\ b[i - n] = b[j - n]
      BY <1>2, <1>4
    <2>4. i = j \/ i - n = j - n
      BY <2>1, <2>2, <2>3
    <2> QED
      BY <1>1, <2>4
  <1>5. ASSUME a # <<>> PROVE r # <<>> /\ Head(r) = Head(a)
    <2>1. n > 0 /\ r[1] = a[1]
      BY <1>1, <1>5
    <2> QED
      BY <1>1, <2>1
  <1> QED
    BY <1>1, <1>3, <1>4, <1>5 DEF r

(* A sequence over a set is one over any larger set. *)
LEMMA SeqMonotone ==
    ASSUME NEW S, NEW T, S \subseteq T, NEW q \in Seq(S)
    PROVE  q \in Seq(T)
  OBVIOUS

-----------------------------------------------------------------------------
(* The operations on the queue. *)

(* The front of a sound queue belongs to it. *)
LEMMA FrontQueued ==
    ASSUME NEW q, Sound(q)
    PROVE  /\ q # <<>> => Head(q) \in ToSet(q) /\ Head(q) \in Ids
           /\ running # None => running \in ToSet(q)
           /\ ToSet(q) \subseteq Ids
  <1>1. ASSUME q # <<>> PROVE Head(q) \in ToSet(q) /\ Head(q) \in Ids
    BY <1>1, TailFacts DEF Sound
  <1>2. ToSet(q) \subseteq Ids
    BY DEF Sound, ToSet
  <1> QED
    BY <1>1, <1>2 DEF Sound

(* Filtering keeps the queue sound unless it drops the running turn. *)
LEMMA SoundKeep ==
    ASSUME NEW q, Sound(q), NEW S, running # None => running \in S
    PROVE  Sound(Keep(q, S)) /\ ToSet(Keep(q, S)) = ToSet(q) \cap S
  <1> DEFINE r == Keep(q, S)
  <1> HIDE DEF r
  <1>1. /\ r \in Seq(Ids) /\ ToSet(r) = ToSet(q) \cap S /\ IsInjective(r)
        /\ q # <<>> /\ Head(q) \in S => r # <<>> /\ Head(r) = Head(q)
    BY KeepFacts DEF r, Sound
  <1>2. running # None => r # <<>> /\ Head(r) = running
    BY <1>1 DEF Sound
  <1> QED
    BY <1>1, <1>2 DEF Sound, r

(* Sweeps, removals and clears leave the running turn alone. *)
LEMMA SoundWithout ==
    ASSUME NEW q, Sound(q), NEW S, running \notin S
    PROVE  Sound(Without(q, S)) /\ ToSet(Without(q, S)) = ToSet(q) \ S
  <1>1. ToSet(q) \subseteq Ids /\ (running # None => running \in Ids)
    BY FrontQueued
  <1>2. Sound(Keep(q, Ids \ S)) /\ ToSet(Keep(q, Ids \ S)) = ToSet(q) \cap (Ids \ S)
    BY <1>1, SoundKeep
  <1> QED
    BY <1>1, <1>2 DEF Without

(* A sweep never takes the running turn. *)
LEMMA SoundSweep ==
    ASSUME Sound(queue), NEW S
    PROVE  Sound(Sweep(S)) /\ ToSet(Sweep(S)) \subseteq ToSet(queue)
  <1> DEFINE R == S \ {running}
  <1>1. running \notin R
    OBVIOUS
  <1> HIDE DEF R
  <1>2. Sound(Without(queue, R)) /\ ToSet(Without(queue, R)) = ToSet(queue) \ R
    BY <1>1, SoundWithout
  <1> QED
    BY <1>2 DEF Sweep, R

(* A new item at the end. *)
LEMMA SoundAppend ==
    ASSUME NEW q, Sound(q), NEW t \in Ids \ ToSet(q)
    PROVE  Sound(Append(q, t)) /\ ToSet(Append(q, t)) = ToSet(q) \cup {t}
  <1> DEFINE r == Append(q, t)
  <1> HIDE DEF r
  <1>1. /\ r \in Seq(Ids) /\ ToSet(r) = ToSet(q) \cup {t} /\ IsInjective(r)
        /\ (q # <<>> => Head(r) = Head(q)) /\ r # <<>>
    BY Appended DEF r, Sound
  <1> QED
    BY <1>1 DEF Sound, r

(* A new item behind the running turn. *)
LEMMA SoundInsertAt ==
    ASSUME NEW q, Sound(q), NEW t \in Ids \ ToSet(q), NEW at \in 1 .. Len(q) + 1,
           running # None => at > 1
    PROVE  Sound(InsertAt(q, at, t)) /\ ToSet(InsertAt(q, at, t)) = ToSet(q) \cup {t}
  <1> DEFINE r == InsertAt(q, at, t)
  <1> HIDE DEF r
  <1>1. /\ r \in Seq(Ids) /\ ToSet(r) = ToSet(q) \cup {t} /\ IsInjective(r)
        /\ at > 1 => r # <<>> /\ Head(r) = Head(q)
    BY InsertedAt DEF r, Sound
  <1> QED
    BY <1>1 DEF Sound, r

(* Interjections that become prompts go behind the running turn. *)
LEMMA SoundInsertAfterRunning ==
    ASSUME NEW q, Sound(q), NEW t \in Ids \ ToSet(q)
    PROVE  /\ Sound(InsertAfterRunning(q, t))
           /\ ToSet(InsertAfterRunning(q, t)) = ToSet(q) \cup {t}
  <1> USE DEF Sound
  <1>1. CASE RunningIsAtFront(q)
    <2> DEFINE h == <<Head(q), t>>
    <2> DEFINE rest == Tail(q)
    <2> DEFINE r == h \o rest
    <2> DEFINE n == Len(q)
    <2>1. q # <<>> /\ n \in Nat \ {0} /\ Head(q) = q[1] /\ Head(q) \in Ids
      BY <1>1 DEF RunningIsAtFront
    <2>2. h \in Seq(Ids) /\ Len(h) = 2 /\ h[1] = q[1] /\ h[2] = t
      BY <2>1
    <2>3. /\ rest \in Seq(Ids) /\ Len(rest) = n - 1
          /\ \A k \in 1 .. n - 1 : rest[k] = q[k + 1]
      BY <2>1
    <2> HIDE DEF h, rest
    <2>4. /\ r \in Seq(Ids) /\ Len(r) = 2 + (n - 1)
          /\ \A k \in 1 .. 2 : r[k] = h[k]
          /\ \A k \in 2 + 1 .. 2 + (n - 1) : r[k] = rest[k - 2]
      <3>1. h \in Seq(Ids) /\ rest \in Seq(Ids)
        BY <2>2, <2>3
      <3>2. /\ r \in Seq(Ids) /\ Len(r) = Len(h) + Len(rest)
            /\ \A k \in 1 .. Len(h) : r[k] = h[k]
            /\ \A k \in Len(h) + 1 .. Len(h) + Len(rest) : r[k] = rest[k - Len(h)]
        BY ONLY <3>1
      <3> HIDE DEF r
      <3> QED
        BY <2>2, <2>3, <3>2
    <2> HIDE DEF r
    <2>5. r[1] = q[1] /\ r[2] = t
      BY <2>2, <2>4
    <2>6. ASSUME NEW k \in 2 + 1 .. n + 1 PROVE r[k] = q[k - 1]
      <3>1. k - 2 \in 1 .. n - 1 /\ (k - 2) + 1 = k - 1
        BY <2>1
      <3>2. r[k] = rest[k - 2]
        BY <2>1, <2>4
      <3> QED
        BY <2>3, <3>1, <3>2
    <2>7. \A k \in 1 .. 2 - 1 : r[k] = q[k]
      BY <2>5
    <2>8. 2 \in 1 .. n + 1 /\ 2 + (n - 1) = n + 1
      BY <2>1
    <2>9. ToSet(r) = ToSet(q) \cup {t} /\ IsInjective(r) /\ r # <<>> /\ Head(r) = Head(q)
      BY <2>4, <2>5, <2>6, <2>7, <2>8, Inserted
    <2>10. InsertAfterRunning(q, t) = r
      BY <1>1 DEF InsertAfterRunning, r, h, rest
    <2> QED
      BY <2>4, <2>9, <2>10
  <1>2. CASE ~RunningIsAtFront(q)
    <2>1. running = None
      BY <1>2 DEF RunningIsAtFront
    <2>2. InsertAfterRunning(q, t) = InsertAt(q, 1, t)
      <3>1. SubSeq(q, 1, 1 - 1) = <<>> /\ SubSeq(q, 1, Len(q)) = q
        OBVIOUS
      <3>2. <<>> \o <<t>> = <<t>>
        OBVIOUS
      <3> QED
        BY <1>2, <3>1, <3>2 DEF InsertAfterRunning, InsertAt
    <2>3. 1 \in 1 .. Len(q) + 1
      OBVIOUS
    <2> QED
      BY <2>1, <2>2, <2>3, SoundInsertAt
  <1> QED
    BY <1>1, <1>2

(* A send-now finds its place, behind the running turn. *)
LEMMA SoundInsertSendNow ==
    ASSUME NEW q, Sound(q), NEW t \in Ids \ ToSet(q)
    PROVE  Sound(InsertSendNow(q, t)) /\ ToSet(InsertSendNow(q, t)) = ToSet(q) \cup {t}
  <1> DEFINE first == IF RunningIsAtFront(q) THEN 2 ELSE 1
  <1> DEFINE Free(i) == i > Len(q) \/ q[i] \notin sendNow
  <1> DEFINE free == {i \in first .. Len(q) + 1 : Free(i)}
  <1>1. Len(q) \in Nat /\ first \in {1, 2} /\ (running # None => first = 2)
    BY DEF Sound, RunningIsAtFront
  <1>2. first <= Len(q) + 1
    BY DEF Sound, RunningIsAtFront
  <1> HIDE DEF first
  <1>3. Len(q) + 1 \in free
    BY <1>1, <1>2
  <1>4. PICK m \in free : \A n \in free : m <= n
    <2>1. free \in SUBSET Nat /\ free # {}
      BY <1>1, <1>3
    <2> HIDE DEF free
    <2> QED
      BY <2>1, LeastNat
  <1>5. m \in first .. Len(q) + 1 /\ Free(m) /\ \A j \in first .. m - 1 : ~Free(j)
    <2>1. m \in first .. Len(q) + 1 /\ Free(m)
      OBVIOUS
    <2>2. ASSUME NEW j \in first .. m - 1, Free(j) PROVE FALSE
      <3>1. j \in first .. Len(q) + 1 /\ j < m /\ m \in Nat /\ j \in Nat
        BY <1>1, <2>1
      <3>2. j \in free
        BY <2>2, <3>1
      <3>3. m <= j
        <4> HIDE DEF free
        <4> QED
          BY <1>4, <3>2
      <3> QED
        BY <3>1, <3>3
    <2> QED
      BY <2>1, <2>2
  <1> DEFINE at == CHOOSE i \in first .. Len(q) + 1 : Free(i) /\ \A j \in first .. i - 1 : ~Free(j)
  <1>6. at \in first .. Len(q) + 1
    <2> HIDE DEF Free, free
    <2> QED
      BY <1>5
  <1>7. InsertSendNow(q, t) = InsertAt(q, at, t)
    BY DEF InsertSendNow, first
  <1> HIDE DEF at
  <1>8. at \in 1 .. Len(q) + 1 /\ (running # None => at > 1)
    BY <1>1, <1>6
  <1> QED
    BY <1>7, <1>8, SoundInsertAt

(* A reorder loses nothing, repeats nothing and pins the running turn. *)
LEMMA SoundReordered ==
    ASSUME Sound(queue), NEW order \in Orders
    PROVE  Sound(Reordered(order)) /\ ToSet(Reordered(order)) = ToSet(queue)
  <1> DEFINE queued == (Users \cap ToSet(queue)) \ {running}
  <1> DEFINE a == Without(queue, queued)
  <1> DEFINE b == Keep(order, queued)
  <1> DEFINE c == Keep(queue, queued \ ToSet(order))
  <1>1. queued \subseteq ToSet(queue) /\ running \notin queued
    OBVIOUS
  <1>2. Sound(a) /\ ToSet(a) = ToSet(queue) \ queued
    <2> HIDE DEF queued
    <2> QED
      BY <1>1, SoundWithout
  <1>3. order \in Seq(Users) /\ IsInjective(order)
    BY QueueAssumption DEF QueueAssumption
  <1>4. b \in Seq(Users) /\ ToSet(b) = ToSet(order) \cap queued /\ IsInjective(b)
    <2> HIDE DEF queued
    <2> QED
      BY <1>3, KeepFacts
  <1>5. c \in Seq(Ids) /\ ToSet(c) = ToSet(queue) \cap (queued \ ToSet(order)) /\ IsInjective(c)
    <2> HIDE DEF queued
    <2> QED
      BY KeepFacts DEF Sound
  <1>6. b \in Seq(Ids)
    <2>1. Users \subseteq Ids
      BY DEF Users, OfKind, Ids, Kinds
    <2> HIDE DEF b
    <2> QED
      BY <1>4, <2>1, SeqMonotone
  <1>7. Reordered(order) = (a \o b) \o c
    BY DEF Reordered
  <1> HIDE DEF a, b, c, queued
  <1>8. /\ a \o b \in Seq(Ids) /\ ToSet(a \o b) = ToSet(a) \cup ToSet(b) /\ IsInjective(a \o b)
        /\ a # <<>> => a \o b # <<>> /\ Head(a \o b) = Head(a)
    <2>1. a \in Seq(Ids) /\ IsInjective(a) /\ ToSet(a) \cap ToSet(b) = {}
      BY <1>2, <1>4 DEF Sound
    <2> QED
      BY <1>4, <1>6, <2>1, Joined
  <1> DEFINE ab == a \o b
  <1> HIDE DEF ab
  <1>9. /\ ab \o c \in Seq(Ids) /\ ToSet(ab \o c) = ToSet(ab) \cup ToSet(c) /\ IsInjective(ab \o c)
        /\ ab # <<>> => ab \o c # <<>> /\ Head(ab \o c) = Head(ab)
    <2>1. ab \in Seq(Ids) /\ IsInjective(ab) /\ ToSet(ab) \cap ToSet(c) = {}
      BY <1>2, <1>4, <1>5, <1>8 DEF ab
    <2> QED
      BY <1>5, <2>1, Joined
  <1>10. running # None => a # <<>> /\ Head(a) = running
    BY <1>2 DEF Sound
  <1>11. Sound(ab \o c)
    BY <1>8, <1>9, <1>10 DEF Sound, ab
  <1>12. ToSet(ab \o c) = ToSet(queue)
    BY <1>1, <1>2, <1>4, <1>5, <1>8, <1>9 DEF ab
  <1> QED
    BY <1>7, <1>11, <1>12 DEF ab

-----------------------------------------------------------------------------
(* What the steps have in common. *)

(* None is not an input. *)
LEMMA NoneIsNoInput == None \notin Ids
  BY DEF None, Ids, Kinds

(* The next input of a kind is new everywhere, and has arrived afterwards. *)
LEMMA ArrivalFresh ==
    ASSUME IInv, NEW k \in Kinds, Accept(k)
    PROVE  /\ Arrive(k) \in OfKind(k) /\ OfKind(k) \subseteq Ids
           /\ Arrive(k) \notin ToSet(queue) /\ Arrive(k) \notin Held
           /\ turn[Arrive(k)] = "none"
           /\ \A a \in {Arrive(k)} : Arrived(a)'
           /\ left' \in [Kinds -> 0 .. MaxArrivals]
           /\ \A j \in Kinds : left'[j] <= left[j]
  <1>1. left \in [Kinds -> 0 .. MaxArrivals] /\ MaxArrivals \in Nat
    BY QueueAssumption DEF QueueAssumption, IInv, TypeOK
  <1>2. left[k] \in 1 .. MaxArrivals /\ left' = [left EXCEPT ![k] = left[k] - 1]
    BY <1>1 DEF Accept
  <1>3. left' \in [Kinds -> 0 .. MaxArrivals] /\ left'[k] = left[k] - 1
        /\ \A j \in Kinds : left'[j] <= left[j]
    BY <1>1, <1>2
  <1> DEFINE b == Arrive(k)
  <1>4. b[1] = k /\ b[2] = left[k]
    BY DEF Arrive
  <1>5. b \in OfKind(k) /\ OfKind(k) \subseteq Ids
    BY <1>2 DEF Arrive, OfKind, Ids
  <1>6. ~Arrived(b)
    BY <1>1, <1>2, <1>4 DEF Arrived
  <1>7. ASSUME NEW a, a = b PROVE Arrived(a)'
    BY <1>1, <1>2, <1>3, <1>4, <1>7 DEF Arrived
  <1> HIDE DEF b
  <1>8. b \notin ToSet(queue) /\ b \notin Held /\ turn[b] = "none"
    BY <1>5, <1>6 DEF IInv, AllArrived
  <1> QED
    BY <1>3, <1>5, <1>7, <1>8 DEF b

(* The turns that have begun are the same ones. *)
TurnsKept == \A t \in Ids : turn'[t] = "none" <=> turn[t] = "none"

(* The inputs in N enter the queue and those in H are newly held; the      *)
(* running turn goes on, or ends and leaves the queue.                     *)
LEMMA CoreStep ==
    ASSUME IInv, TurnsKept,
           \A k \in Kinds : left'[k] <= left[k], left' \in [Kinds -> 0 .. MaxArrivals],
           Sound(queue)',
           running' \in {running, None},
           running' = None => running \notin ToSet(queue'),
           NEW N \in SUBSET Ids, NEW H \in SUBSET Ids,
           ToSet(queue') \subseteq ToSet(queue) \cup N,
           Held' \subseteq Held \cup H, Held' \cap N = {}, H \cap ToSet(queue') = {},
           \A t \in N \cup H : Arrived(t)' /\ turn[t] = "none"
    PROVE  AllArrived' /\ HeldFresh' /\ QueueFresh'
  <1>1. /\ ToSet(queue) \subseteq Ids /\ ToSet(queue') \subseteq Ids
        /\ left \in [Kinds -> 0 .. MaxArrivals] /\ MaxArrivals \in Nat
    <2>1. queue \in Seq(Ids) /\ queue' \in Seq(Ids)
      BY DEF IInv, Sound
    <2> QED
      BY <2>1, QueueAssumption DEF ToSet, QueueAssumption, IInv, TypeOK
  <1>2. Held \subseteq Ids
    <2>1. interjections \in Seq(Asides) /\ arm.ids \in Seq(Ids)
      BY DEF IInv, TypeOK
    <2>2. Asides \subseteq Ids /\ Notices \subseteq Ids
      BY DEF Asides, Notices, OfKind, Ids, Kinds
    <2> QED
      BY <2>1, <2>2 DEF IInv, TypeOK, Held, ToSet
  <1>3. ASSUME NEW t \in Ids, Arrived(t) PROVE Arrived(t)'
    <2>1. t[1] \in Kinds /\ t[2] \in Nat
      BY <1>1 DEF Ids
    <2>2. left[t[1]] \in Nat /\ left'[t[1]] \in Nat /\ left'[t[1]] <= left[t[1]]
      BY <1>1, <2>1
    <2> QED
      BY <1>3, <2>1, <2>2 DEF Arrived
  <1>4. AllArrived'
    <2>1. ASSUME NEW t \in ToSet(queue') \cup Held' PROVE Arrived(t)'
      <3>1. t \in N \cup H \/ (t \in ToSet(queue) \cup Held /\ t \in Ids)
        BY <1>1, <1>2
      <3>2. t \in ToSet(queue) \cup Held => Arrived(t)
        BY DEF IInv, AllArrived
      <3> QED
        BY <1>3, <3>1, <3>2
    <2>2. ASSUME NEW t \in Ids, turn'[t] # "none" PROVE Arrived(t)'
      BY <1>3, <2>2 DEF TurnsKept, IInv, AllArrived
    <2> QED
      BY <2>1, <2>2 DEF AllArrived
  <1>5. HeldFresh'
    <2> SUFFICES ASSUME NEW t \in Held' PROVE turn'[t] = "none" /\ t \notin ToSet(queue')
      BY DEF HeldFresh
    <2>1. CASE t \in H
      BY <2>1 DEF TurnsKept
    <2>2. CASE t \in Held
      <3>1. turn[t] = "none" /\ t \notin ToSet(queue) /\ t \in Ids
        BY <1>2, <2>2 DEF IInv, HeldFresh
      <3> QED
        BY <3>1 DEF TurnsKept
    <2> QED
      BY <2>1, <2>2
  <1>6. QueueFresh'
    <2>1. ASSUME NEW t \in ToSet(queue'), t # running' PROVE turn'[t] = "none"
      <3>1. t \in N => turn[t] = "none"
        OBVIOUS
      <3>2. t \in ToSet(queue) /\ t # running => turn[t] = "none"
        BY DEF IInv, QueueFresh
      <3>3. t # running
        BY <2>1
      <3> QED
        BY <1>1, <3>1, <3>2, <3>3 DEF TurnsKept
    <2>2. ASSUME running' # None PROVE turn'[running'] # "none"
      <3>1. running' = running /\ running \in Ids /\ turn[running] # "none"
        BY <2>2 DEF IInv, TypeOK, QueueFresh
      <3> QED
        BY <3>1 DEF TurnsKept
    <2> QED
      BY <2>1, <2>2 DEF QueueFresh
  <1> QED
    BY <1>4, <1>5, <1>6

(* The common case: the running turn goes on. *)
LEMMA RunStep ==
    ASSUME IInv, UNCHANGED <<running, turn>>,
           \A k \in Kinds : left'[k] <= left[k], left' \in [Kinds -> 0 .. MaxArrivals],
           Sound(queue)',
           NEW N \in SUBSET Ids, NEW H \in SUBSET Ids,
           ToSet(queue') \subseteq ToSet(queue) \cup N,
           Held' \subseteq Held \cup H, Held' \cap N = {}, H \cap ToSet(queue') = {},
           \A t \in N \cup H : Arrived(t)' /\ turn[t] = "none"
    PROVE  AllArrived' /\ HeldFresh' /\ QueueFresh'
  <1>1. TurnsKept
    BY DEF TurnsKept
  <1>2. running' \in {running, None} /\ (running' = None => running \notin ToSet(queue'))
    BY NoneIsNoInput DEF Sound, ToSet
  <1> QED
    BY <1>1, <1>2, CoreStep

(* Nothing enters the queue, nothing is newly held and no turn begins or ends. *)
LEMMA StillStep ==
    ASSUME IInv, UNCHANGED <<running, left>>, TurnsKept, Sound(queue)',
           ToSet(queue') \subseteq ToSet(queue), Held' \subseteq Held
    PROVE  AllArrived' /\ HeldFresh' /\ QueueFresh'
  <1>1. /\ left' \in [Kinds -> 0 .. MaxArrivals] /\ \A k \in Kinds : left'[k] <= left[k]
    BY QueueAssumption DEF QueueAssumption, IInv, TypeOK
  <1>2. running' \in {running, None} /\ (running' = None => running \notin ToSet(queue'))
    BY NoneIsNoInput DEF Sound, ToSet
  <1>3. /\ {} \in SUBSET Ids /\ ToSet(queue') \subseteq ToSet(queue) \cup {}
        /\ Held' \subseteq Held \cup {} /\ Held' \cap {} = {} /\ {} \cap ToSet(queue') = {}
        /\ \A t \in {} \cup {} : Arrived(t)' /\ turn[t] = "none"
    OBVIOUS
  <1> QED
    BY <1>1, <1>2, <1>3, CoreStep

(* The fields of a fresh arm. *)
LEMMA ArmAt ==
    ASSUME NEW p
    PROVE  At(p) = [at |-> p, ids |-> <<>>, task |-> None, then |-> "select"]
  BY DEF At, Select

(* An arm put together field by field. *)
LEMMA ArmBuilt ==
    ASSUME NEW p \in Places, NEW ids \in Seq(Ids), NEW t \in Ids \cup {None}, NEW m \in Modes,
           arm' = [at |-> p, ids |-> ids, task |-> t, then |-> m]
    PROVE  ArmType' /\ arm'.at = p /\ arm'.ids = ids /\ arm'.task = t /\ arm'.then = m
  BY DEF ArmType

(* A fresh arm at a place. *)
LEMMA ArmPlaced ==
    ASSUME NEW p \in Places, NEW m \in Modes,
           arm' = [at |-> p, ids |-> <<>>, task |-> None, then |-> m]
    PROVE  ArmType' /\ arm'.at = p /\ arm'.ids = <<>> /\ arm'.then = m
  <1>1. <<>> \in Seq(Ids) /\ None \in Ids \cup {None}
    OBVIOUS
  <1> QED
    BY <1>1, ArmBuilt

(* Nothing is newly held when no buffer gains anything. *)
LEMMA HeldShrinks ==
    ASSUME notices' \cup monitor' \subseteq notices \cup monitor,
           ToSet(interjections') \subseteq ToSet(interjections),
           arm'.at # "fallback"
    PROVE  Held' \subseteq Held
  BY DEF Held

(* The empty buffer. *)
LEMMA EmptyFacts ==
    <<>> \in Seq(Asides) /\ <<>> \in Seq(Ids) /\ ToSet(<<>>) = {} /\ IsInjective(<<>>)
  <1>1. DOMAIN <<>> = {}
    OBVIOUS
  <1> QED
    BY <1>1 DEF ToSet, IsInjective

(* What a send-now does to the arm and the buffer. *)
LEMMA CancelOrStartFacts ==
    ASSUME IInv, CancelOrStart
    PROVE  /\ ArmType' /\ ArmShape' /\ arm'.at \in {"cancel", "start"}
           /\ arm'.at = "cancel" => running # None
           /\ interjections' \in Seq(Asides) /\ IsInjective(interjections')
           /\ ToSet(interjections') \subseteq ToSet(interjections)
           /\ settled' \subseteq Asides \cup Notices
  <1>1. interjections \in Seq(Asides) /\ settled \subseteq Asides \cup Notices
    BY DEF IInv, TypeOK
  <1>2. ToSet(interjections) \subseteq Asides
    BY <1>1 DEF ToSet
  <1>3. IsInjective(interjections)
    BY DEF IInv, HeldOnce
  <1>4. \/ interjections' = interjections /\ settled' = settled
        \/ interjections' = <<>> /\ settled' = settled \cup ToSet(interjections)
    BY DEF CancelOrStart
  <1>5. \/ arm' = [at |-> "start", ids |-> <<>>, task |-> None, then |-> "select"]
        \/ /\ running # None
           /\ arm' = [at |-> "cancel", ids |-> <<>>, task |-> None, then |-> "send_now"]
    BY ArmAt DEF CancelOrStart
  <1>6. ArmType' /\ ArmShape' /\ arm'.at \in {"cancel", "start"}
        /\ (arm'.at = "cancel" => running # None)
    <2>1. "start" \in Places /\ "cancel" \in Places /\ "select" \in Modes /\ "send_now" \in Modes
      BY DEF Places, Modes
    <2>2. CASE arm' = [at |-> "start", ids |-> <<>>, task |-> None, then |-> "select"]
      BY <2>1, <2>2, ArmPlaced DEF ArmShape
    <2>3. CASE /\ running # None
               /\ arm' = [at |-> "cancel", ids |-> <<>>, task |-> None, then |-> "send_now"]
      BY <2>1, <2>3, ArmPlaced DEF ArmShape
    <2> QED
      BY <1>5, <2>2, <2>3
  <1>7. /\ interjections' \in Seq(Asides) /\ IsInjective(interjections')
        /\ ToSet(interjections') \subseteq ToSet(interjections)
        /\ settled' \subseteq Asides \cup Notices
    BY <1>1, <1>2, <1>3, <1>4, EmptyFacts
  <1> QED
    BY <1>6, <1>7

(* A type invariant of everything but the arm. *)
DataOK ==
    /\ left \in [Kinds -> 0 .. MaxArrivals]
    /\ queue \in Seq(Ids)
    /\ sendNow \subseteq Ids
    /\ running \in Ids \cup {None}
    /\ pin \in Ids \cup {None}
    /\ interjections \in Seq(Asides)
    /\ notices \subseteq Notices /\ monitor \subseteq Notices
    /\ turn \in [Ids -> {"none", "over"} \cup Live]
    /\ completions \in Seq(Ids)
    /\ answer \in [Users -> {"unsent", "waiting", "completed", "cancelled", "removed"}]
    /\ settled \subseteq Asides \cup Notices
    /\ spawned \subseteq Ids \cup {None}

(* The type invariant from its parts. *)
LEMMA TypeParts ==
    /\ TypeOK => DataOK /\ suppressed \in BOOLEAN
    /\ DataOK /\ ArmType /\ suppressed \in BOOLEAN => TypeOK
    /\ DataOK' /\ ArmType' /\ suppressed' \in BOOLEAN => TypeOK'
  <1>1. TypeOK => DataOK /\ suppressed \in BOOLEAN
    BY Zenon DEF TypeOK, DataOK
  <1>2. ArmType => /\ arm.at \in Places /\ arm.then \in Modes
                   /\ arm.ids \in Seq(Ids) /\ arm.task \in Ids \cup {None}
    BY DEF ArmType
  <1>3. ArmType' => /\ arm'.at \in Places /\ arm'.then \in Modes
                    /\ arm'.ids \in Seq(Ids) /\ arm'.task \in Ids \cup {None}
    BY DEF ArmType
  <1>4. DataOK /\ ArmType /\ suppressed \in BOOLEAN => TypeOK
    BY <1>2, Zenon DEF TypeOK, DataOK, Places, Modes
  <1>5. DataOK' /\ ArmType' /\ suppressed' \in BOOLEAN => TypeOK'
    BY <1>3, Zenon DEF TypeOK, DataOK, Places, Modes
  <1> QED
    BY <1>1, <1>4, <1>5

(* Kinds of inputs. *)
LEMMA KindFacts ==
    /\ Users \subseteq Ids /\ Asides \subseteq Ids /\ Notices \subseteq Ids
    /\ OfKind("completion") \subseteq Ids /\ OfKind("resume") \subseteq Ids
    /\ {"user", "aside", "completion", "resume", "notice"} \subseteq Kinds
    /\ \A t \in OfKind("resume") : t[1] = "resume"
    /\ \A t \in Users : t[1] = "user"
    /\ Asides \cap Notices = {}
  BY DEF Users, Asides, Notices, OfKind, Ids, Kinds

(* A client's prompt is queued. *)
LEMMA PromptStep == ASSUME IInv, NEW now \in BOOLEAN, Prompt(now) PROVE IInv'
  <1> DEFINE u == Arrive("user")
  <1> DEFINE kept == IF PreemptArmed THEN Sweep({t \in Ids : Synthetic(t)}) ELSE queue
  <1>1. /\ Ready /\ Accept("user") /\ answer' = [answer EXCEPT ![u] = "waiting"]
        /\ UNCHANGED <<running, pin, notices, monitor, turn, completions, spawned>>
    BY DEF Prompt, turns
  <1>2. suppressed' \in BOOLEAN
    BY Zenon DEF Prompt
  <1>3. \/ queue' = InsertSendNow(kept, u) /\ sendNow' = sendNow \cup {u} /\ CancelOrStart
        \/ /\ queue' = Append(kept, u) /\ sendNow' = sendNow /\ arm' = At("start")
           /\ UNCHANGED <<interjections, settled>>
    BY DEF Prompt
  <1>4. /\ u \in Users /\ u \in Ids /\ u \notin ToSet(queue) /\ u \notin Held /\ turn[u] = "none"
        /\ \A a \in {u} : Arrived(a)'
        /\ left' \in [Kinds -> 0 .. MaxArrivals] /\ \A j \in Kinds : left'[j] <= left[j]
    BY <1>1, ArrivalFresh, KindFacts DEF Users
  <1>5. DataOK
    BY TypeParts DEF IInv
  <1>6. Sound(kept) /\ ToSet(kept) \subseteq ToSet(queue)
    <2>1. Sound(queue)
      BY DEF IInv
    <2> DEFINE S == {t \in Ids : Synthetic(t)}
    <2>2. Sound(Sweep(S)) /\ ToSet(Sweep(S)) \subseteq ToSet(queue)
      <3> HIDE DEF S
      <3> QED
        BY <2>1, SoundSweep
    <2> QED
      BY <2>1, <2>2
  <1> HIDE DEF kept, u
  <1>7. /\ Sound(InsertSendNow(kept, u)) /\ ToSet(InsertSendNow(kept, u)) = ToSet(kept) \cup {u}
        /\ Sound(Append(kept, u)) /\ ToSet(Append(kept, u)) = ToSet(kept) \cup {u}
    BY <1>4, <1>6, SoundInsertSendNow, SoundAppend
  <1>8. /\ ArmType' /\ ArmShape' /\ arm'.at \in {"cancel", "start"}
        /\ arm'.at = "cancel" => running # None
        /\ interjections' \in Seq(Asides) /\ IsInjective(interjections')
        /\ ToSet(interjections') \subseteq ToSet(interjections)
        /\ settled' \subseteq Asides \cup Notices
    <2>1. CASE CancelOrStart
      BY <2>1, CancelOrStartFacts
    <2>2. CASE arm' = At("start") /\ UNCHANGED <<interjections, settled>>
      <3>1. ArmType' /\ arm'.at = "start" /\ arm'.then = "select"
        BY <2>2, ArmAt, ArmPlaced DEF Places, Modes
      <3> QED
        BY <1>5, <2>2, <3>1 DEF ArmShape, DataOK, IInv, HeldOnce
    <2> QED
      BY <1>3, <2>1, <2>2
  <1>9. /\ Sound(queue)' /\ ToSet(queue') = ToSet(kept) \cup {u}
        /\ queue' \in Seq(Ids) /\ sendNow' \subseteq Ids
    BY <1>1, <1>3, <1>4, <1>5, <1>7 DEF Sound, DataOK
  <1>10. DataOK'
    BY <1>1, <1>4, <1>5, <1>8, <1>9 DEF DataOK
  <1>11. HeldOnce'
    BY <1>8 DEF HeldOnce
  <1>12. AllArrived' /\ HeldFresh' /\ QueueFresh'
    <2>1. Held' \subseteq Held
      BY <1>1, <1>8, HeldShrinks
    <2>2. /\ ToSet(queue') \subseteq ToSet(queue) \cup {u} /\ Held' \subseteq Held \cup {}
          /\ Held' \cap {u} = {} /\ {u} \in SUBSET Ids /\ {} \in SUBSET Ids
          /\ \A t \in {u} \cup {} : Arrived(t)' /\ turn[t] = "none"
      BY <1>4, <1>6, <1>9, <2>1
    <2> QED
      BY <1>1, <1>4, <1>9, <2>2, RunStep
  <1>13. CancelSafe'
    BY <1>1, <1>8 DEF CancelSafe
  <1> QED
    BY <1>2, <1>8, <1>9, <1>10, <1>11, <1>12, <1>13, TypeParts DEF IInv

(* An auto-wake or a plan's resume is queued behind everything. *)
LEMMA AppendStep == ASSUME IInv, Wake \/ ResumePlan PROVE IInv'
  <1> DEFINE k == IF Wake THEN "completion" ELSE "resume"
  <1> DEFINE c == Arrive(k)
  <1>1. /\ k \in Kinds /\ Accept(k) /\ queue' = Append(queue, c)
        /\ UNCHANGED <<sendNow, running, pin, interjections, suppressed, notices, monitor,
                       turn, completions, answer, settled>>
        /\ spawned' \in {spawned, spawned \cup {c}}
    BY KindFacts DEF Wake, ResumePlan, signals, turns
  <1>2. arm' = At("start") \/ (arm' = arm /\ k = "resume")
    BY DEF Wake, ResumePlan
  <1>3. /\ c \in Ids /\ c \notin ToSet(queue) /\ c \notin Held /\ turn[c] = "none" /\ c \in OfKind(k)
        /\ \A a \in {c} : Arrived(a)'
        /\ left' \in [Kinds -> 0 .. MaxArrivals] /\ \A j \in Kinds : left'[j] <= left[j]
    BY <1>1, ArrivalFresh
  <1>4. c[1] = k
    BY DEF Arrive
  <1> HIDE DEF c, k
  <1>5. DataOK /\ Sound(queue) /\ suppressed \in BOOLEAN
    BY TypeParts DEF IInv
  <1>6. Sound(Append(queue, c)) /\ ToSet(Append(queue, c)) = ToSet(queue) \cup {c}
    BY <1>3, <1>5, SoundAppend
  <1>7. Sound(queue)' /\ ToSet(queue') = ToSet(queue) \cup {c} /\ queue' \in Seq(Ids)
    BY <1>1, <1>6 DEF Sound
  <1>8. \/ ArmType' /\ arm'.at = "start" /\ arm'.then = "select"
        \/ arm' = arm /\ c[1] = "resume"
    BY <1>2, <1>4, ArmAt, ArmPlaced DEF Places, Modes
  <1>9. ArmType' /\ ArmShape' /\ HeldOnce'
    BY <1>1, <1>8 DEF IInv, ArmType, ArmShape, HeldOnce
  <1>10. DataOK'
    BY <1>1, <1>3, <1>5, <1>7 DEF DataOK
  <1>11. suppressed' \in BOOLEAN
    BY <1>1, <1>5, Zenon
  <1>12. AllArrived' /\ HeldFresh' /\ QueueFresh'
    <2>1. Held' \subseteq Held
      BY <1>1, <1>8 DEF Held
    <2>2. /\ ToSet(queue') \subseteq ToSet(queue) \cup {c} /\ Held' \subseteq Held \cup {}
          /\ Held' \cap {c} = {} /\ {c} \in SUBSET Ids /\ {} \in SUBSET Ids
          /\ \A t \in {c} \cup {} : Arrived(t)' /\ turn[t] = "none"
      BY <1>3, <1>7, <2>1
    <2> QED
      BY <1>1, <1>3, <1>7, <2>2, RunStep
  <1>13. CancelSafe'
    BY <1>1, <1>7, <1>8 DEF IInv, CancelSafe
  <1> QED
    BY <1>7, <1>9, <1>10, <1>11, <1>12, <1>13, TypeParts DEF IInv

(* An interjection is buffered, or is about to become a prompt. *)
LEMMA InterjectStep == ASSUME IInv, Interject PROVE IInv'
  <1> DEFINE i == Arrive("aside")
  <1>1. /\ Ready /\ Accept("aside")
        /\ UNCHANGED <<queue, sendNow, running, pin, suppressed, notices, monitor,
                       turn, completions, answer, settled, spawned>>
    BY DEF Interject, state, signals, turns
  <1>2. \/ interjections' = Append(interjections, i) /\ arm' = arm
        \/ /\ arm' = [at |-> "fallback", ids |-> <<i>>, task |-> None, then |-> "select"]
           /\ interjections' = interjections
    BY ArmAt DEF Interject
  <1>3. /\ i \in Asides /\ i \in Ids /\ i \notin ToSet(queue) /\ i \notin Held /\ turn[i] = "none"
        /\ \A a \in {i} : Arrived(a)'
        /\ left' \in [Kinds -> 0 .. MaxArrivals] /\ \A j \in Kinds : left'[j] <= left[j]
    BY <1>1, ArrivalFresh, KindFacts DEF Asides
  <1> HIDE DEF i
  <1>4. DataOK /\ Sound(queue) /\ suppressed \in BOOLEAN /\ IsInjective(interjections)
    BY TypeParts DEF IInv, HeldOnce
  <1>5. arm.at = "select"
    BY <1>1 DEF Ready, Select
  <1>6. i \notin ToSet(interjections)
    BY <1>3 DEF Held
  <1>7. /\ Append(interjections, i) \in Seq(Asides)
        /\ ToSet(Append(interjections, i)) = ToSet(interjections) \cup {i}
        /\ IsInjective(Append(interjections, i))
    BY <1>3, <1>4, <1>6, Appended DEF DataOK
  <1>8. /\ <<i>> \in Seq(Ids) /\ <<i>> \in Seq(Asides) /\ <<i>> # <<>>
        /\ ToSet(<<i>>) = {i} /\ IsInjective(<<i>>)
    BY <1>3 DEF ToSet, IsInjective
  <1>9. \/ arm' = arm
        \/ ArmType' /\ arm'.at = "fallback" /\ arm'.then = "select" /\ arm'.ids = <<i>>
    <2>1. "fallback" \in Places /\ "select" \in Modes
      BY DEF Places, Modes
    <2> QED
      BY <1>2, <1>8, <2>1, ArmBuilt
  <1>10. ArmType' /\ ArmShape'
    BY <1>8, <1>9 DEF IInv, ArmType, ArmShape
  <1>11. HeldOnce'
    <2>1. CASE interjections' = Append(interjections, i) /\ arm' = arm
      BY <1>5, <1>7, <2>1 DEF HeldOnce
    <2>2. CASE interjections' = interjections /\ arm'.at = "fallback" /\ arm'.ids = <<i>>
      BY <1>4, <1>6, <1>8, <2>2 DEF HeldOnce
    <2> QED
      BY <1>2, <2>1, <2>2
  <1>12. DataOK'
    BY <1>1, <1>2, <1>3, <1>4, <1>7 DEF DataOK
  <1>13. suppressed' \in BOOLEAN
    BY <1>1, <1>4, Zenon
  <1>14. Sound(queue)'
    BY <1>1, <1>4 DEF Sound
  <1>15. AllArrived' /\ HeldFresh' /\ QueueFresh'
    <2>1. Held' \subseteq Held \cup {i}
      <3>1. CASE interjections' = Append(interjections, i) /\ arm' = arm
        BY <1>1, <1>7, <3>1 DEF Held
      <3>2. CASE interjections' = interjections /\ arm'.at = "fallback" /\ arm'.ids = <<i>>
        BY <1>1, <1>8, <3>2 DEF Held
      <3> QED
        BY <1>2, <3>1, <3>2
    <2>2. /\ ToSet(queue') \subseteq ToSet(queue) \cup {} /\ Held' \cap {} = {}
          /\ {i} \cap ToSet(queue') = {} /\ {i} \in SUBSET Ids /\ {} \in SUBSET Ids
          /\ \A t \in {} \cup {i} : Arrived(t)' /\ turn[t] = "none"
      BY <1>1, <1>3
    <2> QED
      BY <1>1, <1>3, <1>14, <2>1, <2>2, RunStep
  <1>16. CancelSafe'
    BY <1>1, <1>9 DEF IInv, CancelSafe
  <1> QED
    BY <1>10, <1>11, <1>12, <1>13, <1>14, <1>15, <1>16, TypeParts DEF IInv

(* The front of a sequence without its last item. *)
LEMMA FrontFacts ==
    ASSUME NEW T, NEW q \in Seq(T), q # <<>>, IsInjective(q)
    PROVE  /\ Front(q) \in Seq(T) /\ IsInjective(Front(q))
           /\ ToSet(Front(q)) \subseteq ToSet(q) \ {Last(q)} /\ Last(q) \in ToSet(q)
           /\ Len(q) # 1 => Front(q) # <<>>
  <1> DEFINE n == Len(q)
  <1> DEFINE r == SubSeq(q, 1, n - 1)
  <1>1. n \in Nat \ {0} /\ DOMAIN q = 1 .. n
    OBVIOUS
  <1>2. r \in Seq(T) /\ Len(r) = n - 1 /\ \A k \in 1 .. n - 1 : r[k] = q[k]
    BY <1>1
  <1>3. DOMAIN r = 1 .. n - 1
    BY <1>2
  <1>4. \A a, b \in 1 .. n : q[a] = q[b] => a = b
    BY <1>1 DEF IsInjective
  <1> HIDE DEF n, r
  <1>5. \A k \in 1 .. n - 1 : k \in 1 .. n /\ k # n
    BY <1>1
  <1>6. IsInjective(r)
    BY <1>2, <1>3, <1>4, <1>5 DEF IsInjective
  <1>7. n \in 1 .. n
    BY <1>1
  <1>8. ToSet(r) \subseteq ToSet(q) \ {q[n]} /\ q[n] \in ToSet(q)
    <2>1. \A k \in 1 .. n - 1 : r[k] \in ToSet(q) /\ r[k] # q[n]
      BY <1>1, <1>2, <1>4, <1>5, <1>7 DEF ToSet
    <2> QED
      BY <1>1, <1>3, <1>7, <2>1 DEF ToSet
  <1>9. n # 1 => r # <<>>
    BY <1>1, <1>2
  <1> QED
    BY <1>2, <1>6, <1>8, <1>9 DEF Front, Last, n, r

(* An interjection becomes a prompt of its own. *)
LEMMA FallbackStep == ASSUME IInv, Fallback PROVE IInv'
  <1> DEFINE x == Last(arm.ids)
  <1>1. /\ arm.at = "fallback" /\ queue' = InsertAfterRunning(queue, x) /\ sendNow' = sendNow \cup {x}
        /\ UNCHANGED <<running, pin, interjections, suppressed, notices, monitor, turn, completions,
                       left, answer, settled, spawned>>
    BY DEF Fallback, signals, turns, history
  <1>2. arm' = IF Len(arm.ids) = 1 THEN [At("start") EXCEPT !.then = arm.then]
               ELSE [arm EXCEPT !.ids = Front(@)]
    BY DEF Fallback
  <1>3. /\ DataOK /\ Sound(queue) /\ suppressed \in BOOLEAN /\ ArmType
        /\ arm.ids \in Seq(Asides) /\ arm.ids # <<>> /\ arm.then \in {"select", "drain"}
        /\ IsInjective(arm.ids) /\ ToSet(arm.ids) \cap ToSet(interjections) = {}
        /\ IsInjective(interjections)
    BY <1>1, TypeParts DEF IInv, ArmShape, HeldOnce
  <1> DEFINE front == Front(arm.ids)
  <1>4. /\ front \in Seq(Asides) /\ IsInjective(front)
        /\ ToSet(front) \subseteq ToSet(arm.ids) \ {x} /\ x \in ToSet(arm.ids)
        /\ Len(arm.ids) # 1 => front # <<>>
    BY <1>3, FrontFacts
  <1>5. x \in Held /\ x \in Asides /\ x \in Ids
    BY <1>1, <1>3, <1>4, KindFacts DEF Held, ToSet
  <1>6. x \notin ToSet(queue) /\ turn[x] = "none" /\ x \notin ToSet(interjections)
    BY <1>3, <1>4, <1>5 DEF IInv, HeldFresh
  <1>7. x \notin notices /\ x \notin monitor
    BY <1>3, <1>5, KindFacts DEF DataOK
  <1> HIDE DEF x, front
  <1>8. \/ ArmType' /\ arm'.at = "start" /\ arm'.then \in {"select", "drain"}
        \/ /\ ArmType' /\ arm'.at = "fallback" /\ arm'.ids = front /\ front # <<>>
           /\ arm'.then = arm.then
    <2>1. CASE Len(arm.ids) = 1
      <3>1. arm' = [at |-> "start", ids |-> <<>>, task |-> None, then |-> arm.then]
        BY <1>2, <2>1, ArmAt
      <3>2. "start" \in Places /\ arm.then \in Modes
        BY <1>3 DEF Places, Modes
      <3> QED
        BY <1>3, <3>1, <3>2, ArmPlaced
    <2>2. CASE Len(arm.ids) # 1
      <3>1. arm' = [arm EXCEPT !.ids = front]
        BY <1>2, <2>2 DEF front
      <3>2. front \in Seq(Ids)
        BY <1>4, KindFacts, SeqMonotone
      <3> QED
        BY <1>1, <1>3, <1>4, <2>2, <3>1, <3>2 DEF ArmType
    <2> QED
      BY <2>1, <2>2
  <1>9. ArmType' /\ ArmShape'
    BY <1>3, <1>4, <1>8 DEF ArmShape
  <1>10. HeldOnce'
    BY <1>1, <1>3, <1>4, <1>8 DEF HeldOnce
  <1>11. Sound(queue)' /\ ToSet(queue') = ToSet(queue) \cup {x} /\ queue' \in Seq(Ids)
    <2>1. /\ Sound(InsertAfterRunning(queue, x))
          /\ ToSet(InsertAfterRunning(queue, x)) = ToSet(queue) \cup {x}
      BY <1>3, <1>5, <1>6, SoundInsertAfterRunning
    <2> QED
      BY <1>1, <2>1 DEF Sound, x
  <1>12. DataOK'
    BY <1>1, <1>3, <1>5, <1>11 DEF DataOK, x
  <1>13. suppressed' \in BOOLEAN
    BY <1>1, <1>3, Zenon
  <1>14. AllArrived' /\ HeldFresh' /\ QueueFresh'
    <2>1. Held' \subseteq Held \ {x}
      BY <1>1, <1>4, <1>6, <1>7, <1>8 DEF Held
    <2>2. \A t \in {x} : Arrived(t)'
      <3>1. Arrived(x)
        BY <1>5 DEF IInv, AllArrived
      <3> QED
        BY <1>1, <3>1 DEF Arrived
    <2>3. /\ ToSet(queue') \subseteq ToSet(queue) \cup {x} /\ Held' \subseteq Held \cup {}
          /\ Held' \cap {x} = {} /\ {x} \in SUBSET Ids /\ {} \in SUBSET Ids
          /\ {} \cap ToSet(queue') = {}
          /\ \A t \in {x} \cup {} : Arrived(t)' /\ turn[t] = "none"
      BY <1>5, <1>6, <1>11, <2>1, <2>2
    <2>4. /\ left' \in [Kinds -> 0 .. MaxArrivals] /\ \A j \in Kinds : left'[j] <= left[j]
      BY <1>1, <1>3, QueueAssumption DEF DataOK, QueueAssumption
    <2> QED
      BY <1>1, <1>11, <2>3, <2>4, RunStep
  <1>15. CancelSafe'
    BY <1>8 DEF CancelSafe
  <1> QED
    BY <1>9, <1>10, <1>11, <1>12, <1>13, <1>14, <1>15, TypeParts DEF IInv

(* The answers a client can get. *)
Answers == {"unsent", "waiting", "completed", "cancelled", "removed"}

(* Queued items are dropped or change places; the loop stays where it is. *)
LEMMA EditStep ==
    ASSUME IInv, Sound(queue)', ToSet(queue') \subseteq ToSet(queue),
           UNCHANGED <<running, pin, interjections, suppressed, monitor, turn, completions,
                       left, arm, spawned>>,
           notices' \subseteq notices, sendNow' \subseteq Ids,
           settled' \subseteq Asides \cup Notices,
           answer' \in [Users -> Answers]
    PROVE  IInv'
  <1>1. DataOK /\ suppressed \in BOOLEAN /\ ArmType /\ ArmShape /\ HeldOnce /\ CancelSafe
    BY TypeParts DEF IInv
  <1>2. suppressed' \in BOOLEAN
    BY <1>1, Zenon
  <1>3. DataOK'
    BY <1>1 DEF DataOK, Sound, Answers
  <1>4. ArmType' /\ ArmShape' /\ HeldOnce'
    BY <1>1 DEF ArmType, ArmShape, HeldOnce
  <1>5. AllArrived' /\ HeldFresh' /\ QueueFresh'
    <2>1. Held' \subseteq Held
      BY DEF Held
    <2>2. TurnsKept
      BY DEF TurnsKept
    <2> QED
      BY <2>1, <2>2, StillStep
  <1>6. CancelSafe'
    BY <1>1 DEF CancelSafe
  <1> QED
    BY <1>2, <1>3, <1>4, <1>5, <1>6, TypeParts DEF IInv

(* A row is removed. *)
LEMMA RemoveStep == ASSUME IInv, NEW u \in Users, RemoveQueued(u) PROVE IInv'
  <1>1. /\ queue' = Without(queue, {u}) /\ u # running /\ sendNow' = sendNow \ {u}
        /\ answer' = [answer EXCEPT ![u] = "removed"]
        /\ UNCHANGED <<running, pin, interjections, suppressed, monitor, notices, turn, completions,
                       left, settled, arm, spawned>>
    BY DEF RemoveQueued, signals, turns
  <1>2. DataOK /\ Sound(queue)
    BY TypeParts DEF IInv
  <1>3. Sound(Without(queue, {u})) /\ ToSet(Without(queue, {u})) = ToSet(queue) \ {u}
    BY <1>1, <1>2, SoundWithout
  <1>4. Sound(queue)' /\ ToSet(queue') \subseteq ToSet(queue)
    BY <1>1, <1>3 DEF Sound
  <1>5. /\ notices' \subseteq notices /\ sendNow' \subseteq Ids
        /\ settled' \subseteq Asides \cup Notices
        /\ answer' \in [Users -> Answers]
    BY <1>1, <1>2 DEF DataOK, Answers
  <1> QED
    BY <1>1, <1>4, <1>5, EditStep

(* The requester's rows are cleared. *)
LEMMA ClearStep == ASSUME IInv, NEW own \in SUBSET Users, ClearQueue(own) PROVE IInv'
  <1> DEFINE cleared == (own \cap ToSet(queue)) \ {running}
  <1>1. /\ queue' = Without(queue, cleared) /\ sendNow' = sendNow \ cleared
        /\ answer' = [u \in Users |-> IF u \in cleared THEN "removed" ELSE answer[u]]
        /\ UNCHANGED <<running, pin, interjections, suppressed, monitor, notices, turn, completions,
                       left, settled, arm, spawned>>
    BY DEF ClearQueue, signals, turns
  <1>2. DataOK /\ Sound(queue) /\ running \notin cleared
    BY TypeParts DEF IInv
  <1> HIDE DEF cleared
  <1>3. Sound(Without(queue, cleared)) /\ ToSet(Without(queue, cleared)) = ToSet(queue) \ cleared
    BY <1>2, SoundWithout
  <1>4. Sound(queue)' /\ ToSet(queue') \subseteq ToSet(queue)
    BY <1>1, <1>3 DEF Sound
  <1>5. /\ notices' \subseteq notices /\ sendNow' \subseteq Ids
        /\ settled' \subseteq Asides \cup Notices
        /\ answer' \in [Users -> Answers]
    BY <1>1, <1>2 DEF DataOK, Answers
  <1> QED
    BY <1>1, <1>4, <1>5, EditStep

(* The queue is reordered. *)
LEMMA ReorderStep == ASSUME IInv, NEW order \in Orders, ReorderQueue(order) PROVE IInv'
  <1>1. /\ queue' = Reordered(order)
        /\ UNCHANGED <<sendNow, running, pin, interjections, suppressed, monitor, notices, turn,
                       completions, left, answer, settled, arm, spawned>>
    BY DEF ReorderQueue, signals, turns, history
  <1>2. DataOK /\ Sound(queue)
    BY TypeParts DEF IInv
  <1>3. Sound(Reordered(order)) /\ ToSet(Reordered(order)) = ToSet(queue)
    BY <1>2, SoundReordered
  <1>4. Sound(queue)' /\ ToSet(queue') \subseteq ToSet(queue)
    BY <1>1, <1>3 DEF Sound
  <1>5. /\ notices' \subseteq notices /\ sendNow' \subseteq Ids
        /\ settled' \subseteq Asides \cup Notices
        /\ answer' \in [Users -> Answers]
    BY <1>1, <1>2 DEF DataOK, Answers
  <1> QED
    BY <1>1, <1>4, <1>5, EditStep

(* A tool result makes an auto-wake and notices unnecessary. *)
LEMMA ConsumeStep == ASSUME IInv, NEW t \in Ids, Consume(t) PROVE IInv'
  <1>1. PICK c \in OfKind("completion"), told \in SUBSET notices :
           queue' = Sweep({c}) /\ notices' = notices \ told /\ settled' = settled \cup told
    BY DEF Consume
  <1>2. UNCHANGED <<sendNow, running, pin, interjections, suppressed, monitor, turn,
                    completions, left, answer, arm, spawned>>
    BY DEF Consume, turns
  <1>3. DataOK /\ Sound(queue)
    BY TypeParts DEF IInv
  <1>4. Sound(Sweep({c})) /\ ToSet(Sweep({c})) \subseteq ToSet(queue)
    BY <1>3, SoundSweep
  <1>5. Sound(queue)' /\ ToSet(queue') \subseteq ToSet(queue)
    BY <1>1, <1>2, <1>4 DEF Sound
  <1>6. /\ notices' \subseteq notices /\ sendNow' \subseteq Ids
        /\ settled' \subseteq Asides \cup Notices
        /\ answer' \in [Users -> Answers]
    BY <1>1, <1>2, <1>3 DEF DataOK, Answers
  <1> QED
    BY <1>2, <1>5, <1>6, EditStep

(* A row is promoted to run next. *)
LEMMA InterjectQueuedStep == ASSUME IInv, NEW u \in Users, InterjectQueued(u) PROVE IInv'
  <1> DEFINE rest == Without(queue, {u})
  <1>1. /\ u \in ToSet(queue) /\ u # running /\ queue' = InsertSendNow(rest, u)
        /\ sendNow' = sendNow \cup {u} /\ CancelOrStart
        /\ UNCHANGED <<running, pin, suppressed, monitor, notices, turn, completions,
                       left, answer, spawned>>
    BY DEF InterjectQueued, signals, turns
  <1>2. DataOK /\ Sound(queue) /\ suppressed \in BOOLEAN
    BY TypeParts DEF IInv
  <1>3. Sound(rest) /\ ToSet(rest) = ToSet(queue) \ {u}
    BY <1>1, <1>2, SoundWithout
  <1> HIDE DEF rest
  <1>4. Sound(InsertSendNow(rest, u)) /\ ToSet(InsertSendNow(rest, u)) = ToSet(rest) \cup {u}
    BY <1>3, KindFacts, SoundInsertSendNow
  <1>5. Sound(queue)' /\ ToSet(queue') \subseteq ToSet(queue)
    BY <1>1, <1>3, <1>4 DEF Sound
  <1>6. /\ ArmType' /\ ArmShape' /\ arm'.at \in {"cancel", "start"}
        /\ arm'.at = "cancel" => running # None
        /\ interjections' \in Seq(Asides) /\ IsInjective(interjections')
        /\ ToSet(interjections') \subseteq ToSet(interjections)
        /\ settled' \subseteq Asides \cup Notices
    BY <1>1, CancelOrStartFacts
  <1>7. DataOK'
    BY <1>1, <1>2, <1>5, <1>6, KindFacts DEF DataOK, Sound
  <1>8. suppressed' \in BOOLEAN
    BY <1>1, <1>2, Zenon
  <1>9. AllArrived' /\ HeldFresh' /\ QueueFresh'
    <2>1. Held' \subseteq Held
      BY <1>1, <1>6, HeldShrinks
    <2>2. TurnsKept
      BY <1>1 DEF TurnsKept
    <2> QED
      BY <1>1, <1>5, <2>1, <2>2, StillStep
  <1>10. HeldOnce' /\ CancelSafe'
    BY <1>1, <1>6 DEF HeldOnce, CancelSafe
  <1> QED
    BY <1>5, <1>6, <1>7, <1>8, <1>9, <1>10, TypeParts DEF IInv

(* The queue and the running turn stay as they are. *)
LEMMA MoveStep ==
    ASSUME IInv, UNCHANGED <<queue, sendNow, running, left>>, TurnsKept,
           turn' \in [Ids -> {"none", "over"} \cup Live], pin' \in Ids \cup {None},
           interjections' \in {<<>>, interjections},
           notices' \subseteq Notices, monitor' \subseteq Notices, completions' \in Seq(Ids),
           settled' \subseteq Asides \cup Notices, spawned' \subseteq Ids \cup {None},
           answer' \in [Users -> Answers], suppressed' \in BOOLEAN,
           ArmType', ArmShape', Held' \subseteq Held, HeldOnce', CancelSafe'
    PROVE  IInv'
  <1>1. DataOK /\ Sound(queue)
    BY TypeParts DEF IInv
  <1>2. DataOK'
    BY <1>1, EmptyFacts DEF DataOK, Answers
  <1>3. Sound(queue)'
    BY <1>1 DEF Sound
  <1>4. AllArrived' /\ HeldFresh' /\ QueueFresh'
    BY <1>3, StillStep
  <1> QED
    BY <1>2, <1>3, <1>4, TypeParts DEF IInv

(* The buffered interjections are asides. *)
LEMMA BufferFacts ==
    ASSUME IInv
    PROVE  /\ ToSet(interjections) \subseteq Asides /\ IsInjective(interjections)
           /\ interjections \in Seq(Asides) /\ DataOK /\ suppressed \in BOOLEAN
           /\ answer \in [Users -> Answers]
  <1>1. DataOK /\ suppressed \in BOOLEAN /\ IsInjective(interjections)
    BY TypeParts DEF IInv, HeldOnce
  <1>2. interjections \in Seq(Asides) /\ answer \in [Users -> Answers]
    BY <1>1 DEF DataOK, Answers
  <1>3. ToSet(interjections) \subseteq Asides
    BY <1>2 DEF ToSet
  <1> QED
    BY <1>1, <1>2, <1>3

(* A cancel is accepted; it discards the buffer. *)
LEMMA CancelStep == ASSUME IInv, NEW mode \in {"plain", "kill", "rewind"}, Cancel(mode) PROVE IInv'
  <1>1. /\ Ready /\ interjections' = <<>> /\ settled' = settled \cup ToSet(interjections)
        /\ arm' = [At("cancel") EXCEPT !.then = mode]
        /\ UNCHANGED <<queue, sendNow, running, pin, suppressed, notices, monitor, turn, completions,
                       left, answer, spawned>>
    BY DEF Cancel, state, signals, turns
  <1>2. ArmType' /\ arm'.at = "cancel" /\ arm.at = "select"
    <2>1. arm' = [at |-> "cancel", ids |-> <<>>, task |-> None, then |-> mode]
      BY <1>1, ArmAt
    <2>2. "cancel" \in Places /\ mode \in Modes
      BY DEF Places, Modes
    <2> QED
      BY <1>1, <2>1, <2>2, ArmPlaced DEF Ready, Select
  <1>3. ArmShape' /\ HeldOnce'
    BY <1>1, <1>2, EmptyFacts DEF ArmShape, HeldOnce
  <1>4. Held' \subseteq Held
    BY <1>1, <1>2, EmptyFacts DEF Held
  <1>5. CancelSafe' /\ TurnsKept
    BY <1>1, <1>2 DEF IInv, CancelSafe, TurnsKept
  <1>6. suppressed' \in BOOLEAN
    BY <1>1, BufferFacts, Zenon
  <1>7. /\ turn' \in [Ids -> {"none", "over"} \cup Live] /\ pin' \in Ids \cup {None}
        /\ interjections' \in {<<>>, interjections}
        /\ notices' \subseteq Notices /\ monitor' \subseteq Notices /\ completions' \in Seq(Ids)
        /\ settled' \subseteq Asides \cup Notices /\ spawned' \subseteq Ids \cup {None}
        /\ answer' \in [Users -> Answers]
    BY <1>1, BufferFacts DEF DataOK
  <1> QED
    BY <1>1, <1>2, <1>3, <1>4, <1>5, <1>6, <1>7, MoveStep

(* A turn reads what is buffered for it. *)
LEMMA MergeStep == ASSUME IInv, NEW t \in Ids, Merge(t) \/ InjectMonitor(t) PROVE IInv'
  <1>1. /\ UNCHANGED <<queue, sendNow, running, pin, suppressed, notices, turn, completions,
                       left, answer, arm, spawned>>
        /\ interjections' \in {<<>>, interjections} /\ monitor' \in {{}, monitor}
        /\ settled' \in {settled \cup ToSet(interjections), settled \cup monitor}
    BY DEF Merge, InjectMonitor, state, signals, turns
  <1>2. ToSet(interjections') \subseteq ToSet(interjections) /\ IsInjective(interjections')
    BY <1>1, BufferFacts, EmptyFacts
  <1>3. ArmType' /\ ArmShape' /\ HeldOnce'
    BY <1>1, <1>2 DEF IInv, ArmType, ArmShape, HeldOnce
  <1>4. Held' \subseteq Held
    BY <1>1, <1>2 DEF Held
  <1>5. CancelSafe' /\ TurnsKept
    BY <1>1 DEF IInv, CancelSafe, TurnsKept
  <1>6. suppressed' \in BOOLEAN
    BY <1>1, BufferFacts, Zenon
  <1>7. /\ turn' \in [Ids -> {"none", "over"} \cup Live] /\ pin' \in Ids \cup {None}
        /\ notices' \subseteq Notices /\ monitor' \subseteq Notices /\ completions' \in Seq(Ids)
        /\ settled' \subseteq Asides \cup Notices /\ spawned' \subseteq Ids \cup {None}
        /\ answer' \in [Users -> Answers]
    BY <1>1, BufferFacts DEF DataOK
  <1> QED
    BY <1>1, <1>3, <1>4, <1>5, <1>6, <1>7, MoveStep

(* A turn ends, gives up the pin and posts its result. *)
LEMMA FinishStep == ASSUME IInv, NEW t \in Ids, Finish(t) PROVE IInv'
  <1>1. /\ UNCHANGED <<queue, sendNow, running, interjections, suppressed, notices, monitor,
                       left, answer, settled, arm, spawned>>
        /\ pin' \in {pin, None} /\ completions' \in {completions, Append(completions, t)}
    BY DEF Finish, EndTurn, Unpin, Post, state, signals, history
  <1>2. /\ turn[t] \in {"running", "ending", "unpinned"}
        /\ \E s \in {"ending", "unpinned", "over"} : turn' = [turn EXCEPT ![t] = s]
    BY DEF Finish, EndTurn, Unpin, Post
  <1>3. turn' \in [Ids -> {"none", "over"} \cup Live] /\ TurnsKept
    BY <1>2, BufferFacts DEF DataOK, Live, TurnsKept
  <1>4. ArmType' /\ ArmShape' /\ HeldOnce' /\ Held' \subseteq Held
    BY <1>1 DEF IInv, ArmType, ArmShape, HeldOnce, Held
  <1>5. CancelSafe'
    <2>1. Users \subseteq Ids
      BY KindFacts
    <2> QED
      BY <1>1, <1>3, <2>1 DEF IInv, CancelSafe, TurnsKept
  <1>6. suppressed' \in BOOLEAN
    BY <1>1, BufferFacts, Zenon
  <1>7. /\ pin' \in Ids \cup {None} /\ interjections' \in {<<>>, interjections}
        /\ notices' \subseteq Notices /\ monitor' \subseteq Notices
        /\ settled' \subseteq Asides \cup Notices /\ spawned' \subseteq Ids \cup {None}
        /\ answer' \in [Users -> Answers]
    BY <1>1, BufferFacts DEF DataOK
  <1>8. completions' \in Seq(Ids)
    <2>1. completions \in Seq(Ids)
      BY BufferFacts DEF DataOK
    <2>2. Append(completions, t) \in Seq(Ids)
      BY <2>1
    <2> QED
      BY <1>1, <2>1, <2>2
  <1> QED
    BY <1>1, <1>3, <1>4, <1>5, <1>6, <1>7, <1>8, MoveStep

(* Ending a turn that is over or never began changes nothing. *)
LEMMA EndedFacts ==
    ASSUME IInv, NEW t \in Ids \cup {None}
    PROVE  /\ Ended(t) \in [Ids -> {"none", "over"} \cup Live]
           /\ \A s \in Ids : Ended(t)[s] = "none" <=> turn[s] = "none"
  <1>1. turn \in [Ids -> {"none", "over"} \cup Live]
    BY DEF IInv, TypeOK
  <1> QED
    BY <1>1 DEF Ended, Live

(* The task of a cancelled turn is aborted. *)
LEMMA AbortStep == ASSUME IInv, Abort PROVE IInv'
  <1>1. /\ arm.at = "abort" /\ turn' = Ended(arm.task) /\ arm' = [arm EXCEPT !.at = "respond"]
        /\ UNCHANGED <<queue, sendNow, running, pin, interjections, suppressed, notices, monitor,
                       completions, left, answer, settled, spawned>>
    BY DEF Abort, state, signals, history
  <1>2. ArmType' /\ arm'.at = "respond" /\ arm'.ids = arm.ids /\ arm'.then = arm.then
    BY <1>1 DEF IInv, ArmType, Places
  <1>3. turn' \in [Ids -> {"none", "over"} \cup Live] /\ TurnsKept
    <2>1. arm.task \in Ids \cup {None}
      BY DEF IInv, ArmType
    <2> QED
      BY <1>1, <2>1, EndedFacts DEF TurnsKept
  <1>4. ArmShape' /\ HeldOnce' /\ Held' \subseteq Held
    BY <1>1, <1>2 DEF IInv, ArmShape, HeldOnce, Held
  <1>5. CancelSafe'
    <2>1. Users \subseteq Ids
      BY KindFacts
    <2> QED
      BY <1>1, <1>2, <1>3, <2>1 DEF IInv, CancelSafe, TurnsKept
  <1>6. suppressed' \in BOOLEAN
    BY <1>1, BufferFacts, Zenon
  <1>7. /\ pin' \in Ids \cup {None} /\ interjections' \in {<<>>, interjections}
        /\ notices' \subseteq Notices /\ monitor' \subseteq Notices /\ completions' \in Seq(Ids)
        /\ settled' \subseteq Asides \cup Notices /\ spawned' \subseteq Ids \cup {None}
        /\ answer' \in [Users -> Answers]
    BY <1>1, BufferFacts DEF DataOK
  <1> QED
    BY <1>1, <1>2, <1>3, <1>4, <1>5, <1>6, <1>7, MoveStep

(* The prompts a cancel took are answered. *)
LEMMA RespondStep == ASSUME IInv, Respond PROVE IInv'
  <1>1. /\ arm.at = "respond" /\ pin' = None /\ arm' = At("start")
        /\ answer' = [u \in Users |-> IF u \in ToSet(arm.ids) THEN "cancelled" ELSE answer[u]]
        /\ UNCHANGED <<queue, sendNow, running, interjections, notices, monitor, turn,
                       completions, left, settled, spawned>>
    BY DEF Respond, state, turns
  <1>2. suppressed' \in BOOLEAN
    BY Zenon DEF Respond
  <1>3. ArmType' /\ arm'.at = "start" /\ arm'.then = "select"
    BY <1>1, ArmAt, ArmPlaced DEF Places, Modes
  <1>4. ArmShape' /\ HeldOnce' /\ Held' \subseteq Held /\ CancelSafe' /\ TurnsKept
    BY <1>1, <1>3 DEF IInv, ArmShape, HeldOnce, Held, CancelSafe, TurnsKept
  <1>5. answer' \in [Users -> Answers]
    BY <1>1, BufferFacts DEF Answers
  <1>7. /\ turn' \in [Ids -> {"none", "over"} \cup Live] /\ pin' \in Ids \cup {None}
        /\ interjections' \in {<<>>, interjections}
        /\ notices' \subseteq Notices /\ monitor' \subseteq Notices /\ completions' \in Seq(Ids)
        /\ settled' \subseteq Asides \cup Notices /\ spawned' \subseteq Ids \cup {None}
    BY <1>1, BufferFacts DEF DataOK
  <1> QED
    BY <1>1, <1>2, <1>3, <1>4, <1>5, <1>7, MoveStep

(* A completion is taken from the channel. *)
LEMMA CompleteStep == ASSUME IInv, Complete PROVE IInv'
  <1> DEFINE c == Head(completions)
  <1>1. /\ completions # <<>> /\ pin' \in {pin, None} /\ completions' = Tail(completions)
        /\ arm' = [At("pop") EXCEPT !.ids = <<c>>]
        /\ UNCHANGED <<queue, sendNow, running, interjections, suppressed, notices, monitor, turn,
                       left, answer, settled, spawned>>
    BY DEF Complete, state, signals, history
  <1>2. c \in Ids /\ Tail(completions) \in Seq(Ids)
    <2>1. completions \in Seq(Ids)
      BY BufferFacts DEF DataOK
    <2> QED
      BY <1>1, <2>1
  <1> HIDE DEF c
  <1>3. ArmType' /\ arm'.at = "pop" /\ arm'.ids = <<c>> /\ <<c>> # <<>>
    <2>1. arm' = [at |-> "pop", ids |-> <<c>>, task |-> None, then |-> "select"]
      BY <1>1, ArmAt
    <2>2. "pop" \in Places /\ "select" \in Modes /\ <<c>> \in Seq(Ids) /\ None \in Ids \cup {None}
      BY <1>2 DEF Places, Modes
    <2> QED
      BY <2>1, <2>2, ArmBuilt
  <1>4. ArmShape' /\ HeldOnce' /\ Held' \subseteq Held /\ CancelSafe' /\ TurnsKept
    BY <1>1, <1>3 DEF IInv, ArmShape, HeldOnce, Held, CancelSafe, TurnsKept
  <1>6. suppressed' \in BOOLEAN
    BY <1>1, BufferFacts, Zenon
  <1>7. /\ turn' \in [Ids -> {"none", "over"} \cup Live] /\ pin' \in Ids \cup {None}
        /\ interjections' \in {<<>>, interjections}
        /\ notices' \subseteq Notices /\ monitor' \subseteq Notices /\ completions' \in Seq(Ids)
        /\ settled' \subseteq Asides \cup Notices /\ spawned' \subseteq Ids \cup {None}
        /\ answer' \in [Users -> Answers]
    BY <1>1, <1>2, BufferFacts DEF DataOK
  <1> QED
    BY <1>1, <1>3, <1>4, <1>6, <1>7, MoveStep

(* What the turn did not merge becomes prompts. *)
LEMMA FlushStep == ASSUME IInv, Flush PROVE IInv'
  <1>1. /\ arm.at = "flush" /\ interjections' = <<>>
        /\ arm' = [at |-> IF interjections = <<>> THEN "start" ELSE "fallback",
                   ids |-> interjections, task |-> None, then |-> "drain"]
        /\ UNCHANGED <<queue, sendNow, running, pin, suppressed, notices, monitor, turn, completions,
                       left, answer, settled, spawned>>
    BY DEF Flush, state, signals, turns, history
  <1>2. interjections \in Seq(Asides) /\ interjections \in Seq(Ids) /\ IsInjective(interjections)
    BY BufferFacts, KindFacts, SeqMonotone
  <1>3. /\ ArmType' /\ arm'.ids = interjections /\ arm'.then = "drain"
        /\ \/ arm'.at = "start"
           \/ arm'.at = "fallback" /\ interjections # <<>>
    <2> DEFINE p == IF interjections = <<>> THEN "start" ELSE "fallback"
    <2>1. p \in Places /\ "drain" \in Modes /\ None \in Ids \cup {None}
      BY DEF Places, Modes
    <2>2. p = "start" \/ (p = "fallback" /\ interjections # <<>>)
      OBVIOUS
    <2>3. arm' = [at |-> p, ids |-> interjections, task |-> None, then |-> "drain"]
      BY <1>1
    <2> HIDE DEF p
    <2> QED
      BY <1>2, <2>1, <2>2, <2>3, ArmBuilt
  <1>4. ArmShape' /\ HeldOnce'
    BY <1>1, <1>2, <1>3, EmptyFacts DEF ArmShape, HeldOnce
  <1>5. Held' \subseteq Held /\ CancelSafe' /\ TurnsKept
    BY <1>1, <1>3, EmptyFacts DEF Held, CancelSafe, TurnsKept
  <1>7. suppressed' \in BOOLEAN
    BY <1>1, BufferFacts, Zenon
  <1>8. /\ turn' \in [Ids -> {"none", "over"} \cup Live] /\ pin' \in Ids \cup {None}
        /\ interjections' \in {<<>>, interjections}
        /\ notices' \subseteq Notices /\ monitor' \subseteq Notices /\ completions' \in Seq(Ids)
        /\ settled' \subseteq Asides \cup Notices /\ spawned' \subseteq Ids \cup {None}
        /\ answer' \in [Users -> Answers]
    BY <1>1, BufferFacts DEF DataOK
  <1> QED
    BY <1>1, <1>3, <1>4, <1>5, <1>7, <1>8, MoveStep

(* A notification is put aside. *)
LEMMA NotifyStep == ASSUME IInv, Notify PROVE IInv'
  <1> DEFINE n == Arrive("notice")
  <1>1. /\ Ready /\ Accept("notice")
        /\ UNCHANGED <<queue, sendNow, running, pin, interjections, suppressed, turn, completions,
                       answer, settled, spawned>>
    BY DEF Notify, state, turns
  <1>2. \/ monitor' = monitor \cup {n} /\ notices' = notices /\ arm' = arm
        \/ notices' = notices \cup {n} /\ monitor' = monitor /\ arm' = At("drain")
    BY DEF Notify
  <1>3. /\ n \in Notices /\ n \in Ids /\ n \notin ToSet(queue) /\ turn[n] = "none"
        /\ \A a \in {n} : Arrived(a)'
        /\ left' \in [Kinds -> 0 .. MaxArrivals] /\ \A j \in Kinds : left'[j] <= left[j]
    BY <1>1, ArrivalFresh, KindFacts DEF Notices
  <1> HIDE DEF n
  <1>4. arm.at = "select"
    BY <1>1 DEF Ready, Select
  <1>5. arm' = arm \/ (ArmType' /\ arm'.at = "drain")
    BY <1>2, ArmAt, ArmPlaced DEF Places, Modes
  <1>6. ArmType' /\ ArmShape' /\ HeldOnce' /\ CancelSafe' /\ arm'.at \in {"select", "drain"}
    BY <1>1, <1>4, <1>5 DEF IInv, ArmType, ArmShape, HeldOnce, CancelSafe
  <1>7. Held' \subseteq Held \cup {n}
    BY <1>1, <1>2, <1>6 DEF Held
  <1>8. DataOK'
    BY <1>1, <1>2, <1>3, BufferFacts DEF DataOK
  <1>9. suppressed' \in BOOLEAN
    BY <1>1, BufferFacts, Zenon
  <1>10. Sound(queue)'
    BY <1>1 DEF IInv, Sound
  <1>11. AllArrived' /\ HeldFresh' /\ QueueFresh'
    <2>1. /\ ToSet(queue') \subseteq ToSet(queue) \cup {} /\ Held' \cap {} = {}
          /\ {n} \cap ToSet(queue') = {} /\ {n} \in SUBSET Ids /\ {} \in SUBSET Ids
          /\ \A t \in {} \cup {n} : Arrived(t)' /\ turn[t] = "none"
      BY <1>1, <1>3
    <2> QED
      BY <1>1, <1>3, <1>7, <1>10, <2>1, RunStep
  <1> QED
    BY <1>6, <1>8, <1>9, <1>10, <1>11, TypeParts DEF IInv

(* The notifications become one turn when the session is idle. *)
LEMMA DrainStep == ASSUME IInv, Drain PROVE IInv'
  <1> DEFINE swept == notices \cup monitor
  <1> DEFINE batch == CHOOSE n \in swept : TRUE
  <1>1. /\ arm.at = "drain"
        /\ UNCHANGED <<sendNow, running, pin, interjections, suppressed, turn, completions,
                       left, answer, spawned>>
    BY DEF Drain, turns
  <1>2. \/ arm' = Select /\ UNCHANGED <<queue, notices, monitor, settled>>
        \/ /\ notices' = {} /\ monitor' = {} /\ settled' = settled \cup swept
           /\ arm' = Select /\ queue' = queue
        \/ /\ running = None /\ swept # {} /\ notices' = {} /\ monitor' = {}
           /\ queue' = <<batch>> /\ settled' = settled \cup (swept \ {batch})
           /\ arm' = At("start") /\ queue = <<>>
    BY DEF Drain
  <1>3. suppressed' \in BOOLEAN
    BY <1>1, BufferFacts, Zenon
  <1>4. DataOK /\ swept \subseteq Notices
    BY BufferFacts DEF DataOK
  <1>5. CASE arm' = Select /\ queue' = queue /\ notices' \in {{}, notices}
             /\ monitor' \in {{}, monitor} /\ settled' \in {settled, settled \cup swept}
    <2>1. ArmType' /\ arm'.at = "select"
      <3>1. arm' = [at |-> "select", ids |-> <<>>, task |-> None, then |-> "select"]
        BY <1>5 DEF Select
      <3> QED
        BY <3>1, ArmPlaced DEF Places, Modes
    <2>2. ArmShape' /\ HeldOnce' /\ Held' \subseteq Held /\ CancelSafe' /\ TurnsKept
      BY <1>1, <1>5, <2>1 DEF IInv, ArmShape, HeldOnce, Held, CancelSafe, TurnsKept
    <2>4. /\ turn' \in [Ids -> {"none", "over"} \cup Live] /\ pin' \in Ids \cup {None}
          /\ interjections' \in {<<>>, interjections}
          /\ notices' \subseteq Notices /\ monitor' \subseteq Notices /\ completions' \in Seq(Ids)
          /\ settled' \subseteq Asides \cup Notices /\ spawned' \subseteq Ids \cup {None}
          /\ answer' \in [Users -> Answers]
      BY <1>1, <1>4, <1>5, BufferFacts DEF DataOK
    <2> QED
      BY <1>1, <1>3, <1>5, <2>1, <2>2, <2>4, MoveStep
  <1>6. CASE /\ running = None /\ swept # {} /\ notices' = {} /\ monitor' = {}
             /\ queue' = <<batch>> /\ settled' = settled \cup (swept \ {batch})
             /\ arm' = At("start") /\ queue = <<>>
    <2>1. batch \in swept
      BY <1>6
    <2>2. batch \in Ids /\ batch \in Held
      BY <1>4, <2>1, KindFacts DEF Held
    <2>3. turn[batch] = "none" /\ \A t \in {batch} : Arrived(t)'
      <3>1. turn[batch] = "none" /\ Arrived(batch)
        BY <2>2 DEF IInv, HeldFresh, AllArrived
      <3> QED
        BY <1>1, <3>1 DEF Arrived
    <2>4. batch \notin ToSet(interjections)
      BY <1>4, <2>1, BufferFacts, KindFacts
    <2> HIDE DEF batch
    <2>5. <<batch>> \in Seq(Ids) /\ ToSet(<<batch>>) = {batch} /\ IsInjective(<<batch>>)
      BY <2>2 DEF ToSet, IsInjective
    <2>6. Sound(queue)' /\ queue' \in Seq(Ids)
      BY <1>1, <1>6, <2>5 DEF Sound
    <2>7. ArmType' /\ arm'.at = "start" /\ arm'.then = "select"
      BY <1>6, ArmAt, ArmPlaced DEF Places, Modes
    <2>8. ArmShape' /\ HeldOnce' /\ CancelSafe'
      BY <1>1, <2>7 DEF IInv, ArmShape, HeldOnce, CancelSafe
    <2>9. Held' \subseteq Held \ {batch}
      BY <1>1, <1>6, <2>4, <2>7 DEF Held
    <2>10. DataOK'
      BY <1>1, <1>4, <1>6, <2>6 DEF DataOK
    <2>11. AllArrived' /\ HeldFresh' /\ QueueFresh'
      <3>1. /\ ToSet(queue') \subseteq ToSet(queue) \cup {batch} /\ Held' \subseteq Held \cup {}
            /\ Held' \cap {batch} = {} /\ {batch} \in SUBSET Ids /\ {} \in SUBSET Ids
            /\ {} \cap ToSet(queue') = {}
            /\ \A t \in {batch} \cup {} : Arrived(t)' /\ turn[t] = "none"
        BY <1>6, <2>2, <2>3, <2>5, <2>9
      <3>2. /\ left' \in [Kinds -> 0 .. MaxArrivals] /\ \A j \in Kinds : left'[j] <= left[j]
        BY <1>1, <1>4, QueueAssumption DEF DataOK, QueueAssumption
      <3> QED
        BY <1>1, <2>6, <3>1, <3>2, RunStep
    <2> QED
      BY <1>3, <2>6, <2>7, <2>8, <2>10, <2>11, TypeParts DEF IInv
  <1> HIDE DEF batch
  <1> QED
    BY <1>2, <1>5, <1>6

(* A completion dequeues the front only when it is its own. *)
LEMMA PopStep == ASSUME IInv, Pop PROVE IInv'
  <1> DEFINE c == arm.ids[1]
  <1>1. /\ arm.at = "pop" /\ queue' = (IF Owned THEN Tail(queue) ELSE queue)
        /\ sendNow' = sendNow \ {c}
        /\ answer' = [u \in Users |-> IF Owned /\ u = c THEN "completed" ELSE answer[u]]
        /\ running' = (IF Owned \/ running = c THEN None ELSE running)
        /\ notices' = notices \cup monitor /\ monitor' = {}
        /\ arm' = At("flush")
        /\ UNCHANGED <<pin, interjections, suppressed, turn, completions, left, settled, spawned>>
    BY DEF Pop, turns
  <1>2. c \in Ids
    BY <1>1 DEF IInv, ArmType, ArmShape
  <1>3. Owned <=> queue # <<>> /\ Head(queue) = c
    BY DEF Owned
  <1> HIDE DEF c
  <1>4. DataOK /\ Sound(queue) /\ (running # None => queue # <<>> /\ Head(queue) = running)
    BY BufferFacts DEF IInv, Sound
  <1>5. \/ /\ queue # <<>> /\ queue' = Tail(queue) /\ running' = None
           /\ running = None \/ running = Head(queue)
        \/ queue' = queue /\ running' = running
    <2>1. CASE Owned
      BY <1>1, <1>3, <1>4, <2>1
    <2>2. CASE ~Owned
      <3>1. running # c
        BY <1>2, <1>3, <1>4, <2>2, NoneIsNoInput
      <3> QED
        BY <1>1, <2>2, <3>1
    <2> QED
      BY <2>1, <2>2
  <1>6. /\ Sound(queue)' /\ ToSet(queue') \subseteq ToSet(queue) /\ queue' \in Seq(Ids)
        /\ running' \in {running, None} /\ (running' = None => running \notin ToSet(queue'))
    <2>1. CASE /\ queue # <<>> /\ queue' = Tail(queue) /\ running' = None
               /\ running = None \/ running = Head(queue)
      <3>1. /\ Tail(queue) \in Seq(Ids) /\ IsInjective(Tail(queue))
            /\ ToSet(Tail(queue)) \subseteq ToSet(queue) \ {Head(queue)}
        BY <1>4, <2>1, TailFacts DEF Sound
      <3>2. ToSet(queue) \subseteq Ids
        BY <1>4, FrontQueued
      <3> QED
        BY <2>1, <3>1, <3>2, NoneIsNoInput DEF Sound
    <2>2. CASE queue' = queue /\ running' = running
      <3>1. ToSet(queue) \subseteq Ids
        BY <1>4, FrontQueued
      <3> QED
        BY <1>4, <2>2, <3>1, NoneIsNoInput DEF Sound
    <2> QED
      BY <1>5, <2>1, <2>2
  <1>7. ArmType' /\ arm'.at = "flush"
    BY <1>1, ArmAt, ArmPlaced DEF Places, Modes
  <1>8. ArmShape' /\ HeldOnce' /\ CancelSafe' /\ Held' \subseteq Held /\ TurnsKept
    BY <1>1, <1>7 DEF IInv, ArmShape, HeldOnce, CancelSafe, Held, TurnsKept
  <1>9. DataOK'
    BY <1>1, <1>4, <1>6 DEF DataOK
  <1>10. suppressed' \in BOOLEAN
    BY <1>1, BufferFacts, Zenon
  <1>11. AllArrived' /\ HeldFresh' /\ QueueFresh'
    <2>1. /\ left' \in [Kinds -> 0 .. MaxArrivals] /\ \A k \in Kinds : left'[k] <= left[k]
      BY <1>1, <1>4, QueueAssumption DEF DataOK, QueueAssumption
    <2>2. /\ {} \in SUBSET Ids /\ ToSet(queue') \subseteq ToSet(queue) \cup {}
          /\ Held' \subseteq Held \cup {} /\ Held' \cap {} = {} /\ {} \cap ToSet(queue') = {}
          /\ \A t \in {} \cup {} : Arrived(t)' /\ turn[t] = "none"
      BY <1>6, <1>8
    <2> QED
      BY <1>6, <1>8, <2>1, <2>2, CoreStep
  <1> QED
    BY <1>6, <1>7, <1>8, <1>9, <1>10, <1>11, TypeParts DEF IInv

(* What a cancel takes and what it leaves. *)
LEMMA TakenFacts ==
    ASSUME IInv, NEW taken, taken = queue \/ (queue # <<>> /\ taken = <<Head(queue)>>),
           NEW rest, rest = SubSeq(queue, Len(taken) + 1, Len(queue))
    PROVE  /\ taken \in Seq(Ids) /\ rest \in Seq(Ids) /\ IsInjective(rest)
           /\ ToSet(rest) \subseteq ToSet(queue) /\ running \notin ToSet(rest)
           /\ taken # <<>> => taken[1] = Head(queue) /\ queue # <<>>
  <1>1. Sound(queue) /\ queue \in Seq(Ids) /\ IsInjective(queue) /\ ToSet(queue) \subseteq Ids
        /\ (running # None => queue # <<>> /\ Head(queue) = running)
    BY FrontQueued DEF IInv, Sound
  <1>2. CASE taken = queue
    <2>1. rest = <<>>
      BY <1>1, <1>2
    <2>2. taken # <<>> => taken[1] = Head(queue)
      BY <1>1, <1>2
    <2> QED
      BY <1>1, <1>2, <2>1, <2>2, EmptyFacts
  <1>3. CASE queue # <<>> /\ taken = <<Head(queue)>>
    <2>1. Len(taken) + 1 = 2 /\ taken[1] = Head(queue) /\ taken \in Seq(Ids)
      BY <1>1, <1>3
    <2>2. rest = Tail(queue)
      BY <1>1, <1>3, <2>1, TailIsSubSeq
    <2>3. /\ Tail(queue) \in Seq(Ids) /\ IsInjective(Tail(queue))
          /\ ToSet(Tail(queue)) \subseteq ToSet(queue) \ {Head(queue)}
      BY <1>1, <1>3, TailFacts
    <2> QED
      BY <1>1, <1>3, <2>1, <2>2, <2>3, NoneIsNoInput
  <1> QED
    BY <1>2, <1>3

(* The locked section of a cancel: an idle queue has no client's prompt at *)
(* its front, so what is resolved as the running turn is one.              *)
LEMMA SeverStep == ASSUME IInv, NEW rewound \in BOOLEAN, Sever(rewound) PROVE IInv'
  <1> DEFINE kill == arm.then = "kill"
  <1> DEFINE swept == notices \cup monitor
  <1> DEFINE taken == IF kill \/ queue = <<>> THEN queue ELSE <<Head(queue)>>
  <1> DEFINE task == IF rewound THEN None ELSE running
  <1>1. /\ arm.at = "cancel" /\ running' = None
        /\ queue' = SubSeq(queue, Len(taken) + 1, Len(queue))
        /\ sendNow' = sendNow \ ToSet(taken) /\ monitor' = {}
        /\ notices' = (IF kill THEN {} ELSE swept)
        /\ settled' = (IF kill THEN settled \cup swept \cup (Asides \cap ToSet(taken)) ELSE settled)
        /\ turn' = (IF rewound THEN Ended(running) ELSE turn)
        /\ arm' = [at |-> "abort", ids |-> taken, task |-> task, then |-> arm.then]
        /\ UNCHANGED <<pin, interjections, completions, left, answer, spawned>>
    BY DEF Sever
  <1>2. suppressed' \in BOOLEAN
    BY Zenon DEF Sever
  <1>3. /\ taken = queue \/ (queue # <<>> /\ taken = <<Head(queue)>>)
        /\ ~kill => taken = <<>> \/ taken = <<Head(queue)>>
    OBVIOUS
  <1> HIDE DEF taken
  <1>4. /\ taken \in Seq(Ids) /\ queue' \in Seq(Ids) /\ IsInjective(queue')
        /\ ToSet(queue') \subseteq ToSet(queue) /\ running \notin ToSet(queue')
        /\ taken # <<>> => taken[1] = Head(queue) /\ queue # <<>>
    BY <1>1, <1>3, TakenFacts
  <1>5. DataOK /\ arm.then \in Modes
    BY BufferFacts DEF IInv, ArmType
  <1>6. task \in Ids \cup {None}
    BY <1>5 DEF DataOK
  <1> HIDE DEF task
  <1>7. ArmType' /\ arm'.at = "abort" /\ arm'.ids = taken /\ arm'.then = arm.then
    <2>1. "abort" \in Places
      BY DEF Places
    <2> QED
      BY <1>1, <1>4, <1>5, <1>6, <2>1, ArmBuilt
  <1>8. turn' \in [Ids -> {"none", "over"} \cup Live] /\ TurnsKept
    BY <1>1, <1>5, EndedFacts DEF DataOK, TurnsKept
  <1>9. DataOK'
    BY <1>1, <1>4, <1>5, <1>8 DEF DataOK
  <1>10. Sound(queue)'
    BY <1>1, <1>4 DEF Sound
  <1>11. ArmShape' /\ HeldOnce' /\ Held' \subseteq Held
    BY <1>1, <1>7 DEF IInv, ArmShape, HeldOnce, Held
  <1>12. AllArrived' /\ HeldFresh' /\ QueueFresh'
    <2>1. /\ left' \in [Kinds -> 0 .. MaxArrivals] /\ \A k \in Kinds : left'[k] <= left[k]
      BY <1>1, <1>5, QueueAssumption DEF DataOK, QueueAssumption
    <2>2. /\ {} \in SUBSET Ids /\ ToSet(queue') \subseteq ToSet(queue) \cup {}
          /\ Held' \subseteq Held \cup {} /\ Held' \cap {} = {} /\ {} \cap ToSet(queue') = {}
          /\ \A t \in {} \cup {} : Arrived(t)' /\ turn[t] = "none"
      BY <1>4, <1>11
    <2> QED
      BY <1>1, <1>4, <1>8, <1>10, <2>1, <2>2, CoreStep
  <1>13. CancelSafe'
    <2> SUFFICES ASSUME ~kill, NEW t \in ToSet(taken), t \in Users PROVE turn'[t] # "none"
      BY <1>7 DEF CancelSafe
    <2>0. taken # <<>> /\ t = taken[1]
      BY <1>3, EmptyFacts DEF ToSet
    <2>1. queue # <<>> /\ t = Head(queue) /\ Head(queue) \in ToSet(queue) /\ Head(queue) \in Ids
      BY <1>4, <2>0, FrontQueued DEF IInv
    <2>2. running # None
      <3>1. Head(queue)[1] # "resume"
        BY <2>1, KindFacts
      <3> QED
        BY <1>1, <2>1, <3>1 DEF IInv, CancelSafe
    <2>3. Head(queue) = running /\ turn[running] # "none"
      BY <2>2 DEF IInv, Sound, QueueFresh
    <2> QED
      BY <1>8, <2>1, <2>3 DEF TurnsKept
  <1> QED
    BY <1>2, <1>7, <1>9, <1>10, <1>11, <1>12, <1>13, TypeParts DEF IInv

(* The front of an idle queue begins its first turn. *)
LEMMA BeginFacts ==
    ASSUME IInv, running = None, queue # <<>>, NEW h, h = Head(queue),
           running' = h, turn' = [turn EXCEPT ![h] = "running"],
           UNCHANGED <<queue, left>>, Held' \subseteq Held
    PROVE  /\ h \in Ids /\ turn[h] = "none" /\ turn' \in [Ids -> {"none", "over"} \cup Live]
           /\ \A t \in Ids : turn[t] # "none" => turn'[t] # "none"
           /\ Sound(queue)' /\ AllArrived' /\ HeldFresh' /\ QueueFresh'
  <1>1. h \in Ids /\ h \in ToSet(queue) /\ h # None /\ ToSet(queue) \subseteq Ids
    BY FrontQueued, NoneIsNoInput DEF IInv
  <1>2. turn[h] = "none" /\ Arrived(h)
    BY <1>1 DEF IInv, QueueFresh, AllArrived
  <1>3. /\ turn' \in [Ids -> {"none", "over"} \cup Live] /\ turn'[h] = "running"
        /\ \A t \in Ids : t # h => turn'[t] = turn[t]
    BY <1>1, BufferFacts DEF DataOK, Live
  <1>4. \A t : Arrived(t) => Arrived(t)'
    BY DEF Arrived
  <1>5. Sound(queue)'
    BY DEF IInv, Sound
  <1>6. Held \subseteq Ids
    <2>1. interjections \in Seq(Asides) /\ arm.ids \in Seq(Ids)
      BY DEF IInv, TypeOK
    <2> QED
      BY <2>1, KindFacts, BufferFacts DEF DataOK, Held, ToSet
  <1>7. AllArrived'
    BY <1>1, <1>2, <1>3, <1>4 DEF IInv, AllArrived
  <1>8. HeldFresh'
    <2> SUFFICES ASSUME NEW t \in Held PROVE turn'[t] = "none" /\ t \notin ToSet(queue)
      BY DEF HeldFresh
    <2>1. turn[t] = "none" /\ t \notin ToSet(queue) /\ t \in Ids
      BY <1>6 DEF IInv, HeldFresh
    <2> QED
      BY <1>1, <1>3, <2>1
  <1>9. QueueFresh'
    <2>1. \A t \in ToSet(queue) : turn[t] = "none"
      BY <1>1, NoneIsNoInput DEF IInv, QueueFresh
    <2>2. \A t \in ToSet(queue) : t # h => turn'[t] = "none"
      BY <1>1, <1>3, <2>1
    <2>3. turn'[h] # "none"
      BY <1>3
    <2> QED
      BY <2>2, <2>3 DEF QueueFresh
  <1> QED
    BY <1>1, <1>2, <1>3, <1>5, <1>7, <1>8, <1>9

(* maybe_start_running_task, called by the loop or by a task beside it. *)
LEMMA StartStep ==
    ASSUME IInv, MaybeStart, spawned' \subseteq spawned,
           UNCHANGED <<queue, sendNow, interjections, suppressed, notices, monitor, completions,
                       left, answer, settled>>,
           \/ arm' = arm
           \/ arm.at = "start" /\ arm' = At(arm.then)
    PROVE  IInv'
  <1>1. \/ /\ arm' = arm /\ ArmType'
        \/ ArmType' /\ arm'.at \in {"select", "drain"} /\ arm.at = "start"
    <2>1. CASE arm' = arm
      BY <2>1 DEF IInv, ArmType
    <2>2. CASE arm.at = "start" /\ arm' = At(arm.then)
      <3>1. arm.then \in {"select", "drain"}
        BY <2>2 DEF IInv, ArmShape
      <3>2. arm.then \in Places /\ "select" \in Modes
        BY <3>1 DEF Places, Modes
      <3>3. arm' = [at |-> arm.then, ids |-> <<>>, task |-> None, then |-> "select"]
        BY <2>2, ArmAt
      <3> QED
        BY <2>2, <3>1, <3>2, <3>3, ArmPlaced
    <2> QED
      BY <2>1, <2>2
  <1>2. ArmShape' /\ HeldOnce' /\ Held' \subseteq Held
    BY <1>1 DEF IInv, ArmShape, HeldOnce, Held
  <1>3. DataOK
    BY BufferFacts
  <1>4. suppressed' \in BOOLEAN
    BY BufferFacts, Zenon
  <1>5. \/ (running # None \/ queue = <<>>) /\ UNCHANGED <<running, pin, turn>>
        \/ /\ running = None /\ queue # <<>> /\ running' = Head(queue) /\ pin' = Head(queue)
           /\ turn' = [turn EXCEPT ![Head(queue)] = "running"]
    BY DEF MaybeStart
  <1>6. CASE (running # None \/ queue = <<>>) /\ UNCHANGED <<running, pin, turn>>
    <2>1. CancelSafe'
      BY <1>1, <1>6, EmptyFacts DEF IInv, CancelSafe
    <2>2. TurnsKept
      BY <1>6 DEF IInv, TurnsKept
    <2>3. /\ turn' \in [Ids -> {"none", "over"} \cup Live] /\ pin' \in Ids \cup {None}
          /\ interjections' \in {<<>>, interjections}
          /\ notices' \subseteq Notices /\ monitor' \subseteq Notices /\ completions' \in Seq(Ids)
          /\ settled' \subseteq Asides \cup Notices /\ spawned' \subseteq Ids \cup {None}
          /\ answer' \in [Users -> Answers]
      BY <1>3, <1>6, BufferFacts DEF DataOK
    <2> QED
      BY <1>1, <1>2, <1>4, <1>6, <2>1, <2>2, <2>3, MoveStep
  <1>7. CASE /\ running = None /\ queue # <<>> /\ running' = Head(queue) /\ pin' = Head(queue)
             /\ turn' = [turn EXCEPT ![Head(queue)] = "running"]
    <2> DEFINE h == Head(queue)
    <2> HIDE DEF h
    <2>1. /\ h \in Ids /\ turn' \in [Ids -> {"none", "over"} \cup Live]
          /\ \A t \in Ids : turn[t] # "none" => turn'[t] # "none"
          /\ Sound(queue)' /\ AllArrived' /\ HeldFresh' /\ QueueFresh'
      BY <1>2, <1>7, BeginFacts DEF h
    <2>2. running' = h /\ pin' = h /\ h # None
      BY <1>7, <2>1, NoneIsNoInput DEF h
    <2>3. DataOK'
      BY <1>3, <2>1, <2>2 DEF DataOK
    <2>4. CancelSafe'
      <3>1. Users \subseteq Ids
        BY KindFacts
      <3> QED
        BY <1>1, <2>1, <2>2, <3>1 DEF IInv, CancelSafe
    <2> QED
      BY <1>1, <1>2, <1>4, <2>1, <2>3, <2>4, TypeParts DEF IInv
  <1> QED
    BY <1>5, <1>6, <1>7

-----------------------------------------------------------------------------
(* The theorems. *)

(* A session starts with an empty queue and every input still to come. *)
LEMMA InitInv == Init => IInv
  <1> SUFFICES ASSUME Init PROVE IInv
    OBVIOUS
  <1>1. left \in [Kinds -> 0 .. MaxArrivals]
    BY QueueAssumption DEF Init
  <1>2. arm = [at |-> "select", ids |-> <<>>, task |-> None, then |-> "select"]
    BY DEF Init, Select
  <1>3. <<>> \in Seq(Ids) /\ <<>> \in Seq(Asides)
    OBVIOUS
  <1>4. ArmType /\ ArmShape
    BY <1>2, <1>3 DEF ArmType, ArmShape, Places, Modes
  <1>5. TypeOK
    <2>1. turn \in [Ids -> {"none", "over"} \cup Live]
      BY DEF Init
    <2>2. answer \in [Users -> {"unsent", "waiting", "completed", "cancelled", "removed"}]
      BY DEF Init
    <2>3. suppressed \in BOOLEAN
      BY Zenon DEF Init
    <2>4. /\ arm.at \in {"select", "pop", "flush", "fallback", "start", "drain",
                         "cancel", "abort", "respond"}
          /\ arm.then \in {"select", "drain", "plain", "kill", "rewind", "send_now"}
          /\ arm.ids \in Seq(Ids) /\ arm.task \in Ids \cup {None}
      BY <1>2, <1>3
    <2>5. /\ queue \in Seq(Ids) /\ sendNow \subseteq Ids
          /\ running \in Ids \cup {None} /\ pin \in Ids \cup {None}
          /\ interjections \in Seq(Asides) /\ completions \in Seq(Ids)
          /\ notices \subseteq Notices /\ monitor \subseteq Notices
          /\ settled \subseteq Asides \cup Notices /\ spawned \subseteq Ids \cup {None}
      BY <1>3 DEF Init
    <2> QED
      BY <1>1, <2>1, <2>2, <2>3, <2>4, <2>5 DEF TypeOK
  <1>6. ToSet(queue) = {} /\ Held = {}
    BY <1>2 DEF Init, Held, ToSet
  <1>7. IsInjective(queue) /\ IsInjective(interjections)
    BY DEF Init, IsInjective
  <1>8. Sound(queue)
    BY <1>3, <1>7 DEF Init, Sound
  <1>9. \A t \in Ids : turn[t] = "none"
    BY DEF Init
  <1>10. AllArrived /\ HeldFresh /\ QueueFresh
    BY <1>6, <1>9 DEF Init, AllArrived, HeldFresh, QueueFresh
  <1>11. HeldOnce
    BY <1>2, <1>7 DEF HeldOnce
  <1>12. CancelSafe
    BY <1>2, <1>6 DEF CancelSafe
  <1> QED
    BY <1>4, <1>5, <1>8, <1>10, <1>11, <1>12 DEF IInv

(* Nothing the invariant speaks of moves when nothing moves. *)
LEMMA StutterStep == ASSUME IInv, UNCHANGED vars PROVE IInv'
  BY DEF IInv, TypeOK, ArmType, ArmShape, Sound, Held, Arrived, AllArrived, HeldFresh,
         HeldOnce, QueueFresh, CancelSafe,
         vars, state, signals, turns, history

(* Every step of the loop, of a turn and of the tasks beside them keeps    *)
(* the invariant.                                                          *)
LEMMA NextStep == ASSUME IInv, [Next]_vars PROVE IInv'
  <1>1. CASE Command
    <2>1. CASE \E now \in BOOLEAN : Prompt(now)
      BY <2>1, PromptStep
    <2>2. CASE \E u \in Users : RemoveQueued(u) \/ InterjectQueued(u)
      BY <2>2, RemoveStep, InterjectQueuedStep
    <2>3. CASE \E own \in SUBSET Users : ClearQueue(own)
      BY <2>3, ClearStep
    <2>4. CASE \E order \in Orders : ReorderQueue(order)
      BY <2>4, ReorderStep
    <2>5. CASE \E mode \in {"plain", "kill", "rewind"} : Cancel(mode)
      BY <2>5, CancelStep
    <2>6. CASE Wake
      BY <2>6, AppendStep
    <2>7. CASE Interject
      BY <2>7, InterjectStep
    <2>8. CASE Notify
      BY <2>8, NotifyStep
    <2> QED
      BY <1>1, <2>1, <2>2, <2>3, <2>4, <2>5, <2>6, <2>7, <2>8 DEF Command
  <1>2. CASE Loop
    <2>1. CASE Complete
      BY <2>1, CompleteStep
    <2>2. CASE Pop
      BY <2>2, PopStep
    <2>3. CASE Flush
      BY <2>3, FlushStep
    <2>4. CASE Fallback
      BY <2>4, FallbackStep
    <2>5. CASE Start
      BY <2>5, StartStep DEF Start, signals, history
    <2>6. CASE Drain
      BY <2>6, DrainStep
    <2>7. CASE Abort
      BY <2>7, AbortStep
    <2>8. CASE Respond
      BY <2>8, RespondStep
    <2>9. CASE \E rewound \in BOOLEAN : Sever(rewound)
      BY <2>9, SeverStep
    <2> QED
      BY <1>2, <2>1, <2>2, <2>3, <2>4, <2>5, <2>6, <2>7, <2>8, <2>9 DEF Loop
  <1>3. CASE ResumePlan
    BY <1>3, AppendStep
  <1>4. CASE Quiet
    BY <1>4, StutterStep DEF Quiet
  <1>5. CASE \E t \in Ids : TurnStep(t)
    BY <1>5, MergeStep, ConsumeStep, FinishStep DEF TurnStep
  <1>6. CASE \E h \in Ids \cup {None} : Promote(h)
    <2>1. PICK h \in Ids \cup {None} : Promote(h)
      BY <1>6
    <2>2. spawned' \subseteq spawned /\ MaybeStart /\ arm' = arm
      BY <2>1 DEF Promote
    <2>3. UNCHANGED <<queue, sendNow, interjections, suppressed, notices, monitor, completions,
                      left, answer, settled>>
      BY <2>1 DEF Promote, signals, history
    <2> QED
      BY <2>2, <2>3, StartStep
  <1>7. CASE UNCHANGED vars
    BY <1>7, StutterStep
  <1> QED
    BY <1>1, <1>2, <1>3, <1>4, <1>5, <1>6, <1>7 DEF Next

(* The inductive invariant: no prompt is in the queue twice, none is there *)
(* or held beside it after its turn, and a cancel finds no client's prompt *)
(* waiting at the front of an idle queue.                                  *)
THEOREM Inductive == Spec => []IInv
  BY InitInv, NextStep, PTL DEF Spec

(* Type correctness. *)
THEOREM TypeCorrect == Spec => []TypeOK
  <1>1. IInv => TypeOK
    BY DEF IInv
  <1> QED
    BY <1>1, Inductive, PTL

(* Whatever is inserted, swept, reordered, removed or completed, the       *)
(* running turn stays at index 0, where handle_completion and a cancel     *)
(* take it for granted.                                                    *)
THEOREM FrontIsRunning == Spec => []RunningIsFront
  <1>1. IInv => RunningIsFront
    BY DEF IInv, Sound, RunningIsFront
  <1> QED
    BY <1>1, Inductive, PTL

(* Only the front leaves with the front. *)
LEMMA TailKeeps ==
    ASSUME NEW q \in Seq(Ids), NEW u \in ToSet(q), u # Head(q)
    PROVE  q # <<>> /\ u \in ToSet(Tail(q))
  <1>1. q # <<>>
    BY EmptyFacts
  <1>2. PICK i \in 1 .. Len(q) : q[i] = u
    BY DEF ToSet
  <1> DEFINE r == Tail(q)
  <1>3. i - 1 \in 1 .. Len(r) /\ r[i - 1] = q[i] /\ DOMAIN r = 1 .. Len(r)
    BY <1>1, <1>2
  <1> HIDE DEF r
  <1>4. i - 1 \in DOMAIN r /\ r[i - 1] = u
    BY <1>2, <1>3
  <1>5. u \in ToSet(r)
    BY <1>4 DEF ToSet
  <1> QED
    BY <1>1, <1>5 DEF r

(* The locked section of a cancel that is no teardown takes the front      *)
(* alone, and that is the running turn or, without one, a plan's resume.   *)
LEMMA SeverSpares ==
    ASSUME IInv, NEW rewound \in BOOLEAN, Sever(rewound), arm.then # "kill",
           NEW u \in Users, turn[u] = "none", u \in ToSet(queue)
    PROVE  u \in ToSet(queue')
  <1>1. queue \in Seq(Ids) /\ queue # <<>> /\ arm.at = "cancel"
    BY EmptyFacts DEF IInv, Sound, Sever
  <1>2. u # Head(queue)
    <2>1. CASE running = None
      <3>1. \A t \in ToSet(queue) : t[1] = "resume"
        BY <1>1, <2>1 DEF IInv, CancelSafe
      <3> QED
        BY <3>1, KindFacts
    <2>2. CASE running # None
      BY <2>2 DEF IInv, Sound, QueueFresh
    <2> QED
      BY <2>1, <2>2
  <1>3. queue' = SubSeq(queue, Len(<<Head(queue)>>) + 1, Len(queue))
    BY <1>1 DEF Sever
  <1>4. queue' = Tail(queue)
    <2>1. Len(<<Head(queue)>>) + 1 = 2
      OBVIOUS
    <2> QED
      BY <1>1, <1>3, <2>1, TailIsSubSeq
  <1> QED
    BY <1>1, <1>2, <1>4, TailKeeps

(* Whoever else moves while a cancel is carried out leaves a client's      *)
(* prompt in the queue.                                                    *)
LEMMA OthersSpare ==
    ASSUME IInv, [Next]_vars, arm.at = "cancel", arm.then # "kill",
           NEW u \in Users, turn[u] = "none", u \in ToSet(queue)
    PROVE  u \in ToSet(queue')
  <1>1. ~Command
    <2>1. ~Ready
      BY DEF Ready, Select
    <2> QED
      BY <2>1 DEF Command, Prompt, RemoveQueued, InterjectQueued, ClearQueue, ReorderQueue,
                  Cancel, Wake, Interject, Notify
  <1>2. CASE Loop
    <2>1. PICK rewound \in BOOLEAN : Sever(rewound)
      BY <1>2 DEF Loop, Complete, Pop, Flush, Fallback, Start, Drain, Abort, Respond, Select
    <2> QED
      BY <2>1, SeverSpares
  <1>3. CASE ResumePlan
    <2> DEFINE p == Arrive("resume")
    <2>1. Accept("resume") /\ queue' = Append(queue, p)
      BY <1>3 DEF ResumePlan
    <2>2. p \in Ids \ ToSet(queue)
      BY <2>1, ArrivalFresh, KindFacts
    <2> HIDE DEF p
    <2>3. Sound(queue)
      BY DEF IInv
    <2> QED
      BY <2>1, <2>2, <2>3, SoundAppend
  <1>4. CASE \E t \in Ids : Consume(t)
    <2>1. PICK c \in OfKind("completion") : queue' = Sweep({c})
      BY <1>4 DEF Consume
    <2>2. c # u
      BY DEF OfKind, Users
    <2> DEFINE S == {c} \ {running}
    <2>3. running \notin S /\ u \notin S /\ queue' = Without(queue, S)
      BY <2>1, <2>2 DEF Sweep
    <2> HIDE DEF S
    <2>4. Sound(queue)
      BY DEF IInv
    <2> QED
      BY <2>3, <2>4, SoundWithout
  <1>5. CASE UNCHANGED queue
    BY <1>5
  <1> QED
    BY <1>1, <1>2, <1>3, <1>4, <1>5
       DEF Next, Quiet, TurnStep, Merge, InjectMonitor, Finish, EndTurn, Unpin, Post, Promote,
           vars, state

(* Only the answers of a cancel say "cancelled", and without a teardown    *)
(* they go to a prompt whose turn had begun.                               *)
LEMMA OnlyStartedTold ==
    ASSUME IInv, [Next]_vars, arm.then # "kill", NEW u \in Users, turn[u] = "none",
           answer'[u] = "cancelled"
    PROVE  answer[u] = "cancelled"
  <1>1. answer \in [Users -> Answers]
    BY BufferFacts
  <1>2. CASE Command
    <2>1. CASE \E now \in BOOLEAN : Prompt(now)
      BY <1>1, <2>1 DEF Prompt
    <2>2. CASE \E v \in Users : RemoveQueued(v) \/ InterjectQueued(v)
      BY <1>1, <2>2 DEF RemoveQueued, InterjectQueued
    <2>3. CASE \E own \in SUBSET Users : ClearQueue(own)
      BY <1>1, <2>3 DEF ClearQueue
    <2> QED
      BY <1>2, <2>1, <2>2, <2>3
         DEF Command, ReorderQueue, Cancel, Wake, Interject, Notify, history
  <1>3. CASE Loop
    <2>1. CASE Respond
      <3>1. u \notin ToSet(arm.ids)
        BY <2>1 DEF Respond, IInv, CancelSafe
      <3> QED
        BY <2>1, <3>1 DEF Respond
    <2>2. CASE Pop
      BY <2>2 DEF Pop
    <2> QED
      BY <1>3, <2>1, <2>2
         DEF Loop, Complete, Flush, Fallback, Start, Drain, Abort, Sever, history
  <1>4. CASE ResumePlan \/ Quiet \/ UNCHANGED vars
    BY <1>4 DEF ResumePlan, Quiet, vars, history
  <1>5. CASE \E t \in Ids : TurnStep(t)
    BY <1>5 DEF TurnStep, Merge, InjectMonitor, Consume, Finish, EndTurn, Unpin, Post, history
  <1>6. CASE \E h \in Ids \cup {None} : Promote(h)
    BY <1>6 DEF Promote, history
  <1> QED
    BY <1>2, <1>3, <1>4, <1>5, <1>6 DEF Next

(* A prompt that waits for its turn survives every cancel but a teardown,  *)
(* although cancel_running_task resolves index 0 whether or not a task     *)
(* runs.                                                                   *)
THEOREM CancelSparesWaiting == Spec => CancelHitsOnlyStarted
  <1>1. IInv /\ [Next]_vars => [SparesWaiting]_vars
    <2> SUFFICES ASSUME IInv, [Next]_vars PROVE SparesWaiting
      OBVIOUS
    <2> SUFFICES ASSUME arm.then # "kill", NEW u \in Users, turn[u] = "none"
                 PROVE  /\ answer'[u] = "cancelled" => answer[u] = "cancelled"
                        /\ arm.at = "cancel" /\ u \in ToSet(queue) => u \in ToSet(queue')
      BY DEF SparesWaiting
    <2> QED
      BY OthersSpare, OnlyStartedTold
  <1> QED
    BY <1>1, Inductive, PTL DEF Spec, CancelHitsOnlyStarted

(* The loop leaves a turn by starting none: only maybe_start_running_task  *)
(* sets running_task.                                                      *)
LEMMA OnlyMaybeStart ==
    ASSUME [Next]_vars PROVE running' \in {running, None} \/ MaybeStart
  <1>1. CASE Command
    BY <1>1 DEF Command, Prompt, RemoveQueued, InterjectQueued, ClearQueue, ReorderQueue,
                Cancel, Wake, Interject, Notify, state
  <1>2. CASE Loop
    BY <1>2 DEF Loop, Complete, Pop, Flush, Fallback, Start, Drain, Abort, Respond, Sever, state
  <1>3. CASE ResumePlan \/ Quiet \/ UNCHANGED vars
    BY <1>3 DEF ResumePlan, Quiet, vars, state
  <1>4. CASE \E t \in Ids : TurnStep(t)
    BY <1>4 DEF TurnStep, Merge, InjectMonitor, Consume, Finish, EndTurn, Unpin, Post, state
  <1>5. CASE \E h \in Ids \cup {None} : Promote(h)
    BY <1>5 DEF Promote
  <1> QED
    BY <1>1, <1>2, <1>3, <1>4, <1>5 DEF Next

(* No prompt is given to the model twice, also when the completion of a    *)
(* cancelled turn arrives late.                                            *)
THEOREM NeverTwice == Spec => StartedOnce
  <1>1. IInv /\ [Next]_vars => [running' \notin {running, None} => turn[running'] = "none"]_vars
    <2> SUFFICES ASSUME IInv, [Next]_vars, running' \notin {running, None}
                 PROVE  turn[running'] = "none"
      OBVIOUS
    <2>1. running = None /\ queue # <<>> /\ running' = Head(queue)
      BY OnlyMaybeStart DEF MaybeStart
    <2>2. Head(queue) \in ToSet(queue) /\ Head(queue) # None
      BY <2>1, FrontQueued, NoneIsNoInput DEF IInv
    <2> QED
      BY <2>1, <2>2 DEF IInv, QueueFresh
  <1> QED
    BY <1>1, Inductive, PTL DEF Spec, StartedOnce

=============================================================================
