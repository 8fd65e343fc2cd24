---------------------------- MODULE WorkerProofs ----------------------------
(***************************************************************************)
(* Theorems of Worker for any number of connections, descriptors and pool  *)
(* threads: no circle of mutexes, no descriptor left open, none shared.    *)
(*                                                                         *)
(* What holds of every piece of code (its locks nest and go up in Rank,    *)
(* its steps come in the order of Flow) is proved where the code is put    *)
(* together; CodeInv says it of what each thread has still to do, and      *)
(* FdInv relates that to the connections, their places and their numbers.  *)
(***************************************************************************)
EXTENDS Worker, DataLemmas, TLAPS

-----------------------------------------------------------------------------
(* What a thread has still to do, and the mutexes it holds meanwhile.      *)

StepNames == {"lock", "unlock", "test", "close", "unset", "recycle",
              "get", "free", "add", "refuse"}
Steps == StepNames \X (Mutexes \cup {Null})

\* The order in which the code locks: every mutex has a higher rank than those held.
Rank(m) ==
  IF m = "m_connectionMutex" THEN 5
  ELSE IF m = "m_recyconnqueueMutex" THEN 4
  ELSE IF m = "m_timequeueMutex" THEN 3
  ELSE IF m = "m_sendMessageQueueMutex" THEN 2 ELSE 1

Locks(q, i, m) == q[i][1] = "lock" /\ q[i][2] = m
Unlocks(q, i, m) == q[i][1] = "unlock" /\ q[i][2] = m

\* The mutexes held before step i of q: those q gives back without taking them before.
Held(q, i) ==
  {m \in Mutexes :
     \E j \in i..Len(q) : Unlocks(q, j, m) /\ \A k \in i..j-1 : ~Locks(q, k, m)}

\* q locks only mutexes above r and above those it holds, gives back each that it
\* locks, and none that it does not hold.
Disciplined(q, r) ==
  \A i \in 1..Len(q) :
    /\ q[i][1] = "lock" =>
         /\ q[i][2] \in Held(q, i + 1) /\ Rank(q[i][2]) > r
         /\ \A m \in Held(q, i) : Rank(m) < Rank(q[i][2])
    /\ q[i][1] = "unlock" => q[i][2] \in Mutexes \ Held(q, i + 1)

\* A piece of code that begins and ends without a mutex.
Clean(q, r) == q \in Seq(Steps) /\ Disciplined(q, r) /\ Held(q, 1) = {}

\* p is what is left of q after its first d steps.
Rest(p, q, d) ==
  /\ p \in Seq(Steps) /\ q \in Seq(Steps) /\ d \in 0..Len(q) /\ Len(p) = Len(q) - d
  /\ \A i \in 1..Len(p) : p[i] = q[i + d]

(* What is held at a step is seen in the steps after it.                   *)
LEMMA HeldInRest ==
  ASSUME NEW p, NEW q, NEW d, Rest(p, q, d), NEW i \in 1..Len(p) + 1
  PROVE  Held(p, i) = Held(q, i + d)
<1>1. Len(p) \in Nat /\ Len(q) \in Nat /\ d \in Nat
  BY LenProperties DEF Rest
<1>2. ASSUME NEW m \in Mutexes, NEW j \in i..Len(p), Unlocks(p, j, m),
             \A k \in i..j-1 : ~Locks(p, k, m)
      PROVE  m \in Held(q, i + d)
  <2>1. j + d \in (i + d)..Len(q) /\ Unlocks(q, j + d, m)
    BY <1>1, <1>2 DEF Rest, Unlocks
  <2>2. ASSUME NEW k \in (i + d)..(j + d)-1 PROVE ~Locks(q, k, m)
    <3>1. k - d \in i..j-1 /\ k - d \in 1..Len(p) /\ p[k - d] = q[(k - d) + d]
      BY <1>1, <1>2 DEF Rest
    <3>2. (k - d) + d = k
      BY <1>1
    <3>3. QED
      BY <1>2, <3>1, <3>2 DEF Locks
  <2>3. QED
    BY <2>1, <2>2 DEF Held
<1>3. ASSUME NEW m \in Mutexes, NEW j \in (i + d)..Len(q), Unlocks(q, j, m),
             \A k \in (i + d)..j-1 : ~Locks(q, k, m)
      PROVE  m \in Held(p, i)
  <2>1. j - d \in i..Len(p) /\ p[j - d] = q[(j - d) + d] /\ (j - d) + d = j
    BY <1>1, <1>3 DEF Rest
  <2>2. Unlocks(p, j - d, m)
    BY <1>3, <2>1 DEF Unlocks
  <2>3. ASSUME NEW k \in i..(j - d)-1 PROVE ~Locks(p, k, m)
    <3>1. k + d \in (i + d)..j-1 /\ k \in 1..Len(p) /\ p[k] = q[k + d]
      BY <1>1, <1>3 DEF Rest
    <3>2. QED
      BY <1>3, <3>1 DEF Locks
  <2>4. QED
    BY <2>1, <2>2, <2>3 DEF Held
<1>4. QED
  BY <1>2, <1>3 DEF Held

LEMMA RestDisciplined ==
  ASSUME NEW p, NEW q, NEW d, Rest(p, q, d), NEW r \in Int, Disciplined(q, r)
  PROVE  Disciplined(p, r)
<1>1. Len(p) \in Nat /\ Len(q) \in Nat /\ d \in Nat
  BY LenProperties DEF Rest
<1>2. SUFFICES ASSUME NEW i \in 1..Len(p)
      PROVE /\ p[i][1] = "lock" =>
                 /\ p[i][2] \in Held(p, i + 1) /\ Rank(p[i][2]) > r
                 /\ \A m \in Held(p, i) : Rank(m) < Rank(p[i][2])
            /\ p[i][1] = "unlock" => p[i][2] \in Mutexes \ Held(p, i + 1)
  BY DEF Disciplined
<1>3. i + d \in 1..Len(q) /\ p[i] = q[i + d] /\ (i + 1) + d = (i + d) + 1
  BY <1>1 DEF Rest
<1>4. Held(p, i) = Held(q, i + d) /\ Held(p, i + 1) = Held(q, (i + d) + 1)
  <2>1. i \in 1..Len(p) + 1 /\ i + 1 \in 1..Len(p) + 1
    BY <1>1
  <2>2. Held(p, i) = Held(q, i + d) /\ Held(p, i + 1) = Held(q, (i + 1) + d)
    BY <2>1, HeldInRest
  <2>3. QED
    BY <1>3, <2>2
<1>5. QED
  BY <1>3, <1>4 DEF Disciplined

(* How a step changes what is held.                                        *)
LEMMA HeldStep ==
  ASSUME NEW q \in Seq(Steps), NEW i \in 1..Len(q)
  PROVE  /\ q[i][1] = "lock" => Held(q, i) = Held(q, i + 1) \ {q[i][2]}
         /\ q[i][1] = "unlock" /\ q[i][2] \in Mutexes
              => Held(q, i) = Held(q, i + 1) \cup {q[i][2]}
         /\ q[i][1] \notin {"lock", "unlock"} => Held(q, i) = Held(q, i + 1)
<1>1. Len(q) \in Nat
  BY LenProperties
<1>2. ASSUME NEW m \in Held(q, i + 1), ~Locks(q, i, m)
      PROVE  m \in Held(q, i)
  <2>1. PICK j \in (i + 1)..Len(q) : Unlocks(q, j, m) /\ \A k \in (i + 1)..j-1 : ~Locks(q, k, m)
    BY DEF Held
  <2>2. j \in i..Len(q) /\ \A k \in i..j-1 : k = i \/ k \in (i + 1)..j-1
    BY <1>1, <2>1
  <2>3. \A k \in i..j-1 : ~Locks(q, k, m)
    BY <1>2, <2>1, <2>2
  <2>4. QED
    BY <2>1, <2>2, <2>3 DEF Held
<1>3. ASSUME NEW m \in Held(q, i)
      PROVE  Unlocks(q, i, m) \/ (~Locks(q, i, m) /\ m \in Held(q, i + 1))
  <2>1. PICK j \in i..Len(q) : Unlocks(q, j, m) /\ \A k \in i..j-1 : ~Locks(q, k, m)
    BY DEF Held
  <2>2. CASE j = i
    BY <2>1, <2>2
  <2>3. CASE j # i
    <3>1. j \in (i + 1)..Len(q) /\ i \in i..j-1 /\ (i + 1)..j-1 \subseteq i..j-1
      BY <1>1, <2>1, <2>3
    <3>2. QED
      BY <2>1, <3>1 DEF Held
  <2>4. QED
    BY <2>2, <2>3
<1>4. ASSUME NEW m \in Mutexes, Unlocks(q, i, m)
      PROVE  m \in Held(q, i)
  <2>1. i \in i..Len(q) /\ i..i-1 = {}
    BY <1>1
  <2>2. QED
    BY <1>4, <2>1 DEF Held
<1>5. Held(q, i) \subseteq Mutexes /\ Held(q, i + 1) \subseteq Mutexes
  BY DEF Held
<1>6. QED
  BY <1>2, <1>3, <1>4, <1>5 DEF Locks, Unlocks

-----------------------------------------------------------------------------
(* How code is put together.                                               *)

LEMMA Joined ==
  ASSUME NEW a \in Seq(Steps), NEW b \in Seq(Steps)
  PROVE  /\ a \o b \in Seq(Steps) /\ Len(a \o b) = Len(a) + Len(b)
         /\ Len(a) \in Nat /\ Len(b) \in Nat
         /\ \A i \in 1..Len(a) : (a \o b)[i] = a[i]
         /\ \A i \in 1..Len(b) : (a \o b)[Len(a) + i] = b[i]
         /\ \A i \in 1..Len(a \o b) :
              i \notin 1..Len(a) => i - Len(a) \in 1..Len(b) /\ (a \o b)[i] = b[i - Len(a)]
<1>1. /\ a \o b \in Seq(Steps) /\ Len(a \o b) = Len(a) + Len(b)
      /\ Len(a) \in Nat /\ Len(b) \in Nat
      /\ \A i \in 1..Len(a) : (a \o b)[i] = a[i]
      /\ \A i \in 1..Len(b) : (a \o b)[Len(a) + i] = b[i]
  BY ConcatProperties, LenProperties
<1>2. ASSUME NEW i \in 1..Len(a \o b), i \notin 1..Len(a)
      PROVE  i - Len(a) \in 1..Len(b) /\ (a \o b)[i] = b[i - Len(a)]
  <2>1. i - Len(a) \in 1..Len(b) /\ Len(a) + (i - Len(a)) = i
    BY <1>1, <1>2
  <2>2. QED
    BY <1>1, <2>1
<1>3. QED
  BY <1>1, <1>2

LEMMA NothingClean == ASSUME NEW r \in Int PROVE Clean(<<>>, r)
  BY DEF Clean, Disciplined, Held

(* One step that is no lock and no unlock.                                 *)
LEMMA DoClean ==
  ASSUME NEW step \in StepNames \ {"lock", "unlock"}, NEW r \in Int
  PROVE  Clean(Do(step), r)
<1>1. Do(step) \in Seq(Steps) /\ Len(Do(step)) = 1 /\ Do(step)[1] = <<step, Null>>
  BY DEF Do, Steps
<1>2. QED
  BY <1>1 DEF Clean, Disciplined, Held, Unlocks

(* Clean code after clean code.                                            *)
LEMMA JoinClean ==
  ASSUME NEW r \in Int, NEW a, NEW b, Clean(a, r), Clean(b, r)
  PROVE  Clean(a \o b, r)
<1> DEFINE c == a \o b
           n == Len(a)
<1>1. a \in Seq(Steps) /\ b \in Seq(Steps)
  BY DEF Clean
<1>2. /\ c \in Seq(Steps) /\ Len(c) = n + Len(b) /\ n \in Nat /\ Len(b) \in Nat
      /\ \A i \in 1..n : c[i] = a[i]
      /\ \A i \in 1..Len(b) : c[n + i] = b[i]
      /\ \A i \in 1..Len(c) : i \notin 1..n => i - n \in 1..Len(b) /\ c[i] = b[i - n]
  BY <1>1, Joined
<1> HIDE DEF c, n
<1>3. Rest(b, c, n)
  BY <1>1, <1>2 DEF Rest
<1>4. \A i \in 1..Len(b) + 1 : Held(b, i) = Held(c, i + n)
  BY <1>3, HeldInRest
<1>5. Held(c, n + 1) = {}
  <2>1. 1 \in 1..Len(b) + 1 /\ 1 + n = n + 1
    BY <1>2
  <2>2. QED
    BY <1>4, <2>1 DEF Clean
<1>6. ASSUME NEW i \in 1..n + 1 PROVE Held(c, i) = Held(a, i)
  <2>1. ASSUME NEW m \in Mutexes, NEW j \in i..n, Unlocks(a, j, m),
               \A k \in i..j-1 : ~Locks(a, k, m)
        PROVE  m \in Held(c, i)
    <3>1. j \in i..Len(c) /\ j \in 1..n /\ i..j-1 \subseteq 1..n
      BY <1>2, <2>1
    <3>2. Unlocks(c, j, m) /\ \A k \in i..j-1 : ~Locks(c, k, m)
      BY <1>2, <2>1, <3>1 DEF Unlocks, Locks
    <3>3. QED
      BY <3>1, <3>2 DEF Held
  <2>2. ASSUME NEW m \in Mutexes, NEW j \in i..Len(c), Unlocks(c, j, m),
               \A k \in i..j-1 : ~Locks(c, k, m)
        PROVE  m \in Held(a, i)
    <3>1. CASE j \in 1..n
      <4>0. /\ j \in i..n /\ c[j] = a[j]
            /\ \A k \in i..j-1 : k \in 1..n /\ c[k] = a[k]
        <5>1. j \in i..n /\ i..j-1 \subseteq 1..n
          BY <1>2, <2>2, <3>1
        <5>2. QED
          BY <1>2, <3>1, <5>1
      <4>1. /\ j \in i..n /\ Unlocks(a, j, m)
            /\ \A k \in i..j-1 : ~Locks(a, k, m)
        BY <2>2, <4>0 DEF Unlocks, Locks
      <4>2. QED
        BY <4>1 DEF Held, n
    <3>2. CASE j \notin 1..n
      <4>1. j \in (n + 1)..Len(c) /\ (n + 1)..j-1 \subseteq i..j-1
        BY <1>2, <3>2
      <4>2. m \in Held(c, n + 1)
        BY <2>2, <4>1 DEF Held
      <4>3. QED
        BY <1>5, <4>2
    <3>3. QED
      BY <3>1, <3>2
  <2>3. QED
    BY <2>1, <2>2 DEF Held, n
<1>7. ASSUME NEW i \in 1..Len(c)
      PROVE  /\ c[i][1] = "lock" =>
                  /\ c[i][2] \in Held(c, i + 1) /\ Rank(c[i][2]) > r
                  /\ \A m \in Held(c, i) : Rank(m) < Rank(c[i][2])
             /\ c[i][1] = "unlock" => c[i][2] \in Mutexes \ Held(c, i + 1)
  <2>1. CASE i \in 1..n
    <3>1. c[i] = a[i] /\ Held(c, i) = Held(a, i) /\ Held(c, i + 1) = Held(a, i + 1)
      BY <1>2, <1>6, <2>1
    <3>2. QED
      BY <2>1, <3>1 DEF Clean, Disciplined, n
  <2>2. CASE i \notin 1..n
    <3>1. /\ i - n \in 1..Len(b) /\ c[i] = b[i - n]
          /\ i - n \in 1..Len(b) + 1 /\ (i - n) + 1 \in 1..Len(b) + 1
          /\ (i - n) + n = i /\ ((i - n) + 1) + n = i + 1
      BY <1>2, <2>2
    <3>2. Held(c, i) = Held(b, i - n) /\ Held(c, i + 1) = Held(b, (i - n) + 1)
      BY <1>4, <3>1
    <3>3. QED
      BY <3>1, <3>2 DEF Clean, Disciplined
  <2>3. QED
    BY <2>1, <2>2
<1>8. Held(c, 1) = {}
  BY <1>2, <1>6 DEF Clean
<1>9. Clean(c, r)
  BY <1>2, <1>7, <1>8 DEF Clean, Disciplined
<1>10. QED
  BY <1>9 DEF c

(* Clean code gives back only what it has locked, so what it unlocks is above r. *)
LEMMA UnlocksAbove ==
  ASSUME NEW r \in Int, NEW q, Clean(q, r), NEW i \in 1..Len(q), q[i][1] = "unlock"
  PROVE  Rank(q[i][2]) > r
<1>1. q \in Seq(Steps) /\ Len(q) \in Nat /\ q[i][2] \in Mutexes
  BY LenProperties DEF Clean, Disciplined
<1>2. PICK k \in 1..i-1 : Locks(q, k, q[i][2])
  <2>1. SUFFICES ASSUME \A k \in 1..i-1 : ~Locks(q, k, q[i][2])
                 PROVE  FALSE
    OBVIOUS
  <2>2. q[i][2] \in Held(q, 1)
    BY <1>1, <2>1 DEF Held, Unlocks
  <2>3. QED
    BY <2>2 DEF Clean
<1>3. k \in 1..Len(q)
  BY <1>1
<1>4. QED
  BY <1>2, <1>3 DEF Clean, Disciplined, Locks

(* The steps of a critical section.                                        *)
LEMMA Section ==
  ASSUME NEW m \in Mutexes, NEW body \in Seq(Steps)
  PROVE  LET n == Len(body)
             c == CLock(m, body)
         IN  /\ n \in Nat /\ c \in Seq(Steps) /\ Len(c) = n + 2
             /\ c[1] = <<"lock", m>> /\ c[n + 2] = <<"unlock", m>>
             /\ \A i \in 1..n : c[i + 1] = body[i]
<1> DEFINE n == Len(body)
<1>0. n \in Nat
  BY LenProperties
<1> DEFINE first == <<<<"lock", m>>>>
           last == <<<<"unlock", m>>>>
           front == first \o body
<1>1. /\ first \in Seq(Steps) /\ Len(first) = 1 /\ first[1] = <<"lock", m>>
      /\ last \in Seq(Steps) /\ Len(last) = 1 /\ last[1] = <<"unlock", m>>
  BY DEF Steps, StepNames
<1> HIDE DEF first, last
<1>2. /\ front \in Seq(Steps) /\ Len(front) = n + 1
      /\ front[1] = <<"lock", m>> /\ \A i \in 1..n : front[1 + i] = body[i]
  <2>1. /\ front \in Seq(Steps) /\ Len(front) = Len(first) + n
        /\ \A i \in 1..Len(first) : front[i] = first[i]
        /\ \A i \in 1..n : front[Len(first) + i] = body[i]
    BY <1>1, Joined
  <2>2. QED
    BY <1>0, <1>1, <2>1
<1> HIDE DEF front
<1>3. /\ front \o last \in Seq(Steps) /\ Len(front \o last) = n + 2
      /\ \A i \in 1..n + 1 : (front \o last)[i] = front[i]
      /\ (front \o last)[(n + 1) + 1] = <<"unlock", m>>
  <2>1. /\ front \o last \in Seq(Steps) /\ Len(front \o last) = Len(front) + Len(last)
        /\ \A i \in 1..Len(front) : (front \o last)[i] = front[i]
        /\ \A i \in 1..Len(last) : (front \o last)[Len(front) + i] = last[i]
    BY <1>1, <1>2, Joined
  <2>2. QED
    BY <1>0, <1>1, <1>2, <2>1
<1>4. CLock(m, body) = front \o last
  BY DEF CLock, front, first, last
<1>5. 1 \in 1..n + 1 /\ (n + 1) + 1 = n + 2 /\ \A i \in 1..n : i + 1 \in 1..n + 1 /\ 1 + i = i + 1
  BY <1>0
<1>6. QED
  BY <1>2, <1>3, <1>4, <1>5

(* Code inside a critical section whose mutex is below all that it locks.  *)
LEMMA CLockClean ==
  ASSUME NEW m \in Mutexes, NEW r \in Int, Rank(m) > r,
         NEW body, Clean(body, Rank(m))
  PROVE  Clean(CLock(m, body), r)
<1> DEFINE c == CLock(m, body)
           n == Len(body)
<1>1. body \in Seq(Steps) /\ n \in Nat /\ Rank(m) \in Int
  BY LenProperties DEF Clean, Rank
<1>2. /\ c \in Seq(Steps) /\ Len(c) = n + 2
      /\ c[1] = <<"lock", m>> /\ c[n + 2] = <<"unlock", m>>
      /\ \A i \in 1..n : c[i + 1] = body[i]
  BY <1>1, Section
<1> HIDE DEF c
<1>3. ASSUME NEW i \in 1..n
      PROVE  body[i][1] \in {"lock", "unlock"} => body[i][2] # m
  <2>1. body[i][1] = "lock" => body[i][2] # m
    BY <1>1 DEF Clean, Disciplined
  <2>2. body[i][1] = "unlock" => body[i][2] # m
    BY <1>1, UnlocksAbove
  <2>3. QED
    BY <2>1, <2>2
<1>4. ASSUME NEW i \in 1..n + 1
      PROVE  Held(c, i + 1) = Held(body, i) \cup {m}
  <2>1. m \in Held(c, i + 1)
    <3>1. n + 2 \in (i + 1)..Len(c) /\ Unlocks(c, n + 2, m)
      BY <1>1, <1>2 DEF Unlocks
    <3>2. ASSUME NEW k \in (i + 1)..(n + 2)-1 PROVE ~Locks(c, k, m)
      <4>1. k - 1 \in 1..n /\ (k - 1) + 1 = k
        BY <1>1
      <4>2. c[k] = body[k - 1]
        BY <1>2, <4>1
      <4>3. QED
        BY <1>3, <4>1, <4>2 DEF Locks
    <3>3. QED
      BY <3>1, <3>2 DEF Held
  <2>2. ASSUME NEW u \in Held(body, i)
        PROVE  u \in Held(c, i + 1)
    <3>1. PICK j \in i..n : Unlocks(body, j, u) /\ \A k \in i..j-1 : ~Locks(body, k, u)
      BY DEF Held
    <3>2. j + 1 \in (i + 1)..Len(c) /\ c[j + 1] = body[j]
      BY <1>1, <1>2
    <3>3. ASSUME NEW k \in (i + 1)..(j + 1)-1 PROVE ~Locks(c, k, u)
      <4>1. k - 1 \in i..j-1 /\ k - 1 \in 1..n /\ (k - 1) + 1 = k
        BY <1>1
      <4>2. c[k] = body[k - 1]
        BY <1>2, <4>1
      <4>3. QED
        BY <3>1, <4>1, <4>2 DEF Locks
    <3>4. QED
      BY <3>1, <3>2, <3>3 DEF Held, Unlocks
  <2>3. ASSUME NEW u \in Held(c, i + 1), u # m
        PROVE  u \in Held(body, i)
    <3>1. PICK j \in (i + 1)..Len(c) :
              Unlocks(c, j, u) /\ \A k \in (i + 1)..j-1 : ~Locks(c, k, u)
      BY DEF Held
    <3>2. j # n + 2
      BY <1>2, <2>3, <3>1 DEF Unlocks
    <3>3. j - 1 \in i..n /\ j - 1 \in 1..n /\ (j - 1) + 1 = j
      BY <1>1, <1>2, <3>2
    <3>4. Unlocks(body, j - 1, u)
      BY <1>2, <3>1, <3>3 DEF Unlocks
    <3>5. ASSUME NEW k \in i..(j - 1)-1 PROVE ~Locks(body, k, u)
      <4>1. k + 1 \in (i + 1)..j-1 /\ k \in 1..n
        BY <1>1, <3>3
      <4>2. QED
        BY <1>2, <3>1, <4>1 DEF Locks
    <3>6. QED
      BY <3>3, <3>4, <3>5 DEF Held
  <2>4. QED
    BY <2>1, <2>2, <2>3
<1>5. 1 + 1 = 2 /\ n + 2 = (n + 1) + 1 /\ 1 \in 1..n + 1 /\ n + 1 \in 1..n + 1
  BY <1>1
<1>6. Held(c, 2) = {m}
  BY <1>4, <1>5 DEF Clean
<1>7. Held(c, 1) = {}
  <2>1. 1 \in 1..Len(c)
    BY <1>1, <1>2
  <2>2. Held(c, 1) = Held(c, 2) \ {c[1][2]}
    BY <1>2, <1>5, <2>1, HeldStep
  <2>3. QED
    BY <1>2, <1>6, <2>2
<1>8. Held(c, (n + 2) + 1) = {}
  BY <1>1, <1>2 DEF Held
<1>9. ASSUME NEW i \in 1..Len(c)
      PROVE  /\ c[i][1] = "lock" =>
                  /\ c[i][2] \in Held(c, i + 1) /\ Rank(c[i][2]) > r
                  /\ \A u \in Held(c, i) : Rank(u) < Rank(c[i][2])
             /\ c[i][1] = "unlock" => c[i][2] \in Mutexes \ Held(c, i + 1)
  <2>1. CASE i = 1
    BY <1>2, <1>5, <1>6, <1>7, <2>1
  <2>2. CASE i = n + 2
    BY <1>2, <1>8, <2>2
  <2>3. CASE i # 1 /\ i # n + 2
    <3>1. /\ i - 1 \in 1..n /\ i - 1 \in 1..n + 1 /\ (i - 1) + 1 = i
          /\ i \in 1..n + 1
      BY <1>1, <1>2, <2>3
    <3>2. /\ c[i] = body[i - 1] /\ Held(c, i) = Held(body, i - 1) \cup {m}
          /\ Held(c, i + 1) = Held(body, i) \cup {m}
      BY <1>2, <1>4, <3>1
    <3>3. CASE c[i][1] = "lock"
      <4>1. /\ body[i - 1][2] \in Held(body, i) /\ Rank(body[i - 1][2]) > Rank(m)
            /\ \A u \in Held(body, i - 1) : Rank(u) < Rank(body[i - 1][2])
        BY <3>1, <3>2, <3>3 DEF Clean, Disciplined
      <4>2. Rank(body[i - 1][2]) \in Int
        BY DEF Rank
      <4>3. QED
        BY <1>1, <3>2, <3>3, <4>1, <4>2
    <3>4. CASE c[i][1] = "unlock"
      <4>1. body[i - 1][2] \in Mutexes \ Held(body, i)
        BY <3>1, <3>2, <3>4 DEF Clean, Disciplined
      <4>2. QED
        BY <1>3, <3>1, <3>2, <3>4, <4>1
    <3>5. QED
      BY <3>3, <3>4
  <2>4. QED
    BY <2>1, <2>2, <2>3
<1>10. Clean(c, r)
  BY <1>2, <1>7, <1>9 DEF Clean, Disciplined
<1>11. QED
  BY <1>10 DEF c

-----------------------------------------------------------------------------
(* The order of the steps that work on a connection.                       *)

Closing == {"test", "close", "unset"}
OnConn == Closing \cup {"recycle", "free", "add"}

Names(q) == {q[i][1] : i \in 1..Len(q)}

\* What never comes after a step of this name.
Never(step) ==
  IF step = "unset" THEN Closing \cup {"free", "add", "get"}
  ELSE IF step \in {"test", "close"} THEN {"free", "add", "get"}
  ELSE IF step \in {"recycle", "add"} THEN OnConn \cup {"get"}
  ELSE IF step = "free" THEN {"free", "add", "recycle", "get"}
  ELSE IF step \in {"get", "refuse"} THEN {"get", "refuse", "recycle"} ELSE {}
Flow(q) == \A i, j \in 1..Len(q) : i < j => q[j][1] \notin Never(q[i][1])

\* The three steps of closing are not separated.
Triple(q) ==
  \A i \in 1..Len(q) :
    /\ q[i][1] = "test" => i + 2 <= Len(q) /\ q[i + 1][1] = "close" /\ q[i + 2][1] = "unset"
    /\ q[i][1] = "close" => i + 1 <= Len(q) /\ q[i + 1][1] = "unset"
    /\ q[i][1] = "close" /\ i > 1 => q[i - 1][1] = "test"
    /\ q[i][1] = "unset" /\ i > 1 => q[i - 1][1] = "close"
Whole(q) == Triple(q) /\ (Len(q) > 0 => q[1][1] \notin {"close", "unset"})

\* A way through the code, from its first step to its last.
Code(q, r) == Clean(q, r) /\ Whole(q) /\ Flow(q)

LEMMA JoinCode ==
  ASSUME NEW r \in Int, NEW a, NEW b, Code(a, r), Code(b, r),
         \A x \in Names(a) : Names(b) \cap Never(x) = {}
  PROVE  Code(a \o b, r) /\ Names(a \o b) = Names(a) \cup Names(b)
<1> DEFINE c == a \o b
           n == Len(a)
<1>1. a \in Seq(Steps) /\ b \in Seq(Steps)
  BY DEF Code, Clean
<1>2. /\ c \in Seq(Steps) /\ Len(c) = n + Len(b) /\ n \in Nat /\ Len(b) \in Nat
      /\ \A i \in 1..n : c[i] = a[i]
      /\ \A i \in 1..Len(b) : c[n + i] = b[i]
      /\ \A i \in 1..Len(c) : i \notin 1..n => i - n \in 1..Len(b) /\ c[i] = b[i - n]
  BY <1>1, Joined
<1>3. Clean(c, r)
  BY JoinClean DEF Code
<1> HIDE DEF c
<1>4. Names(c) = Names(a) \cup Names(b)
  <2>1. ASSUME NEW x \in Names(a) PROVE x \in Names(c)
    <3>1. PICK i \in 1..n : x = a[i][1]
      BY DEF Names, n
    <3>2. i \in 1..Len(c) /\ x = c[i][1]
      BY <1>2, <3>1
    <3>3. QED
      BY <3>2 DEF Names
  <2>2. ASSUME NEW x \in Names(b) PROVE x \in Names(c)
    <3>1. PICK i \in 1..Len(b) : x = b[i][1]
      BY DEF Names
    <3>2. n + i \in 1..Len(c) /\ x = c[n + i][1]
      BY <1>2, <3>1
    <3>3. QED
      BY <3>2 DEF Names
  <2>3. ASSUME NEW x \in Names(c) PROVE x \in Names(a) \cup Names(b)
    BY <1>2, <2>3 DEF Names
  <2>4. QED
    BY <2>1, <2>2, <2>3
<1>5. Flow(c)
  <2>1. SUFFICES ASSUME NEW i \in 1..Len(c), NEW j \in 1..Len(c), i < j
                 PROVE  c[j][1] \notin Never(c[i][1])
    BY DEF Flow
  <2>2. CASE j \in 1..n
    <3>1. i \in 1..n
      BY <1>2, <2>1, <2>2
    <3>2. QED
      BY <1>2, <2>1, <2>2, <3>1 DEF Code, Flow
  <2>3. CASE i \notin 1..n
    <3>1. j \notin 1..n /\ i - n < j - n
      BY <1>2, <2>1, <2>3
    <3>2. QED
      BY <1>2, <2>1, <2>3, <3>1 DEF Code, Flow
  <2>4. CASE i \in 1..n /\ j \notin 1..n
    BY <1>2, <2>4 DEF Names
  <2>5. QED
    BY <2>2, <2>3, <2>4
<1>6. Whole(c)
  <2>1. ASSUME NEW i \in 1..Len(c)
        PROVE  /\ c[i][1] = "test" =>
                    i + 2 <= Len(c) /\ c[i + 1][1] = "close" /\ c[i + 2][1] = "unset"
               /\ c[i][1] = "close" => i + 1 <= Len(c) /\ c[i + 1][1] = "unset"
               /\ c[i][1] = "close" /\ i > 1 => c[i - 1][1] = "test"
               /\ c[i][1] = "unset" /\ i > 1 => c[i - 1][1] = "close"
    <3>1. CASE i \in 1..n
      <4>1. /\ c[i] = a[i] /\ i - 1 <= n /\ (i > 1 => c[i - 1] = a[i - 1])
            /\ (i + 1 <= n => c[i + 1] = a[i + 1]) /\ (i + 2 <= n => c[i + 2] = a[i + 2])
        BY <1>2, <3>1
      <4>2. QED
        BY <1>2, <3>1, <4>1 DEF Code, Whole, Triple
    <3>2. CASE i \notin 1..n
      <4> DEFINE k == i - n
      <4>1. /\ k \in 1..Len(b) /\ c[i] = b[k]
            /\ (k > 1 => i - 1 = n + (k - 1) /\ k - 1 \in 1..Len(b))
            /\ (k + 1 <= Len(b) => i + 1 = n + (k + 1) /\ k + 1 \in 1..Len(b))
            /\ (k + 2 <= Len(b) => i + 2 = n + (k + 2) /\ k + 2 \in 1..Len(b) /\ k + 1 <= Len(b))
            /\ i <= Len(c) /\ (k + 1 <= Len(b) => i + 1 <= Len(c))
            /\ (k + 2 <= Len(b) => i + 2 <= Len(c))
        <5>1. /\ k \in 1..Len(b) /\ c[i] = b[k] /\ i <= Len(c)
              /\ i = n + k /\ n \in Nat /\ Len(b) \in Nat /\ Len(c) = n + Len(b)
          BY <1>2, <3>2
        <5> HIDE DEF k
        <5>2. k \in Nat /\ k >= 1 /\ k <= Len(b)
          BY <5>1
        <5>3. (k > 1 => i - 1 = n + (k - 1) /\ k - 1 \in 1..Len(b))
          BY <5>1, <5>2
        <5>4. /\ (k + 1 <= Len(b) => i + 1 = n + (k + 1) /\ k + 1 \in 1..Len(b))
              /\ (k + 1 <= Len(b) => i + 1 <= Len(c))
          BY <5>1, <5>2
        <5>5. /\ (k + 2 <= Len(b) => i + 2 = n + (k + 2) /\ k + 2 \in 1..Len(b) /\ k + 1 <= Len(b))
              /\ (k + 2 <= Len(b) => i + 2 <= Len(c))
          BY <5>1, <5>2
        <5>6. QED
          BY <5>1, <5>3, <5>4, <5>5
      <4>2. /\ (k > 1 => c[i - 1] = b[k - 1])
            /\ (k + 1 <= Len(b) => c[i + 1] = b[k + 1])
            /\ (k + 2 <= Len(b) => c[i + 2] = b[k + 2])
        <5> HIDE DEF k
        <5>1. /\ (k > 1 => c[n + (k - 1)] = b[k - 1])
              /\ (k + 1 <= Len(b) => c[n + (k + 1)] = b[k + 1])
              /\ (k + 2 <= Len(b) => c[n + (k + 2)] = b[k + 2])
          BY <1>2, <4>1
        <5>2. QED
          BY <4>1, <5>1
      <4>3. k = 1 => b[k][1] \notin {"close", "unset"}
        BY <4>1 DEF Code, Whole
      <4>4. i > 1 => k = 1 \/ k > 1
        BY <4>1, <1>2
      <4> HIDE DEF k
      <4>5. /\ b[k][1] = "test" =>
                 k + 2 <= Len(b) /\ b[k + 1][1] = "close" /\ b[k + 2][1] = "unset"
            /\ b[k][1] = "close" => k + 1 <= Len(b) /\ b[k + 1][1] = "unset"
            /\ b[k][1] = "close" /\ k > 1 => b[k - 1][1] = "test"
            /\ b[k][1] = "unset" /\ k > 1 => b[k - 1][1] = "close"
        BY <4>1 DEF Code, Whole, Triple
      <4>6. b[k][1] = "test" => k + 1 <= Len(b)
        BY <1>2, <4>1, <4>5
      <4>7. QED
        BY <4>1, <4>2, <4>3, <4>4, <4>5, <4>6
    <3>3. QED
      BY <3>1, <3>2
  <2>2. Len(c) > 0 => c[1][1] \notin {"close", "unset"}
    <3>1. CASE n > 0
      BY <1>2, <3>1 DEF Code, Whole
    <3>2. CASE n = 0
      <4>1. Len(c) > 0 => c[1] = b[1] /\ Len(b) > 0
        BY <1>2, <3>2
      <4>2. QED
        BY <4>1 DEF Code, Whole
    <3>3. QED
      BY <1>2, <3>1, <3>2
  <2>3. QED
    BY <2>1, <2>2 DEF Whole, Triple
<1>7. Code(c, r) /\ Names(c) = Names(a) \cup Names(b)
  BY <1>3, <1>4, <1>5, <1>6 DEF Code
<1>8. QED
  BY <1>7 DEF c

LEMMA DoCode ==
  ASSUME NEW step \in StepNames \ ({"lock", "unlock"} \cup Closing), NEW r \in Int
  PROVE  Code(Do(step), r) /\ Names(Do(step)) = {step}
<1>1. Do(step) \in Seq(Steps) /\ Len(Do(step)) = 1 /\ Do(step)[1] = <<step, Null>>
  BY DEF Do, Steps
<1>2. Clean(Do(step), r)
  BY DoClean DEF Closing
<1>3. QED
  BY <1>1, <1>2 DEF Code, Whole, Triple, Flow, Names, Closing

LEMMA NothingCode ==
  ASSUME NEW r \in Int
  PROVE  Code(<<>>, r) /\ Names(<<>>) = {}
  BY NothingClean DEF Code, Whole, Triple, Flow, Names

LEMMA CLockCode ==
  ASSUME NEW m \in Mutexes, NEW r \in Int, Rank(m) > r,
         NEW body, Code(body, Rank(m))
  PROVE  /\ Code(CLock(m, body), r)
         /\ Names(CLock(m, body)) = Names(body) \cup {"lock", "unlock"}
<1> DEFINE c == CLock(m, body)
           n == Len(body)
<1>1. body \in Seq(Steps)
  BY DEF Code, Clean
<1>2. /\ n \in Nat /\ c \in Seq(Steps) /\ Len(c) = n + 2
      /\ c[1] = <<"lock", m>> /\ c[n + 2] = <<"unlock", m>>
      /\ \A i \in 1..n : c[i + 1] = body[i]
  BY <1>1, Section
<1>3. Clean(c, r)
  BY CLockClean DEF Code
<1> HIDE DEF c
<1>4. ASSUME NEW i \in 1..Len(c), i # 1, i # n + 2
      PROVE  i - 1 \in 1..n /\ c[i] = body[i - 1]
  <2>1. i - 1 \in 1..n /\ (i - 1) + 1 = i
    BY <1>2, <1>4
  <2>2. QED
    BY <1>2, <2>1
<1>5. Names(c) = Names(body) \cup {"lock", "unlock"}
  <2>1. ASSUME NEW x \in Names(body) PROVE x \in Names(c)
    <3>1. PICK i \in 1..n : x = body[i][1]
      BY DEF Names
    <3>2. i + 1 \in 1..Len(c) /\ x = c[i + 1][1]
      BY <1>2, <3>1
    <3>3. QED
      BY <3>2 DEF Names
  <2>2. "lock" \in Names(c) /\ "unlock" \in Names(c)
    <3>1. 1 \in 1..Len(c) /\ n + 2 \in 1..Len(c) /\ c[1][1] = "lock" /\ c[n + 2][1] = "unlock"
      BY <1>2
    <3>2. QED
      BY <3>1 DEF Names
  <2>3. ASSUME NEW x \in Names(c) PROVE x \in Names(body) \cup {"lock", "unlock"}
    BY <1>2, <1>4, <2>3 DEF Names
  <2>4. QED
    BY <2>1, <2>2, <2>3
<1>6. Flow(c)
  <2>1. SUFFICES ASSUME NEW i \in 1..Len(c), NEW j \in 1..Len(c), i < j
                 PROVE  c[j][1] \notin Never(c[i][1])
    BY DEF Flow
  <2>2. CASE i = 1 \/ j = n + 2
    <3>1. c[i][1] = "lock" \/ c[j][1] = "unlock"
      BY <1>2, <2>2
    <3>2. Never("lock") = {} /\ "unlock" \notin Never(c[i][1])
      BY DEF Never, OnConn, Closing
    <3>3. QED
      BY <3>1, <3>2
  <2>3. CASE i # 1 /\ j # n + 2
    <3>1. j # 1 /\ i # n + 2 /\ i - 1 < j - 1
      BY <1>2, <2>1, <2>3
    <3>2. QED
      BY <1>4, <2>3, <3>1 DEF Code, Flow
  <2>4. QED
    BY <2>2, <2>3
<1>7. Triple(c)
  <2>1. SUFFICES ASSUME NEW i \in 1..Len(c)
        PROVE  /\ c[i][1] = "test" =>
                    i + 2 <= Len(c) /\ c[i + 1][1] = "close" /\ c[i + 2][1] = "unset"
               /\ c[i][1] = "close" => i + 1 <= Len(c) /\ c[i + 1][1] = "unset"
               /\ c[i][1] = "close" /\ i > 1 => c[i - 1][1] = "test"
               /\ c[i][1] = "unset" /\ i > 1 => c[i - 1][1] = "close"
    BY DEF Triple
  <2>2. CASE i = 1 \/ i = n + 2
    BY <1>2, <2>2
  <2>3. CASE i # 1 /\ i # n + 2
    <3> DEFINE k == i - 1
    <3>1. /\ k \in 1..n /\ c[i] = body[k] /\ i = k + 1
      BY <1>2, <1>4, <2>3
    <3> HIDE DEF k
    <3>2. /\ (k + 1 <= n => k + 1 \in 1..n) /\ (k + 2 <= n => k + 2 \in 1..n)
          /\ (k > 1 => k - 1 \in 1..n /\ (k - 1) + 1 = i - 1)
      BY <1>2, <3>1
    <3>3. /\ (k + 1 <= n => c[(k + 1) + 1] = body[k + 1])
          /\ (k + 2 <= n => c[(k + 2) + 1] = body[k + 2])
          /\ (k > 1 => c[(k - 1) + 1] = body[k - 1])
      BY <1>2, <3>2
    <3>4. (k + 1) + 1 = i + 1 /\ (k + 2) + 1 = i + 2
      BY <3>1
    <3>5. /\ (k + 1 <= n => c[i + 1] = body[k + 1] /\ i + 1 <= Len(c))
          /\ (k + 2 <= n => c[i + 2] = body[k + 2] /\ i + 2 <= Len(c) /\ k + 1 <= n)
          /\ (k > 1 => c[i - 1] = body[k - 1])
          /\ k = 1 \/ k > 1
      BY <1>2, <3>1, <3>2, <3>3, <3>4
    <3>6. /\ body[k][1] = "test" =>
               k + 2 <= n /\ body[k + 1][1] = "close" /\ body[k + 2][1] = "unset"
          /\ body[k][1] = "close" => k + 1 <= n /\ body[k + 1][1] = "unset"
          /\ body[k][1] = "close" /\ k > 1 => body[k - 1][1] = "test"
          /\ body[k][1] = "unset" /\ k > 1 => body[k - 1][1] = "close"
          /\ k = 1 => body[k][1] \notin {"close", "unset"}
      BY <3>1 DEF Code, Whole, Triple
    <3>7. QED
      BY <3>1, <3>5, <3>6
  <2>4. QED
    BY <2>2, <2>3
<1>8. Whole(c)
  BY <1>2, <1>7 DEF Whole
<1>9. Code(c, r) /\ Names(c) = Names(body) \cup {"lock", "unlock"}
  BY <1>3, <1>5, <1>6, <1>8 DEF Code
<1>10. QED
  BY <1>9 DEF c

(* if (fd != -1) { close(fd); fd = -1; }                                   *)
LEMMA CloseFdCode ==
  ASSUME NEW r \in Int
  PROVE  Code(CloseFd, r) /\ Names(CloseFd) = Closing
<1> DEFINE a == Do("test")
           b == Do("close")
           d == Do("unset")
<1>1. Clean(a, r) /\ Clean(b, r) /\ Clean(d, r)
  BY DoClean DEF StepNames
<1>2. /\ a \in Seq(Steps) /\ Len(a) = 1 /\ a[1] = <<"test", Null>>
      /\ b \in Seq(Steps) /\ Len(b) = 1 /\ b[1] = <<"close", Null>>
      /\ d \in Seq(Steps) /\ Len(d) = 1 /\ d[1] = <<"unset", Null>>
  BY DEF Do, Steps, StepNames
<1>3. CloseFd = (a \o b) \o d
  BY DEF CloseFd
<1> HIDE DEF a, b, d
<1>4. Clean(CloseFd, r)
  BY <1>1, <1>3, JoinClean
<1>5. /\ a \o b \in Seq(Steps) /\ Len(a \o b) = 2
      /\ (a \o b)[1] = <<"test", Null>> /\ (a \o b)[1 + 1] = <<"close", Null>>
  <2>1. /\ a \o b \in Seq(Steps) /\ Len(a \o b) = Len(a) + Len(b)
        /\ \A i \in 1..Len(a) : (a \o b)[i] = a[i]
        /\ \A i \in 1..Len(b) : (a \o b)[Len(a) + i] = b[i]
    BY <1>2, Joined
  <2>2. QED
    BY <1>2, <2>1
<1>6. /\ Len(CloseFd) = 3
      /\ CloseFd[1] = <<"test", Null>> /\ CloseFd[2] = <<"close", Null>>
      /\ CloseFd[3] = <<"unset", Null>>
  <2> DEFINE ab == a \o b
  <2>1. ab \in Seq(Steps) /\ Len(ab) = 2 /\ ab[1] = <<"test", Null>> /\ ab[2] = <<"close", Null>>
    BY <1>5
  <2> HIDE DEF ab
  <2>2. /\ Len(ab \o d) = Len(ab) + Len(d)
        /\ \A i \in 1..Len(ab) : (ab \o d)[i] = ab[i]
        /\ \A i \in 1..Len(d) : (ab \o d)[Len(ab) + i] = d[i]
    BY <1>2, <2>1, Joined
  <2>3. CloseFd = ab \o d
    BY <1>3 DEF ab
  <2>4. QED
    BY <1>2, <2>1, <2>2, <2>3
<1>7. Names(CloseFd) = Closing /\ Whole(CloseFd) /\ Flow(CloseFd)
  BY <1>6 DEF Names, Whole, Triple, Flow, Never, OnConn, Closing
<1>8. QED
  BY <1>4, <1>7 DEF Code

-----------------------------------------------------------------------------
(* The code of each thread.                                                *)

LEMMA Ranks ==
  /\ {"m_sendMessageQueueMutex", "m_timequeueMutex",
      "m_recyconnqueueMutex", "m_connectionMutex"} \subseteq Mutexes
  /\ Rank("m_sendMessageQueueMutex") = 2 /\ Rank("m_timequeueMutex") = 3
  /\ Rank("m_recyconnqueueMutex") = 4 /\ Rank("m_connectionMutex") = 5
  /\ \A o \in Conns : o \in Mutexes /\ Rank(o) = 1
  /\ \A m : Rank(m) \in 1..5
  BY WorkerAssumption DEF Rank, Mutexes

CloseNames == {"lock", "unlock", "recycle"} \cup Closing

LEMMA ZdCloseCode ==
  ASSUME NEW r \in Int, r < 3
  PROVE  Code(zdClosesocketProc, r) /\ Names(zdClosesocketProc) = CloseNames
<1>1. /\ Code(DeleteFromTimerQueue, r)
      /\ Names(DeleteFromTimerQueue) = {"lock", "unlock"}
  BY Ranks, NothingCode, CLockCode DEF DeleteFromTimerQueue
<1>2. Code(CloseFd, r) /\ Names(CloseFd) = Closing
  BY CloseFdCode
<1>3. Code(Do("recycle"), 4) /\ Names(Do("recycle")) = {"recycle"}
  BY DoCode DEF StepNames, Closing
<1>4. /\ Code(inRecyConnectQueue, r)
      /\ Names(inRecyConnectQueue) = {"lock", "unlock", "recycle"}
  BY <1>3, Ranks, CLockCode DEF inRecyConnectQueue
<1> DEFINE a == DeleteFromTimerQueue \o CloseFd
<1>5. Code(a, r) /\ Names(a) = {"lock", "unlock"} \cup Closing
  BY <1>1, <1>2, JoinCode DEF Never, OnConn, Closing
<1>6. zdClosesocketProc = a \o inRecyConnectQueue
  BY DEF zdClosesocketProc
<1> HIDE DEF a
<1>7. /\ Code(a \o inRecyConnectQueue, r)
      /\ Names(a \o inRecyConnectQueue) = Names(a) \cup Names(inRecyConnectQueue)
  <2>1. \A x \in Names(a) : Names(inRecyConnectQueue) \cap Never(x) = {}
    BY <1>4, <1>5 DEF Never, OnConn, Closing
  <2>2. QED
    BY <1>4, <1>5, <2>1, JoinCode
<1>8. QED
  BY <1>4, <1>5, <1>6, <1>7 DEF CloseNames

LEMMA HandlerCode ==
  ASSUME NEW o \in Conns, NEW code \in Handler(o)
  PROVE  /\ Code(code, 0) /\ Names(code) \subseteq CloseNames
         /\ "recycle" \in Names(code) => "unset" \in Names(code)
<1>1. PICK body \in {<<>>, zdClosesocketProc} :
           code = CLock(o, CLock("m_sendMessageQueueMutex", body))
  BY DEF Handler, msgSend
<1>2. /\ Code(body, 2) /\ Names(body) \subseteq CloseNames
      /\ "recycle" \in Names(body) => "unset" \in Names(body)
  BY ZdCloseCode, NothingCode DEF CloseNames, Closing
<1> DEFINE send == CLock("m_sendMessageQueueMutex", body)
<1>3. /\ Code(send, 1) /\ Names(send) \subseteq CloseNames
      /\ "recycle" \in Names(send) => "unset" \in Names(send)
  BY <1>2, Ranks, CLockCode DEF CloseNames
<1> HIDE DEF send
<1>4. /\ Code(CLock(o, send), 0) /\ Names(CLock(o, send)) \subseteq CloseNames
      /\ "recycle" \in Names(CLock(o, send)) => "unset" \in Names(CLock(o, send))
  BY <1>3, Ranks, CLockCode DEF CloseNames
<1>5. QED
  BY <1>1, <1>4 DEF send

LEMMA TimerCode ==
  ASSUME NEW code \in TimerThread
  PROVE  /\ Code(code, 0) /\ Names(code) \subseteq CloseNames
         /\ "recycle" \in Names(code) => "unset" \in Names(code)
<1> DEFINE a == CLock("m_timequeueMutex", <<>>)
<1>1. PICK check \in {<<>>, zdClosesocketProc} : code = a \o check
  BY DEF TimerThread
<1>2. /\ Code(check, 0) /\ Names(check) \subseteq CloseNames
      /\ "recycle" \in Names(check) => "unset" \in Names(check)
  BY ZdCloseCode, NothingCode DEF CloseNames, Closing
<1>3. Code(a, 0) /\ Names(a) = {"lock", "unlock"}
  BY Ranks, NothingCode, CLockCode
<1> HIDE DEF a
<1>4. QED
  <2>1. \A x \in Names(a) : Names(check) \cap Never(x) = {}
    BY <1>3 DEF Never, OnConn, Closing
  <2>2. Code(a \o check, 0) /\ Names(a \o check) = Names(a) \cup Names(check)
    BY <1>2, <1>3, <2>1, JoinCode
  <2>3. QED
    BY <1>1, <1>2, <1>3, <2>2 DEF CloseNames

LEMMA SendCode ==
  /\ Code(CLock("m_sendMessageQueueMutex", <<>>), 0)
  /\ Names(CLock("m_sendMessageQueueMutex", <<>>)) = {"lock", "unlock"}
  BY Ranks, NothingCode, CLockCode

LEMMA FreeCode ==
  ASSUME NEW r \in Int, r < 5
  PROVE  /\ Code(ngx_free_connection, r)
         /\ Names(ngx_free_connection) = {"lock", "unlock", "free"}
<1>1. Code(Do("free"), 5) /\ Names(Do("free")) = {"free"}
  BY DoCode DEF StepNames, Closing
<1>2. QED
  BY <1>1, Ranks, CLockCode DEF ngx_free_connection

LEMMA RecycleCode ==
  Code(RecycleThread, 0) /\ Names(RecycleThread) = {"lock", "unlock", "free"}
<1>1. Code(ngx_free_connection, 4) /\ Names(ngx_free_connection) = {"lock", "unlock", "free"}
  BY FreeCode
<1>2. QED
  BY <1>1, Ranks, CLockCode DEF RecycleThread

LEMMA AcceptCode ==
  ASSUME NEW code \in ngx_event_accept
  PROVE  /\ Code(code, 0) /\ "recycle" \notin Names(code)
         /\ {"get", "refuse"} \cap Names(code) # {}
         /\ Names(code) \cap OnConn # {} => "get" \in Names(code)
         /\ "free" \in Names(code) => "unset" \in Names(code)
         /\ {"get", "unset"} \subseteq Names(code) => "free" \in Names(code)
<1>1. Code(Do("refuse"), 0) /\ Names(Do("refuse")) = {"refuse"}
  BY DoCode DEF StepNames, Closing
<1>2. /\ Code(ngx_get_connection, 0)
      /\ Names(ngx_get_connection) = {"lock", "unlock", "get"}
  <2>1. Code(Do("get"), 5) /\ Names(Do("get")) = {"get"}
    BY DoCode DEF StepNames, Closing
  <2>2. QED
    BY <2>1, Ranks, CLockCode DEF ngx_get_connection
<1>3. /\ Code(ngx_close_connection, 0)
      /\ Names(ngx_close_connection) = {"lock", "unlock", "free"} \cup Closing
  BY FreeCode, CloseFdCode, JoinCode DEF ngx_close_connection, Never, OnConn, Closing
<1>4. /\ Code(AddToTimerQueue, 0)
      /\ Names(AddToTimerQueue) = {"lock", "unlock", "add"}
  <2>1. Code(Do("add"), 3) /\ Names(Do("add")) = {"add"}
    BY DoCode DEF StepNames, Closing
  <2>2. QED
    BY <2>1, Ranks, CLockCode DEF AddToTimerQueue
<1>5. CASE code = Do("refuse")
  BY <1>1, <1>5 DEF Do, OnConn, Closing
<1>6. ASSUME NEW b, Code(b, 0), code = ngx_get_connection \o b,
             Names(b) = {"lock", "unlock", "free"} \cup Closing
               \/ Names(b) = {"lock", "unlock", "add"}
      PROVE  /\ Code(code, 0) /\ Names(code) = {"lock", "unlock", "get"} \cup Names(b)
  <2>1. \A x \in Names(ngx_get_connection) : Names(b) \cap Never(x) = {}
    BY <1>2, <1>6 DEF Never, OnConn, Closing
  <2>2. Code(code, 0) /\ Names(code) = {"lock", "unlock", "get"} \cup Names(b)
    BY <1>2, <1>6, <2>1, JoinCode
  <2>3. QED
    BY <2>2
<1>7. CASE code = ngx_get_connection \o ngx_close_connection
  <2>1. Code(code, 0) /\ Names(code) = {"lock", "unlock", "get", "free"} \cup Closing
    BY <1>3, <1>6, <1>7
  <2>2. QED
    BY <2>1 DEF Closing
<1>8. CASE code = ngx_get_connection \o AddToTimerQueue
  <2>1. Code(code, 0) /\ Names(code) = {"lock", "unlock", "get", "add"}
    BY <1>4, <1>6, <1>8
  <2>2. QED
    BY <2>1
<1>9. QED
  BY <1>5, <1>7, <1>8 DEF ngx_event_accept

-----------------------------------------------------------------------------
(* What the threads hold is what they have still to give back.             *)

Allowed(t) ==
  IF t = Main THEN StepNames
  ELSE IF t = Recycle THEN {"lock", "unlock", "free"}
  ELSE IF t = Send THEN {"lock", "unlock"} ELSE CloseNames

\* What t may have still to do.
ThreadCode(t, q) ==
  /\ q \in Seq(Steps) /\ Disciplined(q, 0) /\ Triple(q) /\ Flow(q)
  /\ Names(q) \subseteq Allowed(t)
  /\ "free" \in Names(q) /\ t = Main => "unset" \in Names(q)
  /\ {"get", "unset"} \subseteq Names(q) => "free" \in Names(q)

LockTypes ==
  /\ todo \in [Threads -> Seq(Steps)]
  /\ mutex \in [Mutexes -> Threads \cup {Null}]
CodeInv ==
  /\ LockTypes
  /\ \A t \in Threads :
       ThreadCode(t, todo[t]) /\ Held(todo[t], 1) = {m \in Mutexes : mutex[m] = t}

LEMMA RestNames ==
  ASSUME NEW p, NEW q, NEW d, Rest(p, q, d)
  PROVE  /\ Names(p) \subseteq Names(q)
         /\ Names(q) = Names(p) \cup {q[i][1] : i \in 1..d}
         /\ Flow(q) => \A i \in 1..d : Names(p) \cap Never(q[i][1]) = {}
<1>1. /\ Len(p) \in Nat /\ Len(q) \in Nat /\ d \in Nat /\ Len(p) = Len(q) - d
      /\ \A i \in 1..Len(p) : p[i] = q[i + d] /\ i + d \in 1..Len(q) /\ i + d > d
      /\ \A i \in 1..d : i \in 1..Len(q)
  BY LenProperties DEF Rest
<1>2. Names(p) \subseteq Names(q)
  BY <1>1 DEF Names
<1>3. ASSUME NEW i \in 1..Len(q), i \notin 1..d
      PROVE  q[i][1] \in Names(p)
  <2>1. i - d \in 1..Len(p) /\ (i - d) + d = i
    BY <1>1, <1>3
  <2>2. p[i - d] = q[i]
    BY <1>1, <2>1
  <2>3. QED
    BY <2>1, <2>2 DEF Names
<1>4. Names(q) \subseteq Names(p) \cup {q[i][1] : i \in 1..d}
  BY <1>3 DEF Names
<1>5. {q[i][1] : i \in 1..d} \subseteq Names(q)
  BY <1>1 DEF Names
<1>6. ASSUME Flow(q), NEW i \in 1..d, NEW k \in 1..Len(p)
      PROVE  p[k][1] \notin Never(q[i][1])
  BY <1>1, <1>6 DEF Flow
<1>7. QED
  BY <1>2, <1>4, <1>5, <1>6 DEF Names

LEMMA NamesTyped ==
  ASSUME NEW q \in Seq(Steps)
  PROVE  Names(q) \subseteq StepNames
  BY ElementOfSeq DEF Names, Steps

LEMMA RestCode ==
  ASSUME NEW t, NEW p, NEW q, NEW d, Rest(p, q, d), ThreadCode(t, q)
  PROVE  ThreadCode(t, p)
<1>1. /\ Len(p) \in Nat /\ Len(q) \in Nat /\ d \in Nat /\ Len(p) = Len(q) - d
      /\ p \in Seq(Steps)
      /\ \A i \in 1..Len(p) : p[i] = q[i + d] /\ i + d \in 1..Len(q)
  BY LenProperties DEF Rest
<1>2. Disciplined(p, 0)
  BY RestDisciplined DEF ThreadCode
<1>3. Flow(p)
  <2>1. \A i, j \in 1..Len(p) : i < j => i + d < j + d
    BY <1>1
  <2>2. QED
    BY <1>1, <2>1 DEF ThreadCode, Flow
<1>4. Triple(p)
  <2>1. SUFFICES ASSUME NEW i \in 1..Len(p)
        PROVE  /\ p[i][1] = "test" =>
                    i + 2 <= Len(p) /\ p[i + 1][1] = "close" /\ p[i + 2][1] = "unset"
               /\ p[i][1] = "close" => i + 1 <= Len(p) /\ p[i + 1][1] = "unset"
               /\ p[i][1] = "close" /\ i > 1 => p[i - 1][1] = "test"
               /\ p[i][1] = "unset" /\ i > 1 => p[i - 1][1] = "close"
    BY DEF Triple
  <2>2. /\ (i + 1 <= Len(p) => i + 1 \in 1..Len(p) /\ (i + 1) + d = (i + d) + 1)
        /\ (i + 2 <= Len(p) => i + 2 \in 1..Len(p) /\ (i + 2) + d = (i + d) + 2 /\ i + 1 <= Len(p))
        /\ (i > 1 => i - 1 \in 1..Len(p) /\ (i - 1) + d = (i + d) - 1 /\ i + d > 1)
        /\ ((i + d) + 1 <= Len(q) => i + 1 <= Len(p))
        /\ ((i + d) + 2 <= Len(q) => i + 2 <= Len(p))
    <3> DEFINE n == Len(p)
               l == Len(q)
    <3>1. n \in Nat /\ l \in Nat /\ d \in Nat /\ n = l - d /\ i \in 1..n
      BY <1>1
    <3> HIDE DEF n, l
    <3>2. /\ (i + 1 <= n => i + 1 \in 1..n /\ (i + 1) + d = (i + d) + 1)
          /\ (i + 2 <= n => i + 2 \in 1..n /\ (i + 2) + d = (i + d) + 2 /\ i + 1 <= n)
          /\ (i > 1 => i - 1 \in 1..n /\ (i - 1) + d = (i + d) - 1 /\ i + d > 1)
          /\ ((i + d) + 1 <= l => i + 1 <= n)
          /\ ((i + d) + 2 <= l => i + 2 <= n)
      BY <3>1
    <3>3. QED
      BY <3>2 DEF n, l
  <2>3. /\ p[i] = q[i + d]
        /\ (i + 1 <= Len(p) => p[i + 1] = q[(i + d) + 1])
        /\ (i + 2 <= Len(p) => p[i + 2] = q[(i + d) + 2])
        /\ (i > 1 => p[i - 1] = q[(i + d) - 1])
    <3>1. /\ (i + 1 <= Len(p) => p[i + 1] = q[(i + 1) + d])
          /\ (i + 2 <= Len(p) => p[i + 2] = q[(i + 2) + d])
          /\ (i > 1 => p[i - 1] = q[(i - 1) + d])
      BY <1>1, <2>2
    <3>2. QED
      BY <1>1, <2>2, <3>1
  <2> DEFINE k == i + d
  <2>4. /\ q[k][1] = "test" =>
             k + 2 <= Len(q) /\ q[k + 1][1] = "close" /\ q[k + 2][1] = "unset"
        /\ q[k][1] = "close" => k + 1 <= Len(q) /\ q[k + 1][1] = "unset"
        /\ q[k][1] = "close" /\ k > 1 => q[k - 1][1] = "test"
        /\ q[k][1] = "unset" /\ k > 1 => q[k - 1][1] = "close"
    BY <1>1 DEF ThreadCode, Triple
  <2>5. k \in Nat
    BY <1>1
  <2> HIDE DEF k
  <2>6. /\ p[i] = q[k]
        /\ (k + 1 <= Len(q) => i + 1 <= Len(p) /\ p[i + 1] = q[k + 1])
        /\ (k + 2 <= Len(q) => i + 2 <= Len(p) /\ p[i + 2] = q[k + 2] /\ p[i + 1] = q[k + 1])
        /\ (i > 1 => k > 1 /\ p[i - 1] = q[k - 1])
    BY <2>2, <2>3 DEF k
  <2>7. QED
    BY <2>4, <2>6
<1>5. Names(p) \subseteq Allowed(t)
  BY RestNames DEF ThreadCode
<1>6. ASSUME "free" \in Names(p), t = Main
      PROVE  "unset" \in Names(p)
  <2>1. "unset" \in Names(q)
    BY <1>6, RestNames DEF ThreadCode
  <2>2. \A i \in 1..d : q[i][1] # "unset"
    <3>1. "free" \in Never("unset")
      BY DEF Never
    <3>2. \A i \in 1..d : Names(p) \cap Never(q[i][1]) = {}
      BY RestNames DEF ThreadCode
    <3>3. QED
      BY <1>6, <3>1, <3>2
  <2>3. QED
    BY <2>1, <2>2, RestNames
<1>7. ASSUME {"get", "unset"} \subseteq Names(p)
      PROVE  "free" \in Names(p)
  <2>1. "free" \in Names(q)
    BY <1>7, RestNames DEF ThreadCode
  <2>2. \A i \in 1..d : q[i][1] # "free"
    <3>1. "get" \in Never("free")
      BY DEF Never
    <3>2. \A i \in 1..d : Names(p) \cap Never(q[i][1]) = {}
      BY RestNames DEF ThreadCode
    <3>3. QED
      BY <1>7, <3>1, <3>2
  <2>3. QED
    BY <2>1, <2>2, RestNames
<1>8. QED
  BY <1>1, <1>2, <1>3, <1>4, <1>5, <1>6, <1>7 DEF ThreadCode

(* One step done, and the three steps of closing passed over.              *)
LEMMA TailRest ==
  ASSUME NEW q \in Seq(Steps), q # <<>>
  PROVE  /\ Rest(Tail(q), q, 1) /\ Head(q) = q[1] /\ 1 \in 1..Len(q)
         /\ Names(q) = Names(Tail(q)) \cup {q[1][1]}
         /\ Flow(q) => Names(Tail(q)) \cap Never(q[1][1]) = {}
<1>1. Rest(Tail(q), q, 1) /\ Head(q) = q[1] /\ 1 \in 1..Len(q)
  BY PushPop, LenProperties, EmptySeq DEF Rest
<1>2. 1..1 = {1}
  OBVIOUS
<1>3. QED
  BY <1>1, <1>2, RestNames

LEMMA SkipRest ==
  ASSUME NEW q \in Seq(Steps), Triple(q), q # <<>>, q[1][1] = "test"
  PROVE  /\ Rest(SubSeq(q, 4, Len(q)), q, 3)
         /\ q[2][1] = "close" /\ q[3][1] = "unset" /\ Len(q) >= 3
         /\ Names(q) = Names(SubSeq(q, 4, Len(q))) \cup Closing
         /\ Flow(q) => Names(SubSeq(q, 4, Len(q))) \cap Never("unset") = {}
<1>1. Len(q) \in Nat /\ Len(q) >= 1
  BY LenProperties, EmptySeq
<1>2. q[2][1] = "close" /\ q[3][1] = "unset" /\ Len(q) >= 3
  BY <1>1 DEF Triple
<1>3. Rest(SubSeq(q, 4, Len(q)), q, 3)
  <2> DEFINE p == SubSeq(q, 4, Len(q))
  <2>1. /\ p \in Seq(Steps)
        /\ Len(p) = IF 4 <= Len(q) THEN Len(q) - 4 + 1 ELSE 0
        /\ \A i \in 1..Len(q) - 4 + 1 : p[i] = q[4 + i - 1]
    BY <1>1, <1>2, SubSeqProperties, ElementOfSeq
  <2> HIDE DEF p
  <2>2. Len(p) = Len(q) - 3 /\ 3 \in 0..Len(q)
    <3>1. CASE Len(q) = 3
      BY <2>1, <3>1
    <3>2. CASE 4 <= Len(q)
      BY <1>1, <2>1, <3>2
    <3>3. Len(q) = 3 \/ 4 <= Len(q)
      <4> DEFINE l == Len(q)
      <4>1. l \in Nat /\ l >= 3
        BY <1>1, <1>2
      <4> HIDE DEF l
      <4>2. l = 3 \/ 4 <= l
        BY <4>1
      <4>3. QED
        BY <4>2 DEF l
    <3>4. QED
      BY <3>1, <3>2, <3>3
  <2>3. \A i \in 1..Len(p) : p[i] = q[i + 3]
    <3>1. \A i \in 1..Len(p) : i \in 1..Len(q) - 4 + 1 /\ 4 + i - 1 = i + 3
      BY <1>1, <2>2
    <3>2. QED
      BY <2>1, <3>1
  <2>4. Rest(p, q, 3)
    BY <2>1, <2>2, <2>3 DEF Rest
  <2>5. QED
    BY <2>4 DEF p
<1>4. 1..3 = {1, 2, 3} /\ {q[i][1] : i \in {1, 2, 3}} = {q[1][1], q[2][1], q[3][1]}
  OBVIOUS
<1>5. QED
  BY <1>2, <1>3, <1>4, RestNames DEF Closing

LEMMA InitCode == Init => CodeInv
<1>1. SUFFICES ASSUME Init PROVE CodeInv
  OBVIOUS
<1>2. <<>> \in Seq(Steps) /\ Held(<<>>, 1) = {}
  BY DEF Held
<1>3. \A t \in Threads : ThreadCode(t, <<>>)
  BY DEF ThreadCode, Disciplined, Triple, Flow, Names
<1>4. LockTypes
  BY <1>1, <1>2 DEF Init, LockTypes
<1>5. \A t \in Threads : {m \in Mutexes : mutex[m] = t} = {}
  BY <1>1, WorkerAssumption DEF Init
<1>6. QED
  BY <1>1, <1>2, <1>3, <1>4, <1>5 DEF Init, CodeInv

\* A way through the code that t may take from its beginning.
MayBegin(t, code) ==
  /\ Code(code, 0) /\ Names(code) \subseteq Allowed(t)
  /\ "free" \in Names(code) /\ t = Main => "unset" \in Names(code)
  /\ "recycle" \in Names(code) => "unset" \in Names(code)
  /\ {"get", "unset"} \subseteq Names(code) => "free" \in Names(code)

LEMMA BeginCode ==
  ASSUME CodeInv, NEW t \in Threads, NEW code, NEW o, Begin(t, code, o), MayBegin(t, code)
  PROVE  CodeInv'
<1>1. /\ LockTypes /\ mutex' = mutex /\ todo[t] = <<>>
      /\ todo' = [todo EXCEPT ![t] = code]
  BY DEF CodeInv, Begin, Idle
<1>2. ThreadCode(t, code) /\ Held(code, 1) = {} /\ code \in Seq(Steps)
  BY DEF MayBegin, Code, Clean, Whole, ThreadCode
<1>3. LockTypes'
  BY <1>1, <1>2 DEF LockTypes
<1>4. ASSUME NEW u \in Threads
      PROVE  ThreadCode(u, todo'[u]) /\ Held(todo'[u], 1) = {m \in Mutexes : mutex'[m] = u}
  <2>1. CASE u = t
    <3>1. todo'[u] = code
      BY <1>1, <2>1 DEF LockTypes
    <3>2. {m \in Mutexes : mutex[m] = t} = {}
      <4>1. Held(<<>>, 1) = {}
        BY DEF Held
      <4>2. QED
        BY <1>1, <4>1 DEF CodeInv
    <3>3. QED
      BY <1>1, <1>2, <2>1, <3>1, <3>2
  <2>2. CASE u # t
    BY <1>1, <2>2 DEF CodeInv, LockTypes
  <2>3. QED
    BY <2>1, <2>2
<1>5. QED
  BY <1>3, <1>4 DEF CodeInv

(* A step of t that takes or gives back no mutex, or passes some over.     *)
LEMMA OtherCode ==
  ASSUME CodeInv, NEW t \in Threads, NEW p, NEW d, Rest(p, todo[t], d),
         \A i \in 1..d : todo[t][i][1] \notin {"lock", "unlock"}, d \in {1, 3},
         todo' = [todo EXCEPT ![t] = p], mutex' = mutex
  PROVE  CodeInv'
<1> DEFINE q == todo[t]
<1>1. /\ LockTypes /\ q \in Seq(Steps) /\ p \in Seq(Steps) /\ ThreadCode(t, q)
      /\ Len(q) \in Nat /\ d \in 0..Len(q)
  BY LenProperties DEF CodeInv, LockTypes, Rest
<1>2. ThreadCode(t, p)
  BY <1>1, RestCode
<1>3. Held(p, 1) = Held(q, 1)
  <2>1. Held(p, 1) = Held(q, 1 + d)
    <3>1. 1 \in 1..Len(p) + 1
      BY <1>1, LenProperties
    <3>2. QED
      BY <3>1, HeldInRest
  <2>2. \A i \in 1..d : i \in 1..Len(q) /\ q[i][1] \notin {"lock", "unlock"}
    BY <1>1
  <2>3. \A i \in 1..d : Held(q, i) = Held(q, i + 1)
    BY <1>1, <2>2, HeldStep
  <2>4. Held(q, 1) = Held(q, 1 + d)
    <3>1. CASE d = 1
      <4>1. 1 \in 1..d
        BY <3>1
      <4>2. QED
        BY <2>3, <3>1, <4>1
    <3>2. CASE d = 3
      <4>1. 1 \in 1..d /\ 2 \in 1..d /\ 3 \in 1..d /\ 1 + 1 = 2 /\ 2 + 1 = 3 /\ 3 + 1 = 1 + d
        BY <3>2
      <4> HIDE DEF q
      <4>2. Held(q, 1) = Held(q, 2) /\ Held(q, 2) = Held(q, 3) /\ Held(q, 3) = Held(q, 1 + d)
        BY <2>3, <4>1
      <4>3. QED
        BY <4>2
    <3>3. QED
      BY <3>1, <3>2
  <2>5. QED
    BY <2>1, <2>4
<1>4. LockTypes'
  BY <1>1 DEF LockTypes
<1>5. ASSUME NEW u \in Threads
      PROVE  ThreadCode(u, todo'[u]) /\ Held(todo'[u], 1) = {m \in Mutexes : mutex'[m] = u}
  <2>1. CASE u = t
    <3>1. todo'[u] = p
      BY <1>1, <2>1 DEF LockTypes
    <3>2. QED
      BY <1>2, <1>3, <2>1, <3>1 DEF CodeInv
  <2>2. CASE u # t
    BY <1>1, <2>2 DEF CodeInv, LockTypes
  <2>3. QED
    BY <2>1, <2>2
<1>6. QED
  BY <1>4, <1>5 DEF CodeInv

LEMMA LockCode ==
  ASSUME CodeInv, NEW t \in Threads, Lock(t) \/ Unlock(t)
  PROVE  CodeInv'
<1> DEFINE q == todo[t]
           p == Tail(q)
           m == q[1][2]
<1>1. /\ LockTypes /\ q \in Seq(Steps) /\ ThreadCode(t, q) /\ q # <<>>
      /\ Head(q) = q[1] /\ 1 \in 1..Len(q) /\ Rest(p, q, 1) /\ Len(q) \in Nat
      /\ todo' = [todo EXCEPT ![t] = p]
      /\ \A u \in Threads : Held(todo[u], 1) = {n \in Mutexes : mutex[n] = u}
  BY TailRest, LenProperties DEF CodeInv, LockTypes, Lock, Unlock, At, Advance
<1>2. ThreadCode(t, p) /\ p \in Seq(Steps)
  BY <1>1, RestCode DEF Rest
<1>3. Held(p, 1) = Held(q, 2)
  <2>1. 1 \in 1..Len(p) + 1 /\ 1 + 1 = 2
    BY <1>1, LenProperties DEF Rest
  <2>2. QED
    BY <1>1, <2>1, HeldInRest
<1>4. ASSUME NEW u \in Threads, u # t
      PROVE  todo'[u] = todo[u] /\ ThreadCode(u, todo'[u])
  BY <1>1, <1>4 DEF CodeInv, LockTypes
<1>5. todo'[t] = p
  BY <1>1 DEF LockTypes
<1>6. CASE Lock(t)
  <2>1. /\ q[1][1] = "lock" /\ mutex[m] = Null /\ mutex' = [mutex EXCEPT ![m] = t]
    BY <1>1, <1>6 DEF Lock, At
  <2>2. m \in Held(q, 2) /\ m \in Mutexes /\ 1 + 1 = 2
    <3>1. Disciplined(q, 0)
      BY <1>1 DEF ThreadCode
    <3>2. QED
      BY <1>1, <2>1, <3>1 DEF Disciplined, Held
  <2>3. Held(q, 1) = Held(q, 2) \ {m}
    BY <1>1, <2>1, <2>2, HeldStep
  <2>4. LockTypes'
    BY <1>1, <1>2, <2>1, <2>2 DEF LockTypes
  <2>5. Held(q, 2) = {n \in Mutexes : mutex'[n] = t}
    <3>1. Held(q, 2) = Held(q, 1) \cup {m}
      BY <2>2, <2>3
    <3>2. QED
      BY <1>1, <2>1, <2>2, <3>1 DEF LockTypes
  <2>6. ASSUME NEW u \in Threads, u # t
        PROVE  Held(todo[u], 1) = {n \in Mutexes : mutex'[n] = u}
    BY <1>1, <2>1, <2>2, <2>6, WorkerAssumption DEF LockTypes
  <2>7. QED
    BY <1>2, <1>3, <1>4, <1>5, <2>4, <2>5, <2>6 DEF CodeInv
<1>7. CASE Unlock(t)
  <2>1. /\ q[1][1] = "unlock" /\ mutex' = [mutex EXCEPT ![m] = Null]
    BY <1>1, <1>7 DEF Unlock, At
  <2>2. m \in Mutexes \ Held(q, 2) /\ 1 + 1 = 2
    <3>1. Disciplined(q, 0)
      BY <1>1 DEF ThreadCode
    <3>2. QED
      BY <1>1, <2>1, <3>1 DEF Disciplined
  <2>3. Held(q, 1) = Held(q, 2) \cup {m}
    BY <1>1, <2>1, <2>2, HeldStep
  <2>4. LockTypes'
    BY <1>1, <1>2, <2>1, <2>2 DEF LockTypes
  <2>5. mutex[m] = t
    BY <1>1, <2>2, <2>3
  <2>6. ASSUME NEW u \in Threads
        PROVE  {n \in Mutexes : mutex'[n] = u} = {n \in Mutexes : mutex[n] = u} \ {m}
    BY <1>1, <2>1, <2>2, WorkerAssumption DEF LockTypes
  <2>7. Held(q, 2) = {n \in Mutexes : mutex'[n] = t}
    BY <1>1, <2>2, <2>3, <2>6
  <2>8. ASSUME NEW u \in Threads, u # t
        PROVE  Held(todo[u], 1) = {n \in Mutexes : mutex'[n] = u}
    BY <1>1, <2>5, <2>6, <2>8
  <2>9. QED
    BY <1>2, <1>3, <1>4, <1>5, <2>4, <2>7, <2>8 DEF CodeInv
<1>8. QED
  BY <1>6, <1>7

LEMMA Distinct ==
  /\ Main # Send /\ Main # Timer /\ Main # Recycle
  /\ Send # Timer /\ Send # Recycle /\ Timer # Recycle
  /\ \A t \in Pool : t # Main /\ t # Send /\ t # Timer /\ t # Recycle
  /\ Pool \subseteq Threads /\ {Main, Send, Timer, Recycle} \subseteq Threads
  /\ \A t \in Threads : t # Null
  /\ \A o \in Conns : o # Null
<1>1. ASSUME NEW a, NEW b, NEW c
      PROVE  Cardinality({a, b, c}) # 4
  <2>1. /\ IsFiniteSet({}) /\ Cardinality({}) = 0
    BY FS_EmptySet
  <2>2. /\ IsFiniteSet({} \cup {a}) /\ Cardinality({} \cup {a}) \in {0, 1}
    BY <2>1, FS_AddElement
  <2>3. /\ IsFiniteSet(({} \cup {a}) \cup {b})
        /\ Cardinality(({} \cup {a}) \cup {b}) \in {0, 1, 2}
    BY <2>2, FS_AddElement
  <2>4. Cardinality((({} \cup {a}) \cup {b}) \cup {c}) \in {0, 1, 2, 3}
    BY <2>3, FS_AddElement
  <2>5. (({} \cup {a}) \cup {b}) \cup {c} = {a, b, c}
    OBVIOUS
  <2>6. QED
    BY <2>4, <2>5
<1>2. ASSUME \/ Main = Send \/ Main = Timer \/ Main = Recycle
             \/ Send = Timer \/ Send = Recycle \/ Timer = Recycle
      PROVE  \E a, b, c : {Main, Send, Timer, Recycle} = {a, b, c}
  <2>1. CASE Main \in {Send, Timer, Recycle}
    <3>1. {Main, Send, Timer, Recycle} = {Send, Timer, Recycle}
      BY <2>1
    <3>2. QED
      BY <3>1
  <2>2. CASE Send \in {Timer, Recycle}
    <3>1. {Main, Send, Timer, Recycle} = {Main, Timer, Recycle}
      BY <2>2
    <3>2. QED
      BY <3>1
  <2>3. CASE Timer = Recycle
    <3>1. {Main, Send, Timer, Recycle} = {Main, Send, Recycle}
      BY <2>3
    <3>2. QED
      BY <3>1
  <2>4. QED
    BY <1>2, <2>1, <2>2, <2>3
<1>3. QED
  BY <1>1, <1>2, WorkerAssumption DEF Threads

(* What each thread begins.                                                *)
LEMMA AcceptBegins ==
  ASSUME Accept
  PROVE  \E code : /\ Begin(Main, code, Null) /\ MayBegin(Main, code)
                   /\ {"get", "refuse"} \cap Names(code) # {} /\ "recycle" \notin Names(code)
                   /\ Names(code) \cap OnConn # {} => "get" \in Names(code)
<1>1. PICK code \in ngx_event_accept : Begin(Main, code, Null)
  BY DEF Accept
<1>2. code \in Seq(Steps) /\ Code(code, 0)
  BY AcceptCode DEF Code, Clean
<1>3. Names(code) \subseteq StepNames
  BY <1>2, NamesTyped
<1>4. MayBegin(Main, code)
  BY <1>2, <1>3, AcceptCode DEF MayBegin, Allowed
<1>5. QED
  BY <1>1, <1>4, AcceptCode

LEMMA CallBegins ==
  ASSUME Call
  PROVE  \E o \in Used, t \in Threads \ {Send, Recycle} : \E code :
           /\ Begin(t, code, o) /\ MayBegin(t, code)
           /\ Names(code) \subseteq CloseNames
           /\ t = Main => "recycle" \in Names(code)
<1> DEFINE Begins(o, t, code) ==
             /\ Begin(t, code, o) /\ MayBegin(t, code)
             /\ Names(code) \subseteq CloseNames
             /\ t = Main => "recycle" \in Names(code)
<1>1. PICK o \in Used :
        \/ Begin(Main, zdClosesocketProc, o)
        \/ \E t \in Pool, code \in Handler(o) : Begin(t, code, o)
        \/ \E code \in TimerThread : Begin(Timer, code, o)
  BY DEF Call
<1>2. CASE Begin(Main, zdClosesocketProc, o)
  <2>1. Begins(o, Main, zdClosesocketProc)
    BY <1>2, ZdCloseCode DEF MayBegin, Allowed, StepNames, CloseNames, Closing
  <2>2. QED
    BY <2>1, Distinct
<1>3. ASSUME NEW t \in Pool, NEW code \in Handler(o), Begin(t, code, o)
      PROVE  Begins(o, t, code) /\ t \in Threads \ {Send, Recycle}
  <2>1. /\ Code(code, 0) /\ Names(code) \subseteq CloseNames
        /\ "recycle" \in Names(code) => "unset" \in Names(code)
    BY HandlerCode DEF Used
  <2>2. QED
    BY <1>3, <2>1, Distinct DEF MayBegin, Allowed, CloseNames, Closing
<1>4. ASSUME NEW code \in TimerThread, Begin(Timer, code, o)
      PROVE  Begins(o, Timer, code)
  BY <1>4, TimerCode, Distinct DEF MayBegin, Allowed, CloseNames, Closing
<1>5. QED
  BY <1>1, <1>2, <1>3, <1>4, Distinct

LEMMA OthersBegin ==
  /\ SendTurn => \E code : /\ Begin(Send, code, Null) /\ MayBegin(Send, code)
                           /\ Names(code) = {"lock", "unlock"}
  /\ MayBegin(Recycle, RecycleThread)
  /\ Names(RecycleThread) = {"lock", "unlock", "free"}
<1>1. MayBegin(Send, CLock("m_sendMessageQueueMutex", <<>>))
  BY SendCode, Distinct DEF MayBegin, Allowed
<1>2. MayBegin(Recycle, RecycleThread) /\ Names(RecycleThread) = {"lock", "unlock", "free"}
  BY RecycleCode, Distinct DEF MayBegin, Allowed
<1>3. QED
  BY <1>1, <1>2, SendCode DEF SendTurn

LEMMA Beginnings ==
  ASSUME Accept \/ Call \/ SendTurn \/ RecycleTurn
  PROVE  \E t \in Threads : \E code, o : Begin(t, code, o) /\ MayBegin(t, code)
  BY AcceptBegins, CallBegins, OthersBegin, Distinct DEF RecycleTurn

LEMMA StepCode == CodeInv /\ [Next]_vars => CodeInv'
<1>1. SUFFICES ASSUME CodeInv, [Next]_vars PROVE CodeInv'
  OBVIOUS
<1>2. CASE Accept \/ Call \/ SendTurn \/ RecycleTurn
  <2>1. PICK t \in Threads : \E code, o : Begin(t, code, o) /\ MayBegin(t, code)
    BY <1>2, Beginnings
  <2>2. QED
    BY <1>1, <2>1, BeginCode
<1>3. ASSUME NEW t \in Threads, Lock(t) \/ Unlock(t)
      PROVE  CodeInv'
  BY <1>1, <1>3, LockCode
<1>4. ASSUME NEW t \in Threads, NEW step \in StepNames \ {"lock", "unlock"},
             At(t, step), Advance(t), mutex' = mutex
      PROVE  CodeInv'
  <2>1. /\ todo[t] \in Seq(Steps) /\ todo[t] # <<>> /\ Head(todo[t])[1] = step
        /\ todo' = [todo EXCEPT ![t] = Tail(todo[t])]
    BY <1>1, <1>4 DEF CodeInv, LockTypes, At, Advance
  <2>2. Rest(Tail(todo[t]), todo[t], 1) /\ todo[t][1][1] = step
    BY <2>1, TailRest
  <2>3. \A i \in 1..1 : todo[t][i][1] \notin {"lock", "unlock"}
    BY <2>2
  <2>4. QED
    BY <1>1, <1>4, <2>1, <2>2, <2>3, OtherCode
<1>5. ASSUME NEW t \in Threads, Test(t), fd[on[t]] = -1
      PROVE  CodeInv'
  <2> DEFINE q == todo[t]
             p == SubSeq(q, 4, Len(q))
  <2>1. /\ q \in Seq(Steps) /\ q # <<>> /\ Triple(q) /\ q[1][1] = "test"
        /\ todo' = [todo EXCEPT ![t] = p] /\ mutex' = mutex
    BY <1>1, <1>5, TailRest DEF CodeInv, LockTypes, ThreadCode, Test, At
  <2>2. Rest(p, q, 3) /\ q[2][1] = "close" /\ q[3][1] = "unset"
    BY <2>1, SkipRest
  <2>3. \A i \in 1..3 : q[i][1] \notin {"lock", "unlock"}
    <3>1. \A i \in 1..3 : i = 1 \/ i = 2 \/ i = 3
      OBVIOUS
    <3>2. QED
      BY <2>1, <2>2, <3>1
  <2> HIDE DEF p
  <2>4. QED
    BY <1>1, <2>1, <2>2, <2>3, OtherCode
<1>6. CASE UNCHANGED vars
  BY <1>1, <1>6 DEF vars, CodeInv, LockTypes
<1>7. ASSUME NEW t \in Threads, Test(t) \/ Close(t) \/ Unset(t) \/ Move(t)
      PROVE  CodeInv'
  <2>1. CASE Test(t)
    BY <1>4, <1>5, <2>1 DEF Test, StepNames
  <2>2. CASE Close(t)
    BY <1>4, <2>2 DEF Close, StepNames
  <2>3. CASE Unset(t)
    BY <1>4, <2>3 DEF Unset, StepNames
  <2>4. CASE Move(t)
    BY <1>4, <2>4 DEF Move, Moves, StepNames
  <2>5. QED
    BY <1>7, <2>1, <2>2, <2>3, <2>4
<1>8. CASE Refuse \/ Get
  BY <1>4, <1>8, Distinct DEF Refuse, Get, StepNames
<1>9. QED
  BY <1>1, <1>2, <1>3, <1>6, <1>7, <1>8 DEF Next, Run

(* Whoever waits in a circle waits for a higher mutex than the one before. *)
LEMMA NobodyWaits == CodeInv => NoDeadlock
<1>1. SUFFICES ASSUME CodeInv, NEW S \in (SUBSET Threads) \ {{}},
                      \A t \in S : \E u \in S : WaitsFor(t, u)
               PROVE  FALSE
  BY DEF NoDeadlock
<1> DEFINE R(t) == Rank(todo[t][1][2])
<1>2. ASSUME NEW t \in S
      PROVE  R(t) \in 1..5 /\ \E u \in S : R(u) > R(t)
  <2>1. PICK u \in S : WaitsFor(t, u)
    BY <1>1
  <2>2. WaitsFor(u, u) \/ \E v \in S : WaitsFor(u, v)
    BY <1>1
  <2>3. t \in Threads /\ u \in Threads
    BY <1>1
  <2>4. /\ todo[t] \in Seq(Steps) /\ todo[u] \in Seq(Steps)
        /\ todo[t] # <<>> /\ todo[u] # <<>>
        /\ Head(todo[t])[1] = "lock" /\ Head(todo[u])[1] = "lock"
        /\ mutex[Head(todo[t])[2]] = u
    BY <1>1, <2>1, <2>2, <2>3 DEF WaitsFor, At, CodeInv, LockTypes
  <2>5. /\ Head(todo[t]) = todo[t][1] /\ Head(todo[u]) = todo[u][1]
        /\ 1 \in 1..Len(todo[t]) /\ 1 \in 1..Len(todo[u])
    BY <2>4, TailRest
  <2>6. todo[t][1][2] \in Mutexes
    BY <1>1, <2>3, <2>4, <2>5 DEF CodeInv, ThreadCode, Disciplined, Held
  <2>7. todo[t][1][2] \in Held(todo[u], 1)
    BY <1>1, <2>3, <2>4, <2>5, <2>6 DEF CodeInv
  <2>8. Rank(todo[t][1][2]) < Rank(todo[u][1][2])
    BY <1>1, <2>3, <2>4, <2>5, <2>7 DEF CodeInv, ThreadCode, Disciplined
  <2>9. QED
    BY <2>1, <2>8, Ranks
<1> HIDE DEF R
<1>3. PICK t1 \in S : R(t1) >= 1
  <2>1. S # {}
    BY <1>1
  <2>2. PICK t \in S : TRUE
    BY <2>1
  <2>3. QED
    BY <1>2, <2>2
<1>4. PICK t2 \in S : R(t2) >= 2
  BY <1>2, <1>3
<1>5. PICK t3 \in S : R(t3) >= 3
  BY <1>2, <1>4
<1>6. PICK t4 \in S : R(t4) >= 4
  BY <1>2, <1>5
<1>7. PICK t5 \in S : R(t5) >= 5
  BY <1>2, <1>6
<1>8. QED
  BY <1>2, <1>7

(* NoDeadlock: no threads wait for each other in a circle, for any number  *)
(* of connections and pool threads, because every path through the code    *)
(* locks in the order of Rank.                                             *)
THEOREM NoCircleOfLocks == Spec => []NoDeadlock
<1>1. Spec => []CodeInv
  BY InitCode, StepCode, PTL DEF Spec
<1>2. QED
  BY <1>1, NobodyWaits, PTL

-----------------------------------------------------------------------------
(* How a step changes what is ahead of a thread.                           *)

HeadIs(q, step) == q # <<>> /\ q[1][1] = step
Closes(q) == HeadIs(q, "close") \/ HeadIs(q, "unset")
Works(q) == Names(q) \cap OnConn # {}

LEMMA HeadAt ==
  ASSUME CodeInv, NEW t \in Threads, NEW step
  PROVE  /\ At(t, step) <=> HeadIs(todo[t], step)
         /\ HeadIs(todo[t], step) => step \in Names(todo[t])
<1>1. todo[t] \in Seq(Steps)
  BY DEF CodeInv, LockTypes
<1>2. todo[t] # <<>> => Head(todo[t]) = todo[t][1] /\ todo[t][1][1] \in Names(todo[t])
  BY <1>1, TailRest
<1>3. QED
  BY <1>2 DEF At, HeadIs

LEMMA Idles ==
  ASSUME NEW q, q = <<>>
  PROVE  Names(q) = {} /\ ~Closes(q) /\ ~Works(q) /\ \A x : ~HeadIs(q, x)
  BY DEF Names, Closes, HeadIs, Works

LEMMA Advanced ==
  ASSUME CodeInv, NEW t \in Threads, NEW step, At(t, step), Advance(t)
  PROVE  /\ \A u \in Threads : u # t => todo'[u] = todo[u]
         /\ HeadIs(todo[t], step)
         /\ Names(todo[t]) = Names(todo'[t]) \cup {step}
         /\ Names(todo'[t]) \cap Never(step) = {}
         /\ HeadIs(todo'[t], "close") <=> step = "test"
         /\ HeadIs(todo'[t], "unset") <=> step = "close"
<1> DEFINE q == todo[t]
           p == Tail(q)
<1>1. /\ q \in Seq(Steps) /\ q # <<>> /\ Triple(q) /\ Flow(q) /\ Head(q) = q[1]
      /\ q[1][1] = step /\ Rest(p, q, 1) /\ Len(q) \in Nat /\ Len(q) >= 1
      /\ Names(q) = Names(p) \cup {q[1][1]} /\ Names(p) \cap Never(q[1][1]) = {}
  BY TailRest, LenProperties DEF CodeInv, LockTypes, ThreadCode, At
<1>2. todo' = [todo EXCEPT ![t] = p]
  BY DEF Advance
<1>3. todo'[t] = p /\ \A u \in Threads : u # t => todo'[u] = todo[u]
  BY <1>2 DEF CodeInv, LockTypes
<1>4. p # <<>> => Len(q) >= 2 /\ p[1] = q[2]
  <2>1. ASSUME p # <<>> PROVE Len(p) >= 1
    BY <1>1, <2>1, EmptySeq DEF Rest
  <2>2. QED
    BY <1>1, <2>1 DEF Rest
<1> HIDE DEF p
<1>5. Len(q) >= 2 => p # <<>>
  <2>1. Len(p) = Len(q) - 1 /\ Len(<<>>) = 0
    BY <1>1, EmptySeq DEF Rest
  <2>2. QED
    BY <1>1, <2>1
<1>6. /\ q[1][1] = "test" => Len(q) >= 3 /\ q[2][1] = "close"
      /\ q[1][1] = "close" => Len(q) >= 2 /\ q[2][1] = "unset"
  BY <1>1 DEF Triple
<1>7. Len(q) >= 2 => /\ (q[2][1] = "close" => q[1][1] = "test")
                     /\ (q[2][1] = "unset" => q[1][1] = "close")
  BY <1>1 DEF Triple
<1>8. HeadIs(p, "close") <=> step = "test"
  BY <1>1, <1>4, <1>5, <1>6, <1>7 DEF HeadIs
<1>9. HeadIs(p, "unset") <=> step = "close"
  BY <1>1, <1>4, <1>5, <1>6, <1>7 DEF HeadIs
<1>10. QED
  BY <1>1, <1>3, <1>8, <1>9 DEF HeadIs

LEMMA Skipped ==
  ASSUME CodeInv, NEW t \in Threads, Test(t), fd[on[t]] = -1
  PROVE  /\ \A u \in Threads : u # t => todo'[u] = todo[u]
         /\ HeadIs(todo[t], "test")
         /\ Names(todo[t]) = Names(todo'[t]) \cup Closing
         /\ Names(todo'[t]) \cap Never("unset") = {}
         /\ ~Closes(todo'[t])
<1> DEFINE q == todo[t]
           p == SubSeq(q, 4, Len(q))
<1>1. /\ q \in Seq(Steps) /\ q # <<>> /\ Triple(q) /\ Flow(q) /\ Head(q) = q[1]
      /\ q[1][1] = "test" /\ Len(q) \in Nat
  BY TailRest, LenProperties DEF CodeInv, LockTypes, ThreadCode, Test, At
<1>2. todo' = [todo EXCEPT ![t] = p]
  BY DEF Test
<1>3. todo'[t] = p /\ \A u \in Threads : u # t => todo'[u] = todo[u]
  BY <1>2 DEF CodeInv, LockTypes
<1>4. /\ Rest(p, q, 3) /\ q[3][1] = "unset"
      /\ Names(q) = Names(p) \cup Closing /\ Names(p) \cap Never("unset") = {}
  BY <1>1, SkipRest
<1>5. p # <<>> => Len(q) >= 4 /\ p[1] = q[4]
  <2>1. ASSUME p # <<>> PROVE Len(p) >= 1
    BY <1>4, <2>1, EmptySeq DEF Rest
  <2>2. QED
    BY <1>1, <1>4, <2>1 DEF Rest
<1> HIDE DEF p
<1>6. Len(q) >= 4 => q[4][1] \notin {"close", "unset"}
  BY <1>1, <1>4 DEF Triple
<1>7. ~Closes(p)
  BY <1>5, <1>6 DEF Closes, HeadIs
<1>8. QED
  BY <1>1, <1>3, <1>4, <1>7 DEF HeadIs

LEMMA Began ==
  ASSUME CodeInv, NEW t \in Threads, NEW code, NEW o, Begin(t, code, o), MayBegin(t, code)
  PROVE  /\ todo'[t] = code /\ \A u \in Threads : u # t => todo'[u] = todo[u]
         /\ Names(todo[t]) = {} /\ ~Closes(todo[t]) /\ ~Works(todo[t])
         /\ ~Closes(code)
<1>1. todo[t] = <<>> /\ todo' = [todo EXCEPT ![t] = code]
  BY DEF Begin, Idle
<1>2. todo'[t] = code /\ \A u \in Threads : u # t => todo'[u] = todo[u]
  BY <1>1 DEF CodeInv, LockTypes
<1>3. code \in Seq(Steps) /\ Whole(code)
  BY DEF MayBegin, Code, Clean
<1>4. ~Closes(code)
  BY <1>3, EmptySeq DEF Closes, HeadIs, Whole
<1>5. QED
  BY <1>1, <1>2, <1>4, Idles

-----------------------------------------------------------------------------
(* Connections, their descriptors, and the threads that work on them.      *)

Places == {"free", "new", "used", "recycle"}
FdTypes ==
  /\ on \in [Threads -> Conns \cup {Null}] /\ seen \in [Threads -> Numbers \cup {-1}]
  /\ fd \in [Conns -> Numbers \cup {-1}] /\ place \in [Conns -> Places]
  /\ open \subseteq Numbers /\ s \in Numbers \cup {-1} /\ clash \in BOOLEAN

\* Who works on a connection has one, and who accepts has none yet.
OnIt ==
  \A t \in Threads :
    /\ "get" \in Names(todo[t]) => on[t] = Null
    /\ Works(todo[t]) /\ "get" \notin Names(todo[t]) => on[t] \in Conns

\* A thread has a number in its hands between its test of fd and fd = -1, and nobody
\* gives the connection another one meanwhile.
InHand ==
  \A t \in Threads :
    /\ seen[t] # -1 <=> Closes(todo[t])
    /\ Closes(todo[t]) => fd[on[t]] \in {seen[t], -1}

\* The accepted socket is in s until it is given to a connection or refused.
Accepting == s # -1 <=> {"get", "refuse"} \cap Names(todo[Main]) # {}

\* Where a connection is while a thread works on it.
Whereabouts ==
  /\ \A t \in Threads \ {Main, Recycle} :
       Works(todo[t]) => place[on[t]] \in {"used", "recycle"}
  /\ "free" \in Names(todo[Recycle]) =>
       /\ place[on[Recycle]] = "recycle"
       /\ \A t \in Threads \ {Recycle} : on[t] = on[Recycle] => ~Works(todo[t])
  /\ "recycle" \in Names(todo[Main]) => place[on[Main]] \in {"used", "recycle"}
  /\ "get" \notin Names(todo[Main]) =>
       /\ {"add", "free"} \cap Names(todo[Main]) # {} => place[on[Main]] = "new"
       /\ "unset" \in Names(todo[Main]) /\ {"free", "recycle"} \cap Names(todo[Main]) = {}
            => place[on[Main]] = "free"

\* A connection has no number any more when it is recycled, nor when it is free, but
\* for the one that ngx_close_connection frees before it closes.
Spent ==
  /\ \A t \in Threads :
       "recycle" \in Names(todo[t]) /\ "unset" \notin Names(todo[t]) => fd[on[t]] = -1
  /\ \A o \in Conns :
       /\ place[o] = "free" =>
            fd[o] = -1 \/ (on[Main] = o /\ "unset" \in Names(todo[Main]))
       /\ place[o] = "recycle" => fd[o] = -1

\* Somebody has closed the number of o, and has still to write fd = -1.
Unsetting(o) == \E t \in Threads : on[t] = o /\ HeadIs(todo[t], "unset")

\* Every open number is in a connection whose closing has not gone so far, or in s.
Kept == \A n \in open : n = s \/ \E o \in Conns : fd[o] = n /\ ~Unsetting(o)

\* No number is in two such connections, or closed, if no two threads closed one
\* connection at the same time.
Exclusive ==
  /\ s # -1 => s \in open
  /\ \A o \in Conns : fd[o] # -1 /\ ~Unsetting(o) =>
       /\ fd[o] \in open /\ fd[o] # s
       /\ \A p \in Conns \ {o} : fd[p] = fd[o] => Unsetting(p)
  /\ \A t \in Threads : Closes(todo[t]) => fd[on[t]] = seen[t]
  /\ \A t, u \in Threads : Closes(todo[t]) /\ Closes(todo[u]) /\ on[t] = on[u] => t = u

FdInv ==
  /\ CodeInv /\ FdTypes /\ OnIt /\ InHand /\ Accepting /\ Whereabouts /\ Spent
  /\ Kept /\ (~clash => Exclusive)

LEMMA InitFd == Init => FdInv
<1>1. SUFFICES ASSUME Init PROVE FdInv
  OBVIOUS
<1>2. CodeInv
  BY <1>1, InitCode
<1>3. \A t \in Threads : /\ todo[t] = <<>> /\ Names(todo[t]) = {} /\ ~Closes(todo[t])
                         /\ ~Works(todo[t]) /\ on[t] = Null /\ seen[t] = -1
  BY <1>1, Idles DEF Init
<1>4. FdTypes
  BY <1>1 DEF Init, FdTypes, Places
<1>5. OnIt /\ InHand /\ Accepting
  BY <1>1, <1>3, Distinct DEF Init, OnIt, InHand, Accepting
<1>6. Whereabouts
  BY <1>3, Distinct DEF Whereabouts
<1>7. Spent
  BY <1>1, <1>3 DEF Init, Spent
<1>8. Kept
  BY <1>1 DEF Init, Kept
<1>9. Exclusive
  BY <1>1, <1>3 DEF Init, Exclusive
<1>10. QED
  BY <1>2, <1>4, <1>5, <1>6, <1>7, <1>8, <1>9 DEF FdInv

(* Steps after which everybody is where he was.                            *)
LEMMA CalmFd ==
  ASSUME FdInv, CodeInv', UNCHANGED <<on, seen, fd, place, open, s, clash>>,
         \A t \in Threads :
           /\ \A x \in OnConn \cup {"get", "refuse"} :
                x \in Names(todo'[t]) <=> x \in Names(todo[t])
           /\ Closes(todo'[t]) <=> Closes(todo[t])
           /\ HeadIs(todo'[t], "unset") <=> HeadIs(todo[t], "unset")
  PROVE  FdInv'
<1>1. \A t \in Threads : Works(todo'[t]) <=> Works(todo[t])
  BY DEF Works
<1>2. /\ \A t \in Threads :
           /\ "get" \in Names(todo'[t]) <=> "get" \in Names(todo[t])
           /\ "refuse" \in Names(todo'[t]) <=> "refuse" \in Names(todo[t])
           /\ "unset" \in Names(todo'[t]) <=> "unset" \in Names(todo[t])
           /\ "recycle" \in Names(todo'[t]) <=> "recycle" \in Names(todo[t])
           /\ "free" \in Names(todo'[t]) <=> "free" \in Names(todo[t])
           /\ "add" \in Names(todo'[t]) <=> "add" \in Names(todo[t])
  BY DEF OnConn, Closing
<1>3. FdTypes'
  BY DEF FdInv, FdTypes
<1>4. OnIt'
  BY <1>1, <1>2 DEF FdInv, OnIt
<1>5. InHand'
  BY DEF FdInv, InHand
<1>6. Accepting'
  BY <1>2, Distinct DEF FdInv, Accepting
<1>7. Whereabouts'
  BY <1>1, <1>2, Distinct DEF FdInv, Whereabouts
<1>8. Spent'
  BY <1>2, Distinct DEF FdInv, Spent
<1>9. \A o \in Conns : Unsetting(o)' <=> Unsetting(o)
  BY DEF Unsetting
<1>10. Kept'
  BY <1>9 DEF FdInv, Kept
<1>11. ~clash' => Exclusive'
  BY <1>9 DEF FdInv, Exclusive
<1>12. QED
  BY <1>3, <1>4, <1>5, <1>6, <1>7, <1>8, <1>10, <1>11 DEF FdInv

LEMMA LockFd ==
  ASSUME FdInv, CodeInv', NEW t \in Threads, Lock(t) \/ Unlock(t)
  PROVE  FdInv'
<1>1. PICK step \in {"lock", "unlock"} : At(t, step) /\ Advance(t)
  BY DEF Lock, Unlock
<1>2. /\ \A u \in Threads : u # t => todo'[u] = todo[u]
      /\ HeadIs(todo[t], step)
      /\ Names(todo[t]) = Names(todo'[t]) \cup {step}
      /\ ~HeadIs(todo'[t], "close") /\ ~HeadIs(todo'[t], "unset")
  BY <1>1, Advanced DEF FdInv
<1>3. ~HeadIs(todo[t], "close") /\ ~HeadIs(todo[t], "unset")
  BY <1>2 DEF HeadIs
<1>4. step \notin OnConn \cup {"get", "refuse"}
  BY DEF OnConn, Closing
<1>5. UNCHANGED <<on, seen, fd, place, open, s, clash>>
  BY DEF Lock, Unlock
<1>6. QED
  BY <1>2, <1>3, <1>4, <1>5, CalmFd DEF Closes

(* A thread that was idle begins to work, and nothing else changes.        *)
LEMMA BeginFd ==
  ASSUME FdInv, NEW t \in Threads, NEW code, NEW o \in Conns \cup {Null},
         Begin(t, code, o), MayBegin(t, code), open' = open, s' = s,
         {"get", "refuse"} \cap Names(code) = {},
         Works(code) => o \in Conns,
         "free" \in Names(code) => t = Recycle,
         t # Recycle /\ Works(code) =>
           place[o] = "used" /\ Names(code) \subseteq CloseNames,
         t = Main => "recycle" \in Names(code),
         t = Recycle => /\ place[o] = "recycle" /\ \A u \in Threads : on[u] = o => Idle(u)
                        /\ Names(code) = {"lock", "unlock", "free"}
  PROVE  FdInv'
<1>0. CodeInv'
  BY BeginCode DEF FdInv
<1>1. /\ todo'[t] = code /\ \A u \in Threads : u # t => todo'[u] = todo[u]
      /\ Names(todo[t]) = {} /\ ~Closes(todo[t]) /\ ~Works(todo[t]) /\ ~Closes(code)
  BY Began DEF FdInv
<1>2. /\ on' = [on EXCEPT ![t] = o] /\ FdTypes
      /\ UNCHANGED <<seen, fd, place, clash, open, s>>
  BY DEF Begin, FdInv
<1>3. on'[t] = o /\ \A u \in Threads : u # t => on'[u] = on[u]
  BY <1>2 DEF FdTypes
<1>4. FdTypes'
  BY <1>2 DEF FdTypes
<1>5. OnIt'
  BY <1>1, <1>3 DEF FdInv, OnIt
<1>6. InHand'
  BY <1>1, <1>2, <1>3 DEF FdInv, InHand
<1>7. Accepting'
  BY <1>1, <1>2, Distinct DEF FdInv, Accepting
<1>8. Whereabouts'
  <2>1. ASSUME NEW u \in Threads \ {Main, Recycle}, Works(todo'[u])
        PROVE  place'[on'[u]] \in {"used", "recycle"}
    BY <1>1, <1>2, <1>3, <2>1 DEF FdInv, Whereabouts
  <2>2. ASSUME "free" \in Names(todo'[Recycle])
        PROVE  /\ place'[on'[Recycle]] = "recycle"
               /\ \A u \in Threads \ {Recycle} : on'[u] = on'[Recycle] => ~Works(todo'[u])
    <3>1. CASE t = Recycle
      <4>1. \A u \in Threads \ {Recycle} : on[u] = o => ~Works(todo[u])
        BY <3>1, Idles DEF Idle
      <4>2. QED
        BY <1>1, <1>2, <1>3, <3>1, <4>1
    <3>2. CASE t # Recycle
      <4>1. /\ place[on[Recycle]] = "recycle"
            /\ \A u \in Threads \ {Recycle} : on[u] = on[Recycle] => ~Works(todo[u])
        BY <1>1, <2>2, <3>2, Distinct DEF FdInv, Whereabouts
      <4>2. Works(code) => o # on[Recycle]
        BY <3>2, <4>1
      <4>3. QED
        BY <1>1, <1>2, <1>3, <3>2, <4>1, <4>2, Distinct
    <3>3. QED
      BY <3>1, <3>2
  <2>3. /\ "recycle" \in Names(todo'[Main]) => place'[on'[Main]] \in {"used", "recycle"}
        /\ "get" \notin Names(todo'[Main]) =>
             /\ {"add", "free"} \cap Names(todo'[Main]) # {} => place'[on'[Main]] = "new"
             /\ "unset" \in Names(todo'[Main])
                  /\ {"free", "recycle"} \cap Names(todo'[Main]) = {}
                  => place'[on'[Main]] = "free"
    <3>1. CASE t = Main
      <4>1. /\ "recycle" \in Names(code) /\ Works(code) /\ t # Recycle
        BY <3>1, Distinct DEF Works, OnConn
      <4>2. "add" \notin Names(code) /\ "free" \notin Names(code)
        BY <4>1 DEF CloseNames, Closing
      <4>3. QED
        BY <1>1, <1>2, <1>3, <3>1, <4>1, <4>2
    <3>2. CASE t # Main
      BY <1>1, <1>2, <1>3, <3>2, Distinct DEF FdInv, Whereabouts
    <3>3. QED
      BY <3>1, <3>2
  <2>4. QED
    BY <2>1, <2>2, <2>3 DEF Whereabouts
<1>9. Spent'
  <2>1. \A u \in Threads :
          "recycle" \in Names(todo'[u]) /\ "unset" \notin Names(todo'[u]) => fd'[on'[u]] = -1
    BY <1>1, <1>2, <1>3 DEF FdInv, Spent, MayBegin
  <2>2. \A p \in Conns :
          /\ place'[p] = "free" =>
               fd'[p] = -1 \/ (on'[Main] = p /\ "unset" \in Names(todo'[Main]))
          /\ place'[p] = "recycle" => fd'[p] = -1
    BY <1>1, <1>2, <1>3, Distinct DEF FdInv, Spent
  <2>3. QED
    BY <2>1, <2>2 DEF Spent
<1>10. \A p \in Conns : Unsetting(p)' <=> Unsetting(p)
  <2>1. \A u \in Threads : /\ HeadIs(todo'[u], "unset") <=> HeadIs(todo[u], "unset")
                           /\ HeadIs(todo[u], "unset") => on'[u] = on[u]
    BY <1>1, <1>3 DEF Closes
  <2>2. QED
    BY <2>1 DEF Unsetting
<1>11. Kept'
  BY <1>2, <1>10 DEF FdInv, Kept
<1>12. ASSUME ~clash' PROVE Exclusive'
  <2>1. \A u \in Threads : /\ Closes(todo'[u]) <=> Closes(todo[u])
                           /\ Closes(todo[u]) => on'[u] = on[u]
    BY <1>1, <1>3
  <2>2. Exclusive
    BY <1>2, <1>12 DEF FdInv
  <2>3. QED
    BY <1>2, <1>10, <2>1, <2>2 DEF Exclusive
<1>13. QED
  BY <1>0, <1>4, <1>5, <1>6, <1>7, <1>8, <1>9, <1>11, <1>12 DEF FdInv

LEMMA CallFd ==
  ASSUME FdInv, Call \/ SendTurn \/ RecycleTurn
  PROVE  FdInv'
<1>1. CASE Call
  <2>0. PICK o \in Used, t \in Threads \ {Send, Recycle} : \E code :
          /\ Begin(t, code, o) /\ MayBegin(t, code) /\ Names(code) \subseteq CloseNames
          /\ t = Main => "recycle" \in Names(code)
    BY <1>1, CallBegins
  <2>1. PICK code :
          /\ Begin(t, code, o) /\ MayBegin(t, code) /\ Names(code) \subseteq CloseNames
          /\ t = Main => "recycle" \in Names(code)
    BY <2>0
  <2>2. /\ t \in Threads /\ t # Recycle /\ o \in Conns /\ place[o] = "used"
        /\ o \in Conns \cup {Null} /\ open' = open /\ s' = s
    BY <1>1 DEF Used, Call
  <2>3. {"get", "refuse"} \cap Names(code) = {} /\ "free" \notin Names(code)
    BY <2>1 DEF CloseNames, Closing
  <2>4. QED
    BY <2>1, <2>2, <2>3, BeginFd
<1>2. CASE SendTurn
  <2>1. PICK code : /\ Begin(Send, code, Null) /\ MayBegin(Send, code)
                    /\ Names(code) = {"lock", "unlock"}
    BY <1>2, OthersBegin
  <2>2. /\ ~Works(code) /\ {"get", "refuse"} \cap Names(code) = {}
        /\ "free" \notin Names(code)
    BY <2>1 DEF Works, OnConn, Closing
  <2>3. open' = open /\ s' = s
    BY <1>2 DEF SendTurn
  <2>4. QED
    BY <2>1, <2>2, <2>3, Distinct, BeginFd
<1>3. CASE RecycleTurn
  <2>1. PICK o \in Conns : /\ place[o] = "recycle" /\ \A t \in Threads : on[t] = o => Idle(t)
                           /\ Begin(Recycle, RecycleThread, o)
    BY <1>3 DEF RecycleTurn
  <2> DEFINE code == RecycleThread
  <2>2. MayBegin(Recycle, code) /\ Names(code) = {"lock", "unlock", "free"}
    BY OthersBegin
  <2>3. open' = open /\ s' = s /\ o \in Conns \cup {Null}
    BY <1>3 DEF RecycleTurn
  <2>4. Begin(Recycle, code, o)
    BY <2>1
  <2> HIDE DEF code
  <2>5. QED
    BY <2>1, <2>2, <2>3, <2>4, Distinct, BeginFd
<1>4. QED
  BY <1>1, <1>2, <1>3

LEMMA AcceptFd ==
  ASSUME FdInv, Accept
  PROVE  FdInv'
<1>1. PICK code : /\ Begin(Main, code, Null) /\ MayBegin(Main, code)
                  /\ {"get", "refuse"} \cap Names(code) # {} /\ "recycle" \notin Names(code)
                  /\ Works(code) => "get" \in Names(code)
  BY AcceptBegins DEF Works
<1>2. CodeInv'
  BY <1>1, BeginCode, Distinct DEF FdInv
<1>3. /\ todo'[Main] = code /\ \A u \in Threads : u # Main => todo'[u] = todo[u]
      /\ Names(todo[Main]) = {} /\ ~Closes(todo[Main]) /\ ~Works(todo[Main]) /\ ~Closes(code)
  BY <1>1, Began, Distinct DEF FdInv
<1>4. /\ on' = [on EXCEPT ![Main] = Null] /\ FdTypes
      /\ UNCHANGED <<seen, fd, place, clash>>
  BY <1>1 DEF Begin, FdInv
<1>5. on'[Main] = Null /\ \A u \in Threads : u # Main => on'[u] = on[u]
  BY <1>4, Distinct DEF FdTypes
<1>6. s' \in Numbers \ open /\ open' = open \cup {s'}
  <2>1. Numbers \ open \in SUBSET Nat /\ Numbers \ open # {}
    BY WorkerAssumption DEF Accept, Numbers
  <2>2. QED
    BY <2>1, LeastElement DEF Accept
<1>7. s' # -1 /\ s = -1 /\ -1 \notin open
  <2>1. -1 \notin Numbers
    BY WorkerAssumption DEF Numbers
  <2>2. QED
    BY <1>3, <1>4, <1>6, <2>1 DEF FdInv, Accepting, FdTypes
<1>8. FdTypes'
  BY <1>4, <1>6, Distinct DEF FdTypes
<1>9. OnIt'
  BY <1>1, <1>3, <1>5 DEF FdInv, OnIt
<1>10. InHand'
  BY <1>3, <1>4, <1>5 DEF FdInv, InHand
<1>11. Accepting'
  BY <1>1, <1>3, <1>7 DEF Accepting
<1>12. Whereabouts'
  <2>1. /\ \A u \in Threads \ {Main, Recycle} :
             Works(todo'[u]) => place'[on'[u]] \in {"used", "recycle"}
        /\ "free" \in Names(todo'[Recycle]) =>
             /\ place'[on'[Recycle]] = "recycle"
             /\ \A u \in Threads \ {Main, Recycle} :
                  on'[u] = on'[Recycle] => ~Works(todo'[u])
    BY <1>3, <1>4, <1>5, Distinct DEF FdInv, Whereabouts
  <2>2. "free" \in Names(todo'[Recycle]) => on'[Recycle] # Null
    <3>1. ASSUME "free" \in Names(todo[Recycle]) PROVE on[Recycle] \in Conns
      <4>1. "get" \notin Names(todo[Recycle])
        BY Distinct DEF FdInv, CodeInv, ThreadCode, Allowed
      <4>2. QED
        BY <3>1, <4>1, Distinct DEF FdInv, OnIt, Works, OnConn
    <3>2. QED
      BY <1>3, <1>5, <3>1, Distinct
  <2>3. "recycle" \notin Names(todo'[Main])
    BY <1>1, <1>3
  <2>4. "get" \notin Names(todo'[Main]) =>
          {"add", "free", "unset"} \cap Names(todo'[Main]) = {}
    BY <1>1, <1>3 DEF Works, OnConn, Closing
  <2>5. QED
    BY <1>5, <2>1, <2>2, <2>3, <2>4 DEF Whereabouts
<1>13. Spent'
  BY <1>1, <1>3, <1>4, <1>5, Distinct DEF FdInv, Spent
<1>14. \A p \in Conns : Unsetting(p)' <=> Unsetting(p)
  <2>1. \A u \in Threads : /\ HeadIs(todo'[u], "unset") <=> HeadIs(todo[u], "unset")
                           /\ HeadIs(todo[u], "unset") => on'[u] = on[u]
    BY <1>3, <1>5 DEF Closes
  <2>2. QED
    BY <2>1 DEF Unsetting
<1>15. Kept'
  BY <1>4, <1>6, <1>7, <1>14 DEF FdInv, Kept
<1>16. ASSUME ~clash' PROVE Exclusive'
  <2>1. \A u \in Threads : /\ Closes(todo'[u]) <=> Closes(todo[u])
                           /\ Closes(todo[u]) => on'[u] = on[u]
    BY <1>3, <1>5
  <2>2. Exclusive
    BY <1>4, <1>16 DEF FdInv
  <2>3. QED
    BY <1>4, <1>6, <1>14, <2>1, <2>2 DEF Exclusive
<1>17. QED
  BY <1>2, <1>8, <1>9, <1>10, <1>11, <1>12, <1>13, <1>15, <1>16 DEF FdInv

(* Who is at a step on a connection has one.                               *)
LEMMA AtConn ==
  ASSUME FdInv, NEW t \in Threads, NEW step \in OnConn, At(t, step)
  PROVE  /\ HeadIs(todo[t], step) /\ step \in Names(todo[t]) /\ Works(todo[t])
         /\ "get" \notin Names(todo[t]) /\ on[t] \in Conns
<1>1. HeadIs(todo[t], step) /\ step \in Names(todo[t])
  BY HeadAt DEF FdInv
<1>2. Works(todo[t])
  BY <1>1 DEF Works
<1>3. /\ todo[t] \in Seq(Steps) /\ todo[t] # <<>> /\ todo[t][1][1] = step /\ Flow(todo[t])
  BY <1>1 DEF HeadIs, FdInv, CodeInv, LockTypes, ThreadCode
<1>4. /\ Names(todo[t]) = Names(Tail(todo[t])) \cup {step}
      /\ Names(Tail(todo[t])) \cap Never(step) = {}
  BY <1>3, TailRest
<1>5. "get" \in Never(step) /\ step # "get"
  BY DEF Never, OnConn, Closing
<1>6. "get" \notin Names(todo[t])
  BY <1>4, <1>5
<1>7. QED
  BY <1>1, <1>2, <1>6 DEF FdInv, OnIt

LEMMA TestFd ==
  ASSUME FdInv, CodeInv', NEW t \in Threads, Test(t)
  PROVE  FdInv'
<1>1. /\ At(t, "test") /\ FdTypes /\ UNCHANGED <<mutex, on, fd, place, open, s>>
  BY DEF Test, FdInv
<1>2. /\ HeadIs(todo[t], "test") /\ "test" \in Names(todo[t])
  BY <1>1, HeadAt DEF FdInv
<1>3. /\ ~Closes(todo[t]) /\ Works(todo[t])
  BY <1>2 DEF Closes, HeadIs, Works, OnConn, Closing
<1>4. CASE fd[on[t]] = -1
  <2>1. UNCHANGED <<seen, clash>>
    BY <1>4 DEF Test
  <2>2. /\ \A u \in Threads : u # t => todo'[u] = todo[u]
        /\ Names(todo[t]) = Names(todo'[t]) \cup Closing
        /\ Names(todo'[t]) \cap Never("unset") = {}
        /\ ~Closes(todo'[t])
    BY <1>4, Skipped DEF FdInv
  <2>3. /\ \A x \in {"get", "refuse", "recycle", "free", "add"} :
             x \in Names(todo'[t]) <=> x \in Names(todo[t])
        /\ "unset" \notin Names(todo'[t])
        /\ "free" \notin Names(todo'[t]) /\ "get" \notin Names(todo'[t])
    BY <2>2 DEF Never, OnConn, Closing
  <2>4. \A u \in Threads : Works(todo'[u]) => Works(todo[u])
    BY <2>2 DEF Works
  <2>5. FdTypes'
    BY <1>1, <2>1 DEF FdTypes
  <2>6. OnIt'
    BY <1>1, <2>2, <2>3, <2>4 DEF FdInv, OnIt
  <2>7. InHand'
    BY <1>1, <1>3, <2>1, <2>2 DEF FdInv, InHand
  <2>8. Accepting'
    BY <1>1, <2>2, <2>3, Distinct DEF FdInv, Accepting
  <2>9. Whereabouts'
    BY <1>1, <2>2, <2>3, <2>4, Distinct DEF FdInv, Whereabouts
  <2>10. Spent'
    BY <1>1, <1>4, <2>2, <2>3, Distinct DEF FdInv, Spent
  <2>11. \A u \in Threads : /\ HeadIs(todo'[u], "unset") <=> HeadIs(todo[u], "unset")
                            /\ Closes(todo'[u]) <=> Closes(todo[u])
    BY <1>3, <2>2 DEF Closes
  <2>12. \A o \in Conns : Unsetting(o)' <=> Unsetting(o)
    BY <1>1, <2>11 DEF Unsetting
  <2>13. Kept' /\ (~clash' => Exclusive')
    BY <1>1, <2>1, <2>11, <2>12 DEF FdInv, Kept, Exclusive
  <2>14. QED
    BY <2>5, <2>6, <2>7, <2>8, <2>9, <2>10, <2>13 DEF FdInv
<1>5. CASE fd[on[t]] # -1
  <2>1. /\ Advance(t) /\ seen' = [seen EXCEPT ![t] = fd[on[t]]]
        /\ clash' = (clash \/ Closers(on[t]) # {})
    BY <1>5 DEF Test
  <2>2. /\ \A u \in Threads : u # t => todo'[u] = todo[u]
        /\ Names(todo[t]) = Names(todo'[t]) \cup {"test"}
        /\ HeadIs(todo'[t], "close") /\ ~HeadIs(todo'[t], "unset")
    BY <1>1, <2>1, Advanced DEF FdInv
  <2>3. on[t] \in Conns /\ fd[on[t]] \in Numbers
    <3>1. on[t] \in Conns
      BY <1>1, AtConn DEF OnConn, Closing
    <3>2. QED
      BY <1>1, <1>5, <3>1 DEF FdTypes
  <2>4. /\ \A u \in Threads : \A x \in {"get", "refuse", "recycle", "free", "add", "unset"} :
             x \in Names(todo'[u]) <=> x \in Names(todo[u])
        /\ \A u \in Threads : Works(todo'[u]) => Works(todo[u])
    BY <2>2 DEF Works
  <2>5. FdTypes'
    BY <1>1, <2>1, <2>3 DEF FdTypes
  <2>6. OnIt'
    BY <1>1, <2>4 DEF FdInv, OnIt
  <2>7. -1 \notin Numbers
    BY WorkerAssumption DEF Numbers
  <2>8. InHand'
    BY <1>1, <1>3, <2>1, <2>2, <2>3, <2>7 DEF FdInv, InHand, FdTypes, Closes
  <2>9. Accepting'
    BY <1>1, <2>4, Distinct DEF FdInv, Accepting
  <2>10. Whereabouts'
    BY <1>1, <2>4, Distinct DEF FdInv, Whereabouts
  <2>11. Spent'
    BY <1>1, <2>4, Distinct DEF FdInv, Spent
  <2>12. \A u \in Threads : HeadIs(todo'[u], "unset") <=> HeadIs(todo[u], "unset")
    BY <1>3, <2>2 DEF Closes
  <2>13. \A o \in Conns : Unsetting(o)' <=> Unsetting(o)
    BY <1>1, <2>12 DEF Unsetting
  <2>14. Kept'
    BY <1>1, <2>13 DEF FdInv, Kept
  <2>15. ASSUME ~clash' PROVE Exclusive'
    <3>1. Exclusive /\ \A u \in Threads : on[u] = on[t] => ~Closes(todo[u])
      BY <2>1, <2>15 DEF FdInv, Closers, InHand
    <3>2. \A u \in Threads : u # t => (Closes(todo'[u]) <=> Closes(todo[u])) /\ seen'[u] = seen[u]
      BY <1>1, <2>1, <2>2 DEF FdTypes
    <3>3. seen'[t] = fd[on[t]]
      BY <1>1, <2>1 DEF FdTypes
    <3>4. \A u \in Threads : Closes(todo'[u]) => fd'[on'[u]] = seen'[u]
      BY <1>1, <3>1, <3>2, <3>3 DEF Exclusive
    <3>5. \A u, v \in Threads :
            Closes(todo'[u]) /\ Closes(todo'[v]) /\ on'[u] = on'[v] => u = v
      BY <1>1, <3>1, <3>2 DEF Exclusive
    <3>6. QED
      BY <1>1, <2>13, <3>1, <3>4, <3>5 DEF Exclusive
  <2>16. QED
    BY <2>5, <2>6, <2>8, <2>9, <2>10, <2>11, <2>14, <2>15 DEF FdInv
<1>6. QED
  BY <1>4, <1>5

(* close(fd): what is closed is the number seen, or none at all.           *)
LEMMA CloseStepFd ==
  ASSUME FdInv, CodeInv', NEW t \in Threads, Close(t)
  PROVE  FdInv'
<1> DEFINE o == on[t]
<1>1. /\ At(t, "close") /\ Advance(t) /\ FdTypes
      /\ UNCHANGED <<mutex, on, seen, fd, place, s, clash>>
  BY DEF Close, FdInv
<1>2. PICK n \in {seen[t], fd[o]} : open' = open \ {n}
  BY DEF Close
<1>3. /\ HeadIs(todo[t], "close") /\ o \in Conns
  BY <1>1, AtConn DEF OnConn, Closing
<1>4. /\ \A u \in Threads : u # t => todo'[u] = todo[u]
      /\ Names(todo[t]) = Names(todo'[t]) \cup {"close"}
      /\ HeadIs(todo'[t], "unset") /\ ~HeadIs(todo'[t], "close")
  BY <1>1, Advanced DEF FdInv
<1>5. Closes(todo[t]) /\ Closes(todo'[t]) /\ ~HeadIs(todo[t], "unset")
  BY <1>3, <1>4 DEF Closes, HeadIs
<1>6. /\ \A u \in Threads : \A x \in {"get", "refuse", "recycle", "free", "add", "unset"} :
             x \in Names(todo'[u]) <=> x \in Names(todo[u])
      /\ \A u \in Threads : Works(todo'[u]) => Works(todo[u])
      /\ \A u \in Threads : Closes(todo'[u]) <=> Closes(todo[u])
  BY <1>4, <1>5 DEF Works
<1>7. FdTypes'
  BY <1>1, <1>2 DEF FdTypes
<1>8. OnIt'
  BY <1>1, <1>6 DEF FdInv, OnIt
<1>9. InHand'
  BY <1>1, <1>6 DEF FdInv, InHand
<1>10. Accepting'
  BY <1>1, <1>6, Distinct DEF FdInv, Accepting
<1>11. Whereabouts'
  BY <1>1, <1>6, Distinct DEF FdInv, Whereabouts
<1>12. Spent'
  BY <1>1, <1>6, Distinct DEF FdInv, Spent
<1>13. \A p \in Conns : Unsetting(p)' <=> Unsetting(p) \/ p = o
  <2>1. \A u \in Threads : HeadIs(todo'[u], "unset") <=> HeadIs(todo[u], "unset") \/ u = t
    BY <1>4
  <2>2. QED
    BY <1>1, <2>1 DEF Unsetting
<1>14. seen[t] # -1 /\ fd[o] \in {seen[t], -1} /\ -1 \notin open
  <2>1. -1 \notin Numbers
    BY WorkerAssumption DEF Numbers
  <2>2. QED
    BY <1>1, <1>5, <2>1 DEF FdInv, InHand, FdTypes
<1>15. Kept'
  <2>1. SUFFICES ASSUME NEW m \in open', m # s
                 PROVE  \E p \in Conns : fd'[p] = m /\ ~Unsetting(p)'
    BY <1>1 DEF Kept
  <2>2. m \in open /\ m # n
    BY <1>2
  <2>3. PICK p \in Conns : fd[p] = m /\ ~Unsetting(p)
    BY <2>1, <2>2 DEF FdInv, Kept
  <2>4. CASE p = o
    <3>1. n = m
      BY <1>2, <1>14, <2>2, <2>3, <2>4 
    <3>2. QED
      BY <2>2, <3>1
  <2>5. CASE p # o
    BY <1>1, <1>13, <2>3, <2>5
  <2>6. QED
    BY <2>4, <2>5
<1>16. ASSUME ~clash' PROVE Exclusive'
  <2>1. Exclusive
    BY <1>1, <1>16 DEF FdInv
  <2>2. fd[o] = seen[t] /\ n = fd[o] /\ fd[o] # -1
    BY <1>2, <1>5, <1>14, <2>1 DEF Exclusive
  <2>3. ~Unsetting(o)
    <3>1. ASSUME NEW u \in Threads, on[u] = o, HeadIs(todo[u], "unset") PROVE FALSE
      <4>1. u = t
        BY <1>5, <2>1, <3>1 DEF Exclusive, Closes
      <4>2. QED
        BY <1>5, <3>1, <4>1
    <3>2. QED
      BY <3>1 DEF Unsetting
  <2>4. n # s
    BY <1>3, <2>1, <2>2, <2>3 DEF Exclusive
  <2>5. ASSUME NEW p \in Conns, fd'[p] # -1, ~Unsetting(p)'
        PROVE  /\ fd'[p] \in open' /\ fd'[p] # s'
               /\ \A q \in Conns \ {p} : fd'[q] = fd'[p] => Unsetting(q)'
    <3>1. p # o /\ ~Unsetting(p) /\ fd[p] # -1
      BY <1>1, <1>13, <2>5
    <3>2. /\ fd[p] \in open /\ fd[p] # s
          /\ \A q \in Conns \ {p} : fd[q] = fd[p] => Unsetting(q)
      BY <2>1, <3>1 DEF Exclusive
    <3>3. fd[p] # n
      BY <1>3, <2>2, <2>3, <3>1, <3>2
    <3>4. QED
      BY <1>1, <1>2, <1>13, <3>2, <3>3
  <2>6. QED
    BY <1>1, <1>2, <1>6, <2>1, <2>4, <2>5 DEF Exclusive
<1>17. QED
  BY <1>7, <1>8, <1>9, <1>10, <1>11, <1>12, <1>15, <1>16 DEF FdInv

(* fd = -1.                                                                *)
LEMMA UnsetFd ==
  ASSUME FdInv, CodeInv', NEW t \in Threads, Unset(t)
  PROVE  FdInv'
<1> DEFINE o == on[t]
<1>1. /\ At(t, "unset") /\ Advance(t) /\ FdTypes
      /\ fd' = [fd EXCEPT ![o] = -1] /\ seen' = [seen EXCEPT ![t] = -1]
      /\ UNCHANGED <<mutex, on, place, open, s, clash>>
  BY DEF Unset, FdInv
<1>2. HeadIs(todo[t], "unset") /\ o \in Conns
  BY <1>1, AtConn DEF OnConn, Closing
<1>3. /\ \A u \in Threads : u # t => todo'[u] = todo[u]
      /\ Names(todo[t]) = Names(todo'[t]) \cup {"unset"}
      /\ Names(todo'[t]) \cap Never("unset") = {}
      /\ ~HeadIs(todo'[t], "unset") /\ ~HeadIs(todo'[t], "close")
  BY <1>1, Advanced DEF FdInv
<1>4. /\ ~Closes(todo'[t]) /\ "unset" \notin Names(todo'[t])
      /\ "free" \notin Names(todo'[t]) /\ "get" \notin Names(todo'[t])
  BY <1>3 DEF Closes, Never, Closing
<1>5. /\ \A u \in Threads : \A x \in {"get", "refuse", "recycle", "free", "add"} :
             x \in Names(todo'[u]) <=> x \in Names(todo[u])
      /\ \A u \in Threads : Works(todo'[u]) => Works(todo[u])
  BY <1>3 DEF Works
<1>6. /\ fd'[o] = -1 /\ \A p \in Conns : p # o => fd'[p] = fd[p]
      /\ seen'[t] = -1 /\ \A u \in Threads : u # t => seen'[u] = seen[u]
  BY <1>1, <1>2 DEF FdTypes
<1>7. FdTypes'
  BY <1>1 DEF FdTypes
<1>8. OnIt'
  BY <1>1, <1>5 DEF FdInv, OnIt
<1>9. InHand'
  <2>1. \A u \in Threads : seen'[u] # -1 <=> Closes(todo'[u])
    BY <1>3, <1>4, <1>6 DEF FdInv, InHand
  <2>2. ASSUME NEW u \in Threads, Closes(todo'[u])
        PROVE  fd'[on'[u]] \in {seen'[u], -1}
    <3>1. u # t /\ Closes(todo[u]) /\ seen'[u] = seen[u] /\ on'[u] = on[u]
      BY <1>1, <1>3, <1>4, <1>6, <2>2
    <3>2. on[u] \in Conns
      <4>1. At(u, "close") \/ At(u, "unset")
        BY <3>1, HeadAt DEF FdInv, Closes
      <4>2. QED
        BY <4>1, AtConn DEF OnConn, Closing
    <3>3. QED
      BY <1>6, <3>1, <3>2 DEF FdInv, InHand
  <2>3. QED
    BY <2>1, <2>2 DEF InHand
<1>10. Accepting'
  BY <1>1, <1>5, Distinct DEF FdInv, Accepting
<1>11. Whereabouts'
  BY <1>1, <1>3, <1>4, <1>5, Distinct DEF FdInv, Whereabouts
<1>12. Spent'
  <2>1. ASSUME NEW u \in Threads, "recycle" \in Names(todo'[u]), "unset" \notin Names(todo'[u])
        PROVE  fd'[on'[u]] = -1
    <3>1. CASE u = t
      BY <1>1, <1>6, <3>1
    <3>2. CASE u # t
      <4>1. fd[on[u]] = -1
        BY <1>3, <2>1, <3>2 DEF FdInv, Spent
      <4>2. on[u] # o => fd'[on[u]] = fd[on[u]]
        BY <1>1
      <4>3. QED
        BY <1>1, <1>6, <4>1, <4>2
    <3>3. QED
      BY <3>1, <3>2
  <2>2. ASSUME NEW p \in Conns
        PROVE  /\ place'[p] = "free" =>
                    fd'[p] = -1 \/ (on'[Main] = p /\ "unset" \in Names(todo'[Main]))
               /\ place'[p] = "recycle" => fd'[p] = -1
    <3>1. CASE p = o
      BY <1>6, <3>1
    <3>2. CASE p # o
      <4>1. on[Main] = p => Main # t
        BY <3>2
      <4>2. QED
        BY <1>1, <1>3, <1>6, <3>2, <4>1, Distinct DEF FdInv, Spent
    <3>3. QED
      BY <3>1, <3>2
  <2>3. QED
    BY <2>1, <2>2 DEF Spent
<1>13. Unsetting(o) /\ \A p \in Conns : p # o => (Unsetting(p)' <=> Unsetting(p))
  <2>1. \A u \in Threads : u # t => (HeadIs(todo'[u], "unset") <=> HeadIs(todo[u], "unset"))
    BY <1>3
  <2>2. QED
    BY <1>1, <1>2, <1>3, <2>1 DEF Unsetting
<1>14. Kept'
  BY <1>1, <1>6, <1>13 DEF FdInv, Kept
<1>15. ASSUME ~clash' PROVE Exclusive'
  <2>1. Exclusive
    BY <1>1, <1>15 DEF FdInv
  <2>2. \A u \in Threads : Closes(todo'[u]) => u # t /\ Closes(todo[u])
    BY <1>3, <1>4
  <2>3. \A u \in Threads : Closes(todo'[u]) => on[u] # o
    <3>1. Closes(todo[t])
      BY <1>2 DEF Closes
    <3>2. QED
      BY <2>1, <2>2, <3>1 DEF Exclusive
  <2>4. \A u \in Threads : Closes(todo'[u]) => fd'[on'[u]] = seen'[u]
    BY <1>1, <1>6, <2>1, <2>2, <2>3 DEF Exclusive
  <2>5. \A u, v \in Threads :
          Closes(todo'[u]) /\ Closes(todo'[v]) /\ on'[u] = on'[v] => u = v
    BY <1>1, <2>1, <2>2 DEF Exclusive
  <2>6. ASSUME NEW p \in Conns, fd'[p] # -1, ~Unsetting(p)'
        PROVE  /\ fd'[p] \in open' /\ fd'[p] # s'
               /\ \A q \in Conns \ {p} : fd'[q] = fd'[p] => Unsetting(q)'
    <3>1. p # o /\ fd[p] # -1 /\ ~Unsetting(p) /\ fd'[p] = fd[p]
      BY <1>6, <1>13, <2>6
    <3>2. /\ fd[p] \in open /\ fd[p] # s
          /\ \A q \in Conns \ {p} : fd[q] = fd[p] => Unsetting(q)
      BY <2>1, <3>1 DEF Exclusive
    <3>3. QED
      BY <1>1, <1>6, <1>13, <2>6, <3>1, <3>2
  <2>7. s' # -1 => s' \in open'
    BY <1>1, <2>1 DEF Exclusive
  <2>8. QED
    BY <2>4, <2>5, <2>6, <2>7 DEF Exclusive
<1>16. QED
  BY <1>7, <1>8, <1>9, <1>10, <1>11, <1>12, <1>14, <1>15 DEF FdInv

(* Too many clients: the accepted socket is closed.                        *)
LEMMA RefuseFd ==
  ASSUME FdInv, CodeInv', Refuse
  PROVE  FdInv'
<1>1. /\ At(Main, "refuse") /\ Advance(Main) /\ FdTypes /\ open' = open \ {s} /\ s' = -1
      /\ UNCHANGED <<mutex, on, seen, fd, place, clash>>
  BY DEF Refuse, FdInv
<1>2. /\ \A u \in Threads : u # Main => todo'[u] = todo[u]
      /\ HeadIs(todo[Main], "refuse")
      /\ Names(todo[Main]) = Names(todo'[Main]) \cup {"refuse"}
      /\ Names(todo'[Main]) \cap Never("refuse") = {}
      /\ ~HeadIs(todo'[Main], "unset") /\ ~HeadIs(todo'[Main], "close")
  BY <1>1, Advanced, Distinct DEF FdInv
<1>3. /\ {"get", "refuse"} \cap Names(todo'[Main]) = {} /\ ~Closes(todo'[Main])
      /\ ~Closes(todo[Main]) /\ ~HeadIs(todo[Main], "unset")
  BY <1>2 DEF Never, Closes, HeadIs
<1>4. /\ \A u \in Threads : \A x \in {"recycle", "free", "add", "unset"} :
             x \in Names(todo'[u]) <=> x \in Names(todo[u])
      /\ \A u \in Threads : "get" \in Names(todo'[u]) <=> "get" \in Names(todo[u])
      /\ \A u \in Threads : Works(todo'[u]) => Works(todo[u])
      /\ \A u \in Threads : Closes(todo'[u]) <=> Closes(todo[u])
  BY <1>2, <1>3 DEF Works
<1>5. \A p \in Conns : Unsetting(p)' <=> Unsetting(p)
  BY <1>1, <1>2, <1>3 DEF Unsetting
<1>6. s # -1 /\ -1 \notin open
  <2>1. -1 \notin Numbers
    BY WorkerAssumption DEF Numbers
  <2>2. QED
    BY <1>1, <1>2, <2>1 DEF FdInv, Accepting, FdTypes
<1>7. FdTypes' /\ OnIt' /\ InHand'
  BY <1>1, <1>4 DEF FdInv, FdTypes, OnIt, InHand
<1>8. Accepting'
  BY <1>1, <1>3 DEF Accepting
<1>9. Whereabouts'
  BY <1>1, <1>4, Distinct DEF FdInv, Whereabouts
<1>10. Spent'
  BY <1>1, <1>4, Distinct DEF FdInv, Spent
<1>11. Kept'
  BY <1>1, <1>5 DEF FdInv, Kept
<1>12. ASSUME ~clash' PROVE Exclusive'
  <2>1. Exclusive
    BY <1>1, <1>12 DEF FdInv
  <2>2. ASSUME NEW p \in Conns, fd'[p] # -1, ~Unsetting(p)'
        PROVE  /\ fd'[p] \in open' /\ fd'[p] # s'
               /\ \A q \in Conns \ {p} : fd'[q] = fd'[p] => Unsetting(q)'
    BY <1>1, <1>5, <2>1, <2>2 DEF Exclusive
  <2>3. QED
    BY <1>1, <1>4, <2>1, <2>2 DEF Exclusive
<1>13. QED
  BY <1>7, <1>8, <1>9, <1>10, <1>11, <1>12 DEF FdInv

(* Nobody works on a connection that is free, but for the epoll thread     *)
(* that closes it after it gave it back.                                   *)
LEMMA FreeAlone ==
  ASSUME FdInv, NEW o \in Conns, place[o] = "free", on[Main] # o,
         NEW t \in Threads, on[t] = o
  PROVE  ~Works(todo[t]) /\ ~Closes(todo[t])
<1>1. t # Main
  OBVIOUS
<1>2. CASE t = Recycle
  <2>1. Names(todo[t]) \subseteq {"lock", "unlock", "free"}
    BY <1>2, Distinct DEF FdInv, CodeInv, ThreadCode, Allowed
  <2>2. "free" \notin Names(todo[t])
    BY <1>2 DEF FdInv, Whereabouts
  <2>3. ~Works(todo[t])
    BY <2>1, <2>2 DEF Works, OnConn, Closing
  <2>4. QED
    BY <2>3, HeadAt DEF FdInv, Closes, Works, OnConn, Closing
<1>3. CASE t # Recycle
  <2>1. ~Works(todo[t])
    BY <1>1, <1>3 DEF FdInv, Whereabouts
  <2>2. QED
    BY <2>1, HeadAt DEF FdInv, Closes, Works, OnConn, Closing
<1>4. QED
  BY <1>2, <1>3

(* ngx_get_connection: the accepted socket is given to a free connection.  *)
LEMMA GetFd ==
  ASSUME FdInv, CodeInv', Get
  PROVE  FdInv'
<1>1. /\ At(Main, "get") /\ Advance(Main) /\ FdTypes /\ s' = -1
      /\ UNCHANGED <<mutex, seen, open, clash>>
  BY DEF Get, FdInv
<1>2. PICK o \in Conns :
        /\ place[o] = "free" /\ place' = [place EXCEPT ![o] = "new"]
        /\ on' = [on EXCEPT ![Main] = o] /\ fd' = [fd EXCEPT ![o] = s]
  BY DEF Get
<1>3. /\ \A u \in Threads : u # Main => todo'[u] = todo[u]
      /\ HeadIs(todo[Main], "get") /\ "get" \in Names(todo[Main])
      /\ Names(todo[Main]) = Names(todo'[Main]) \cup {"get"}
      /\ Names(todo'[Main]) \cap Never("get") = {}
      /\ ~HeadIs(todo'[Main], "unset") /\ ~HeadIs(todo'[Main], "close")
  BY <1>1, Advanced, Distinct DEF FdInv
<1>4. /\ {"get", "refuse", "recycle"} \cap Names(todo'[Main]) = {} /\ ~Closes(todo'[Main])
      /\ ~Closes(todo[Main]) /\ ~HeadIs(todo[Main], "unset")
  BY <1>3 DEF Never, Closes, HeadIs
<1>5. /\ on'[Main] = o /\ \A u \in Threads : u # Main => on'[u] = on[u]
      /\ fd'[o] = s /\ \A p \in Conns : p # o => fd'[p] = fd[p]
      /\ place'[o] = "new" /\ \A p \in Conns : p # o => place'[p] = place[p]
  BY <1>1, <1>2, Distinct DEF FdTypes
<1>6. on[Main] = Null /\ o # Null
  BY <1>3, Distinct DEF FdInv, OnIt
<1>7. fd[o] = -1 /\ \A t \in Threads : on[t] = o => ~Works(todo[t]) /\ ~Closes(todo[t])
  BY <1>2, <1>6, FreeAlone DEF FdInv, Spent
<1>8. s # -1 /\ -1 \notin open
  <2>1. -1 \notin Numbers
    BY WorkerAssumption DEF Numbers
  <2>2. QED
    BY <1>1, <1>3, <2>1 DEF FdInv, Accepting, FdTypes
<1>9. \A t \in Threads \ {Main} : Works(todo[t]) => on[t] \in Conns
  <2>1. \A t \in Threads \ {Main} : "get" \notin Names(todo[t])
    BY Distinct DEF FdInv, CodeInv, ThreadCode, Allowed, CloseNames, Closing
  <2>2. QED
    BY <2>1 DEF FdInv, OnIt
<1>10. FdTypes'
  BY <1>1, <1>2, Distinct DEF FdTypes, Places
<1>11. OnIt'
  BY <1>3, <1>4, <1>5 DEF FdInv, OnIt
<1>12. InHand'
  <2>1. ASSUME NEW t \in Threads, Closes(todo'[t])
        PROVE  fd'[on'[t]] \in {seen'[t], -1}
    <3>1. t # Main /\ Closes(todo[t]) /\ on'[t] = on[t] /\ on[t] # o
      BY <1>3, <1>4, <1>5, <1>7, <2>1
    <3>2. fd'[on[t]] = fd[on[t]]
      BY <1>2, <3>1
    <3>3. QED
      BY <1>1, <3>1, <3>2 DEF FdInv, InHand
  <2>2. QED
    BY <1>1, <1>3, <1>4, <2>1 DEF FdInv, InHand
<1>13. Accepting'
  BY <1>1, <1>4 DEF Accepting
<1>14. Whereabouts'
  <2>1. ASSUME NEW t \in Threads \ {Main, Recycle}, Works(todo'[t])
        PROVE  place'[on'[t]] \in {"used", "recycle"}
    BY <1>3, <1>5, <1>7, <1>9, <2>1 DEF FdInv, Whereabouts
  <2>2. ASSUME "free" \in Names(todo'[Recycle])
        PROVE  /\ place'[on'[Recycle]] = "recycle"
               /\ \A t \in Threads \ {Recycle} : on'[t] = on'[Recycle] => ~Works(todo'[t])
    <3>1. "free" \in Names(todo[Recycle]) /\ Works(todo[Recycle])
      BY <1>3, <2>2, Distinct DEF Works, OnConn
    <3>2. on[Recycle] \in Conns /\ on[Recycle] # o
      BY <1>7, <1>9, <3>1, Distinct
    <3>3. QED
      BY <1>3, <1>5, <3>1, <3>2, Distinct DEF FdInv, Whereabouts
  <2>3. "unset" \in Names(todo'[Main]) => "free" \in Names(todo'[Main])
    BY <1>1, <1>3, Distinct DEF FdInv, CodeInv, ThreadCode
  <2>4. QED
    BY <1>4, <1>5, <2>1, <2>2, <2>3 DEF Whereabouts
<1>15. Spent'
  <2>1. ASSUME NEW t \in Threads, "recycle" \in Names(todo'[t]), "unset" \notin Names(todo'[t])
        PROVE  fd'[on'[t]] = -1
    <3>1. t # Main /\ "recycle" \in Names(todo[t]) /\ on'[t] = on[t] /\ fd[on[t]] = -1
      BY <1>3, <1>4, <1>5, <2>1 DEF FdInv, Spent
    <3>2. Works(todo[t])
      BY <3>1 DEF Works, OnConn
    <3>3. fd'[on[t]] = fd[on[t]]
      BY <1>2, <1>7, <3>1, <3>2
    <3>4. QED
      BY <3>1, <3>3
  <2>2. ASSUME NEW p \in Conns
        PROVE  /\ place'[p] = "free" =>
                    fd'[p] = -1 \/ (on'[Main] = p /\ "unset" \in Names(todo'[Main]))
               /\ place'[p] = "recycle" => fd'[p] = -1
    BY <1>5, <1>6, Distinct DEF FdInv, Spent
  <2>3. QED
    BY <2>1, <2>2 DEF Spent
<1>16. \A p \in Conns : Unsetting(p)' <=> Unsetting(p)
  <2>1. \A t \in Threads : /\ HeadIs(todo'[t], "unset") <=> HeadIs(todo[t], "unset")
                           /\ HeadIs(todo[t], "unset") => on'[t] = on[t]
    BY <1>3, <1>4, <1>5
  <2>2. QED
    BY <2>1 DEF Unsetting
<1>17. ~Unsetting(o)
  BY <1>7 DEF Unsetting, Closes
<1>18. Kept'
  <2>1. SUFFICES ASSUME NEW n \in open
                 PROVE  \E p \in Conns : fd'[p] = n /\ ~Unsetting(p)'
    BY <1>1 DEF Kept
  <2>2. CASE n = s
    BY <1>5, <1>16, <1>17, <2>2
  <2>3. CASE n # s
    <3>1. PICK p \in Conns : fd[p] = n /\ ~Unsetting(p)
      BY <2>3 DEF FdInv, Kept
    <3>2. p # o
      BY <1>7, <1>8, <3>1
    <3>3. QED
      BY <1>5, <1>16, <3>1, <3>2
  <2>4. QED
    BY <2>2, <2>3
<1>19. ASSUME ~clash' PROVE Exclusive'
  <2>1. Exclusive
    BY <1>1, <1>19 DEF FdInv
  <2>2. ASSUME NEW p \in Conns, fd'[p] # -1, ~Unsetting(p)'
        PROVE  /\ fd'[p] \in open' /\ fd'[p] # s'
               /\ \A q \in Conns \ {p} : fd'[q] = fd'[p] => Unsetting(q)'
    <3>1. CASE p = o
      <4>1. s \in open
        BY <1>8, <2>1 DEF Exclusive
      <4>2. \A q \in Conns \ {o} : fd[q] = s => Unsetting(q)
        BY <1>8, <2>1 DEF Exclusive
      <4>3. QED
        BY <1>1, <1>5, <1>8, <1>16, <3>1, <4>1, <4>2
    <3>2. CASE p # o
      <4>1. /\ fd[p] # -1 /\ ~Unsetting(p) /\ fd'[p] = fd[p]
        BY <1>5, <1>16, <2>2, <3>2
      <4>2. /\ fd[p] \in open /\ fd[p] # s
            /\ \A q \in Conns \ {p} : fd[q] = fd[p] => Unsetting(q)
        BY <2>1, <4>1 DEF Exclusive
      <4>3. QED
        BY <1>1, <1>5, <1>8, <1>16, <2>2, <4>1, <4>2
    <3>3. QED
      BY <3>1, <3>2
  <2>3. \A t \in Threads : Closes(todo'[t]) =>
          Closes(todo[t]) /\ on'[t] = on[t] /\ on[t] # o /\ fd'[on[t]] = fd[on[t]]
    BY <1>2, <1>3, <1>4, <1>5, <1>7
  <2>4. /\ \A t \in Threads : Closes(todo'[t]) => fd'[on'[t]] = seen'[t]
        /\ \A t, u \in Threads :
             Closes(todo'[t]) /\ Closes(todo'[u]) /\ on'[t] = on'[u] => t = u
    BY <1>1, <2>1, <2>3 DEF Exclusive
  <2>5. QED
    BY <1>1, <2>2, <2>4 DEF Exclusive
<1>20. QED
  BY <1>10, <1>11, <1>12, <1>13, <1>14, <1>15, <1>18, <1>19 DEF FdInv

(* A connection goes on to the place where the next thread finds it.       *)
LEMMA MoveFd ==
  ASSUME FdInv, CodeInv', NEW t \in Threads, Move(t)
  PROVE  FdInv'
<1> DEFINE o == on[t]
<1>1. PICK step \in {"add", "recycle", "free"} :
        At(t, step) /\ place' = [place EXCEPT ![o] = Moves[step]]
  BY DEF Move, Moves
<1>2. /\ Advance(t) /\ FdTypes /\ UNCHANGED <<mutex, on, seen, fd, open, s, clash>>
  BY DEF Move, FdInv
<1>3. /\ o \in Conns /\ step \in Names(todo[t]) /\ Works(todo[t]) /\ "get" \notin Names(todo[t])
  BY <1>1, AtConn DEF OnConn
<1>4. /\ \A u \in Threads : u # t => todo'[u] = todo[u]
      /\ HeadIs(todo[t], step)
      /\ Names(todo[t]) = Names(todo'[t]) \cup {step}
      /\ Names(todo'[t]) \cap Never(step) = {}
      /\ ~HeadIs(todo'[t], "unset") /\ ~HeadIs(todo'[t], "close")
  BY <1>1, <1>2, Advanced DEF FdInv
<1>5. /\ \A u \in Threads : Closes(todo'[u]) <=> Closes(todo[u])
      /\ \A u \in Threads : HeadIs(todo'[u], "unset") <=> HeadIs(todo[u], "unset")
      /\ \A u \in Threads : Works(todo'[u]) => Works(todo[u])
      /\ \A u \in Threads : \A x \in {"get", "refuse", "unset"} :
             x \in Names(todo'[u]) <=> x \in Names(todo[u])
  BY <1>4 DEF Closes, HeadIs, Works
<1>6. place'[o] = Moves[step] /\ \A p \in Conns : p # o => place'[p] = place[p]
  BY <1>1, <1>2, <1>3 DEF FdTypes
<1>7. FdTypes'
  <2>1. Moves[step] \in Places
    BY DEF Moves, Places
  <2>2. place' \in [Conns -> Places]
    BY <1>1, <1>2, <2>1 DEF FdTypes
  <2>3. QED
    BY <1>2, <2>2 DEF FdTypes
<1>8. OnIt' /\ InHand' /\ Accepting'
  BY <1>2, <1>5, Distinct DEF FdInv, OnIt, InHand, Accepting
<1>9. Kept' /\ (~clash' => Exclusive')
  <2>1. \A p \in Conns : Unsetting(p)' <=> Unsetting(p)
    BY <1>2, <1>5 DEF Unsetting
  <2>2. QED
    BY <1>2, <1>5, <2>1 DEF FdInv, Kept, Exclusive
<1>10. \A u \in Threads \ {Main} : Works(todo[u]) => on[u] \in Conns
  <2>1. \A u \in Threads \ {Main} : "get" \notin Names(todo[u])
    BY Distinct DEF FdInv, CodeInv, ThreadCode, Allowed, CloseNames, Closing
  <2>2. QED
    BY <2>1 DEF FdInv, OnIt
<1>11. /\ \A u \in Threads \ {Main, Recycle} :
            Works(todo'[u]) => on[u] \in Conns /\ place[on[u]] \in {"used", "recycle"}
       /\ "free" \in Names(todo'[Recycle]) =>
            /\ on[Recycle] \in Conns /\ place[on[Recycle]] = "recycle"
            /\ \A u \in Threads \ {Recycle} : on[u] = on[Recycle] => ~Works(todo'[u])
  <2>1. "free" \in Names(todo'[Recycle]) =>
          "free" \in Names(todo[Recycle]) /\ Works(todo[Recycle])
    BY <1>4, Distinct DEF Works, OnConn
  <2>2. QED
    BY <1>5, <1>10, <2>1, Distinct DEF FdInv, Whereabouts
<1>12. t = Main => \A x : x \in Names(todo'[Main]) => x \in Names(todo[Main])
  BY <1>4
<1>13. Whereabouts' /\ Spent'
  <2>1. CASE step = "add"
    <3>1. t = Main
      BY <1>3, <2>1, Distinct DEF FdInv, CodeInv, ThreadCode, Allowed, CloseNames, Closing
    <3>2. place[o] = "new" /\ place'[o] = "used"
      BY <1>3, <1>6, <2>1, <3>1 DEF FdInv, Whereabouts, Moves
    <3>3. /\ Names(todo'[Main]) \cap {"recycle", "add", "free", "unset"} = {}
      BY <1>4, <2>1, <3>1 DEF Never, OnConn, Closing
    <3>4. Whereabouts'
      BY <1>2, <1>6, <1>11, <3>2, <3>3 DEF Whereabouts
    <3>5. Spent'
      <4>1. \A u \in Threads :
              "recycle" \in Names(todo'[u]) /\ "unset" \notin Names(todo'[u]) => fd'[on'[u]] = -1
        BY <1>2, <1>4, <3>1, <3>3 DEF FdInv, Spent
      <4>2. \A p \in Conns :
              /\ place'[p] = "free" => fd'[p] = -1
              /\ place'[p] = "recycle" => fd'[p] = -1
        BY <1>2, <1>6, <3>1, <3>2 DEF FdInv, Spent
      <4>3. QED
        BY <4>1, <4>2 DEF Spent
    <3>6. QED
      BY <3>4, <3>5
  <2>2. CASE step = "recycle"
    <3>1. t # Recycle
      BY <1>3, <2>2, Distinct DEF FdInv, CodeInv, ThreadCode, Allowed
    <3>2. place[o] \in {"used", "recycle"} /\ place'[o] = "recycle"
      BY <1>3, <1>6, <2>2, <3>1 DEF FdInv, Whereabouts, Moves
    <3>3. /\ Names(todo'[t]) \cap {"recycle", "add", "free", "unset"} = {}
          /\ "unset" \notin Names(todo[t])
      BY <1>4, <2>2 DEF Never, OnConn, Closing
    <3>4. fd[o] = -1
      BY <1>3, <2>2, <3>3 DEF FdInv, Spent
    <3>5. Whereabouts'
      <4>1. "recycle" \in Names(todo'[Main]) => place'[on'[Main]] \in {"used", "recycle"}
        <5>1. ASSUME "recycle" \in Names(todo'[Main])
              PROVE  t # Main /\ place[on[Main]] \in {"used", "recycle"}
          BY <1>4, <3>3, <5>1, Distinct DEF FdInv, Whereabouts
        <5>2. place'[on[Main]] \in {place[on[Main]], "recycle"}
          BY <1>1, <1>2, <1>3, <2>2 DEF Moves, FdTypes
        <5>3. QED
          BY <1>2, <5>1, <5>2
      <4>2. "get" \notin Names(todo'[Main]) =>
             /\ {"add", "free"} \cap Names(todo'[Main]) # {} => place'[on'[Main]] = "new"
             /\ "unset" \in Names(todo'[Main])
                  /\ {"free", "recycle"} \cap Names(todo'[Main]) = {}
                  => place'[on'[Main]] = "free"
        <5>1. CASE t = Main
          BY <3>3, <5>1
        <5>2. CASE t # Main
          <6>1. on[Main] # o => place'[on[Main]] = place[on[Main]]
            BY <1>1
          <6>2. QED
            BY <1>2, <1>4, <3>2, <5>2, <6>1, Distinct DEF FdInv, Whereabouts
        <5>3. QED
          BY <5>1, <5>2
      <4>3. QED
        BY <1>2, <1>6, <1>11, <3>2, <4>1, <4>2 DEF Whereabouts
    <3>6. Spent'
      <4>1. \A u \in Threads :
              "recycle" \in Names(todo'[u]) /\ "unset" \notin Names(todo'[u]) => fd'[on'[u]] = -1
        BY <1>2, <1>4, <3>3 DEF FdInv, Spent
      <4>2. \A p \in Conns :
              /\ place'[p] = "free" =>
                   fd'[p] = -1 \/ (on'[Main] = p /\ "unset" \in Names(todo'[Main]))
              /\ place'[p] = "recycle" => fd'[p] = -1
        BY <1>2, <1>5, <1>6, <3>2, <3>4, Distinct DEF FdInv, Spent
      <4>3. QED
        BY <4>1, <4>2 DEF Spent
    <3>7. QED
      BY <3>5, <3>6
  <2>3. CASE step = "free" /\ t = Recycle
    <3>1. /\ place[o] = "recycle" /\ place'[o] = "free"
          /\ \A u \in Threads \ {Recycle} : on[u] = o => ~Works(todo[u])
      BY <1>3, <1>6, <2>3 DEF FdInv, Whereabouts, Moves
    <3>2. fd[o] = -1
      BY <1>3, <3>1 DEF FdInv, Spent
    <3>3. "free" \notin Names(todo'[Recycle])
      BY <1>4, <2>3 DEF Never
    <3>4. /\ \A u \in Threads \ {Main, Recycle} : Works(todo'[u]) => on[u] # o
          /\ {"add", "free", "recycle", "unset"} \cap Names(todo[Main]) # {} => on[Main] # o
      BY <1>4, <2>3, <3>1, Distinct DEF Works, OnConn, Closing
    <3>5. on[Main] # o => place'[on[Main]] = place[on[Main]]
      BY <1>1
    <3>6. Whereabouts'
      BY <1>2, <1>4, <1>6, <1>11, <2>3, <3>3, <3>4, <3>5, Distinct DEF FdInv, Whereabouts
    <3>7. Spent'
      <4>1. \A u \in Threads :
              "recycle" \in Names(todo'[u]) /\ "unset" \notin Names(todo'[u]) => fd'[on'[u]] = -1
        BY <1>2, <1>4, <1>5, <2>3 DEF FdInv, Spent
      <4>2. \A p \in Conns :
              /\ place'[p] = "free" =>
                   fd'[p] = -1 \/ (on'[Main] = p /\ "unset" \in Names(todo'[Main]))
              /\ place'[p] = "recycle" => fd'[p] = -1
        BY <1>2, <1>5, <1>6, <3>1, <3>2, Distinct DEF FdInv, Spent
      <4>3. QED
        BY <4>1, <4>2 DEF Spent
    <3>8. QED
      BY <3>6, <3>7
  <2>4. CASE step = "free" /\ t # Recycle
    <3>1. t = Main
      BY <1>3, <2>4, Distinct DEF FdInv, CodeInv, ThreadCode, Allowed, CloseNames, Closing
    <3>2. place[o] = "new" /\ place'[o] = "free"
      BY <1>3, <1>6, <2>4, <3>1 DEF FdInv, Whereabouts, Moves
    <3>3. "unset" \in Names(todo'[Main])
      BY <1>3, <1>5, <2>4, <3>1 DEF FdInv, CodeInv, ThreadCode
    <3>4. Names(todo'[Main]) \cap {"free", "add", "recycle", "get"} = {}
      BY <1>4, <2>4, <3>1 DEF Never
    <3>5. Whereabouts'
      BY <1>2, <1>6, <1>11, <3>1, <3>2, <3>4 DEF Whereabouts
    <3>6. Spent'
      <4>1. \A u \in Threads :
              "recycle" \in Names(todo'[u]) /\ "unset" \notin Names(todo'[u]) => fd'[on'[u]] = -1
        BY <1>2, <1>4, <3>1, <3>4 DEF FdInv, Spent
      <4>2. \A p \in Conns :
              /\ place'[p] = "free" =>
                   fd'[p] = -1 \/ (on'[Main] = p /\ "unset" \in Names(todo'[Main]))
              /\ place'[p] = "recycle" => fd'[p] = -1
        BY <1>2, <1>6, <3>1, <3>2, <3>3 DEF FdInv, Spent
      <4>3. QED
        BY <4>1, <4>2 DEF Spent
    <3>7. QED
      BY <3>5, <3>6
  <2>5. QED
    BY <2>1, <2>2, <2>3, <2>4
<1>14. QED
  BY <1>7, <1>8, <1>9, <1>13 DEF FdInv

LEMMA StepFd == FdInv /\ [Next]_vars => FdInv'
<1>1. SUFFICES ASSUME FdInv, [Next]_vars PROVE FdInv'
  OBVIOUS
<1>2. CodeInv'
  BY <1>1, StepCode DEF FdInv
<1>3. CASE UNCHANGED vars
  BY <1>1, <1>2, <1>3, CalmFd DEF vars
<1>4. ASSUME NEW t \in Threads, Run(t)
      PROVE  FdInv'
  BY <1>1, <1>2, <1>4, LockFd, TestFd, CloseStepFd, UnsetFd, MoveFd DEF Run
<1>5. QED
  BY <1>1, <1>2, <1>3, <1>4, AcceptFd, CallFd, RefuseFd, GetFd DEF Next

(* NoFdLeak: a descriptor that is open is the one being accepted or is in  *)
(* the fd of a connection, whoever closes a connection (the epoll thread,  *)
(* a pool thread, the timer thread, ngx_close_connection), and even if two *)
(* of them do at the same time.                                            *)
THEOREM NoDescriptorLeaks == Spec => []NoFdLeak
<1>1. Spec => []FdInv
  BY InitFd, StepFd, PTL DEF Spec
<1>2. FdInv => NoFdLeak
  BY DEF FdInv, Kept, NoFdLeak
<1>3. QED
  BY <1>1, <1>2, PTL

(* FdOwned: unless two threads have been closing one connection together,  *)
(* the number in a fd that nobody is closing is open, and another          *)
(* connection with this number is one whose close() is done and whose fd   *)
(* is about to be -1 (the kernel has given the number to a later client).  *)
THEOREM DescriptorsOwned == Spec => []FdOwned
<1>1. Spec => []FdInv
  BY InitFd, StepFd, PTL DEF Spec
<1>2. ASSUME FdInv PROVE FdOwned
  <2>1. \A o \in Conns : Unsetting(o) => Closers(o) # {}
    BY <1>2 DEF Unsetting, Closers, FdInv, InHand, Closes
  <2>2. QED
    BY <1>2, <2>1 DEF FdInv, Exclusive, FdOwned
<1>3. QED
  BY <1>1, <1>2, PTL

=============================================================================
