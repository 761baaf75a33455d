---------------------------- MODULE SchedulerProof ----------------------------
(***************************************************************************)
(* Proofs about Scheduler for every number of threads, range, granularity  *)
(* and size of the deques: f runs once on each index, a call returns only  *)
(* after its whole range, and pop_bottom gives a call its own job back,    *)
(* however pushes, pops and thefts of all the workers interleave; about    *)
(* WorkerSleep for every number of threads and jobs: no wake-up is lost;   *)
(* and about Deque for every Modulus, Capacity, MaxDepth and set of        *)
(* thieves: no job is lost or taken twice.                                 *)
(***************************************************************************)
EXTENDS Scheduler, Deque, WorkerSleep, FiniteSetTheorems, TLAPS

(* Both halves of a range of at least two indices are shorter and not empty. *)
LEMMA Halves ==
  ASSUME NEW r \in Ranges, Size(r) > Granularity
  PROVE  /\ Left(r) \in Ranges /\ Right(r) \in Ranges /\ Mid(r) \in Int
         /\ r.lo < Mid(r) /\ Mid(r) < r.hi
         /\ Span(Left(r)) \cap Span(Right(r)) = {}
         /\ Span(Left(r)) \cup Span(Right(r)) = Span(r)
         /\ Span(Left(r)) # {} /\ Span(Right(r)) # {}
<1>1. /\ r.lo \in Int /\ r.hi \in Int /\ r.lo >= 0 /\ r.hi <= N /\ N \in Int /\ Granularity \in Int
      /\ Granularity >= 1 /\ r.hi - r.lo > Granularity /\ Mid(r) = r.lo + (r.hi - r.lo) \div 2
  BY SchedulerAssumption DEF Ranges, Size, Mid
<1>2. Mid(r) \in Int /\ r.lo < Mid(r) /\ Mid(r) < r.hi
  <2>1. \A n \in Int : n >= 2 => n \div 2 \in Int /\ 0 < n \div 2 /\ n \div 2 < n
    OBVIOUS
  <2>2. r.hi - r.lo \in Int /\ r.hi - r.lo >= 2
    BY <1>1
  <2>3. (r.hi - r.lo) \div 2 \in Int /\ 0 < (r.hi - r.lo) \div 2 /\ (r.hi - r.lo) \div 2 < r.hi - r.lo
    BY <2>1, <2>2
  <2> QED BY <1>1, <2>3
<1>3. /\ Left(r).lo = r.lo /\ Left(r).hi = Mid(r) /\ Right(r).lo = Mid(r) /\ Right(r).hi = r.hi
      /\ Left(r) \in Ranges /\ Right(r) \in Ranges
  BY <1>1, <1>2 DEF Left, Right, Ranges
<1>4. /\ \A i : i \in Span(Left(r)) <=> i \in Int /\ r.lo <= i /\ i < Mid(r)
      /\ \A i : i \in Span(Right(r)) <=> i \in Int /\ Mid(r) <= i /\ i < r.hi
      /\ \A i : i \in Span(r) <=> i \in Int /\ r.lo <= i /\ i < r.hi
  BY <1>1, <1>2, <1>3 DEF Span
<1>5. r.lo \in Span(Left(r)) /\ Mid(r) \in Span(Right(r))
  BY <1>1, <1>2, <1>4
<1>6. /\ Span(Left(r)) \cap Span(Right(r)) = {}
      /\ Span(Left(r)) \cup Span(Right(r)) = Span(r)
  BY <1>1, <1>2, <1>4
<1> QED BY <1>2, <1>3, <1>5, <1>6

(* What the type of the stacks and the deques says of their elements. *)
LEMMA Elements ==
  ASSUME TypeOK
  PROVE  /\ \A w \in Workers :
              /\ stack[w] \in Seq(Frame) /\ Len(stack[w]) \in Nat
              /\ DOMAIN stack[w] = 1..Len(stack[w])
              /\ \A k \in DOMAIN stack[w] : stack[w][k] \in Frame /\ stack[w][k].r \in Ranges
              /\ Busy(w) <=> Len(stack[w]) # 0
              /\ Busy(w) => Len(stack[w]) \in DOMAIN stack[w] /\ Top(w) \in Frame
         /\ \A w \in Workers :
              /\ deques[w] \in Seq(Ranges) /\ Len(deques[w]) \in Nat
              /\ DOMAIN deques[w] = 1..Len(deques[w])
              /\ \A d \in DOMAIN deques[w] : deques[w][d] \in Ranges
              /\ deques[w] = <<>> <=> Len(deques[w]) = 0
         /\ Granularity \in Nat /\ N \in Nat
<1>1. ASSUME NEW w \in Workers
      PROVE  /\ stack[w] \in Seq(Frame) /\ Len(stack[w]) \in Nat
             /\ DOMAIN stack[w] = 1..Len(stack[w])
             /\ \A k \in DOMAIN stack[w] : stack[w][k] \in Frame /\ stack[w][k].r \in Ranges
             /\ Busy(w) <=> Len(stack[w]) # 0
             /\ Busy(w) => Len(stack[w]) \in DOMAIN stack[w] /\ Top(w) \in Frame
  <2>1. stack[w] \in Seq(Frame)
    BY DEF TypeOK
  <2>2. /\ Len(stack[w]) \in Nat /\ DOMAIN stack[w] = 1..Len(stack[w])
        /\ \A k \in DOMAIN stack[w] : stack[w][k] \in Frame
        /\ stack[w] = <<>> <=> Len(stack[w]) = 0
    BY <2>1
  <2>3. \A c \in Frame : c.r \in Ranges
    BY DEF Frame
  <2> QED BY <2>1, <2>2, <2>3 DEF Busy, Top
<1>2. ASSUME NEW w \in Workers
      PROVE  /\ deques[w] \in Seq(Ranges) /\ Len(deques[w]) \in Nat
             /\ DOMAIN deques[w] = 1..Len(deques[w])
             /\ \A d \in DOMAIN deques[w] : deques[w][d] \in Ranges
             /\ deques[w] = <<>> <=> Len(deques[w]) = 0
  <2>1. deques[w] \in Seq(Ranges)
    BY DEF TypeOK
  <2> QED BY <2>1
<1> QED BY <1>1, <1>2, SchedulerAssumption

(* All of a sequence but its last element, and all but its first. *)
LEMMA Front ==
  ASSUME NEW S, NEW s \in Seq(S), NEW n \in Nat, n = Len(s), n # 0
  PROVE  /\ SubSeq(s, 1, n - 1) \in Seq(S) /\ Len(SubSeq(s, 1, n - 1)) = n - 1
         /\ \A k \in 1..(n - 1) : SubSeq(s, 1, n - 1)[k] = s[k]
<1>1. \A k \in 1..(n - 1) : s[k] \in S
  OBVIOUS
<1>2. SubSeq(s, 1, n - 1) \in Seq(S)
  BY <1>1
<1>3. Len(SubSeq(s, 1, n - 1)) = n - 1
  OBVIOUS
<1>4. \A k \in 1..(n - 1) : SubSeq(s, 1, n - 1)[k] = s[k]
  OBVIOUS
<1> QED BY <1>2, <1>3, <1>4

LEMMA Rest ==
  ASSUME NEW S, NEW s \in Seq(S), s # <<>>
  PROVE  /\ Tail(s) \in Seq(S) /\ Len(Tail(s)) = Len(s) - 1
         /\ \A k \in 1..(Len(s) - 1) : Tail(s)[k] = s[k + 1]
         /\ Head(s) = s[1] /\ 1 \in 1..Len(s) /\ Head(s) \in S
OBVIOUS

(* A call goes on: it is still the innermost of its worker. *)
LEMMA Becoming ==
  ASSUME TypeOK, NEW w \in Workers, Busy(w), NEW c \in Frame, Becomes(w, c)
  PROVE  /\ stack' \in [Workers -> Seq(Frame)]
         /\ \A u \in Workers :
              /\ DOMAIN stack'[u] = DOMAIN stack[u] /\ Len(stack'[u]) = Len(stack[u])
              /\ \A k \in DOMAIN stack[u] :
                   stack'[u][k] = IF u = w /\ k = Len(stack[w]) THEN c ELSE stack[u][k]
<1> DEFINE s == stack[w]
           n == Len(s)
           b == SubSeq(s, 1, n - 1)
<1>1. /\ stack \in [Workers -> Seq(Frame)] /\ s \in Seq(Frame) /\ n \in Nat /\ n # 0
      /\ stack' = [stack EXCEPT ![w] = Append(b, c)]
  BY Elements DEF TypeOK, Becomes, Under
<1> HIDE DEF s
<1>2. b \in Seq(Frame) /\ Len(b) = n - 1 /\ \A k \in 1..(n - 1) : b[k] = s[k]
  BY <1>1, Front
<1> HIDE DEF b
<1>3. /\ Append(b, c) \in Seq(Frame) /\ Len(Append(b, c)) = n /\ Append(b, c)[n] = c
      /\ \A k \in 1..(n - 1) : Append(b, c)[k] = s[k]
      /\ DOMAIN Append(b, c) = 1..n /\ DOMAIN s = 1..n
  BY <1>1, <1>2
<1> DEFINE a == Append(b, c)
<1>4. stack' = [stack EXCEPT ![w] = a] /\ a \in Seq(Frame)
  BY <1>1, <1>3
<1>5. /\ DOMAIN a = DOMAIN s /\ Len(a) = n
      /\ \A k \in DOMAIN s : a[k] = IF k = n THEN c ELSE s[k]
  <2>1. \A k \in 1..n : k = n \/ k \in 1..(n - 1)
    BY <1>1
  <2> QED BY <1>1, <1>3, <2>1
<1> HIDE DEF a, n
<1>6. stack' \in [Workers -> Seq(Frame)] /\ \A u \in Workers : stack'[u] = IF u = w THEN a ELSE stack[u]
  BY <1>1, <1>4
<1> QED BY <1>5, <1>6 DEF s, n

(* A call goes on and makes another one, which is the innermost then. *)
CallsOn(w, c, d) == stack' = [stack EXCEPT ![w] = Append(Append(Under(w), c), d)]

LEMMA Calling ==
  ASSUME TypeOK, NEW w \in Workers, Busy(w), NEW c \in Frame, NEW d \in Frame, NEW n, n = Len(stack[w]),
         CallsOn(w, c, d)
  PROVE  /\ stack' \in [Workers -> Seq(Frame)]
         /\ \A u \in Workers :
              /\ DOMAIN stack'[u] = IF u = w THEN 1..(n + 1) ELSE DOMAIN stack[u]
              /\ Len(stack'[u]) = IF u = w THEN n + 1 ELSE Len(stack[u])
              /\ \A k \in DOMAIN stack'[u] :
                   stack'[u][k] = IF u = w /\ k = n + 1 THEN d ELSE IF u = w /\ k = n THEN c ELSE stack[u][k]
<1> DEFINE s == stack[w]
           b == Append(SubSeq(s, 1, n - 1), c)
<1>1. /\ stack \in [Workers -> Seq(Frame)] /\ s \in Seq(Frame) /\ n \in Nat /\ n # 0 /\ n = Len(s)
      /\ stack' = [stack EXCEPT ![w] = Append(b, d)]
  BY Elements DEF TypeOK, Under, CallsOn
<1> HIDE DEF s
<1>2. /\ SubSeq(s, 1, n - 1) \in Seq(Frame) /\ Len(SubSeq(s, 1, n - 1)) = n - 1
      /\ \A k \in 1..(n - 1) : SubSeq(s, 1, n - 1)[k] = s[k]
  BY <1>1, Front
<1>3. /\ b \in Seq(Frame) /\ Len(b) = n /\ b[n] = c /\ \A k \in 1..(n - 1) : b[k] = s[k]
  BY <1>1, <1>2
<1> HIDE DEF b
<1>4. /\ Append(b, d) \in Seq(Frame) /\ Len(Append(b, d)) = n + 1 /\ Append(b, d)[n + 1] = d
      /\ Append(b, d)[n] = c /\ \A k \in 1..(n - 1) : Append(b, d)[k] = s[k]
      /\ DOMAIN Append(b, d) = 1..(n + 1)
  BY <1>1, <1>3
<1> DEFINE a == Append(b, d)
<1>5. stack' = [stack EXCEPT ![w] = a] /\ a \in Seq(Frame)
  BY <1>1, <1>4
<1>6. /\ DOMAIN a = 1..(n + 1) /\ Len(a) = n + 1
      /\ \A k \in DOMAIN a : a[k] = IF k = n + 1 THEN d ELSE IF k = n THEN c ELSE s[k]
  <2>1. \A k \in 1..(n + 1) : k = n + 1 \/ k = n \/ k \in 1..(n - 1)
    BY <1>1
  <2> QED BY <1>1, <1>4, <2>1
<1> HIDE DEF a
<1>7. stack' \in [Workers -> Seq(Frame)] /\ \A u \in Workers : stack'[u] = IF u = w THEN a ELSE stack[u]
  BY <1>1, <1>5
<1> QED BY <1>6, <1>7 DEF s

(* The innermost call returns. *)
Returns(w) == stack' = [stack EXCEPT ![w] = Under(w)]

LEMMA Returning ==
  ASSUME TypeOK, NEW w \in Workers, Busy(w), NEW n, n = Len(stack[w]), Returns(w)
  PROVE  /\ stack' \in [Workers -> Seq(Frame)]
         /\ \A u \in Workers :
              /\ DOMAIN stack'[u] = IF u = w THEN 1..(n - 1) ELSE DOMAIN stack[u]
              /\ Len(stack'[u]) = IF u = w THEN n - 1 ELSE Len(stack[u])
              /\ \A k \in DOMAIN stack'[u] : stack'[u][k] = stack[u][k]
<1> DEFINE s == stack[w]
           b == SubSeq(s, 1, n - 1)
<1>1. /\ stack \in [Workers -> Seq(Frame)] /\ s \in Seq(Frame) /\ n \in Nat /\ n # 0 /\ n = Len(s)
      /\ stack' = [stack EXCEPT ![w] = b]
  BY Elements DEF TypeOK, Under, Returns
<1> HIDE DEF s
<1>2. b \in Seq(Frame) /\ Len(b) = n - 1 /\ \A k \in 1..(n - 1) : b[k] = s[k]
  BY <1>1, Front
<1>3. DOMAIN b = 1..(n - 1)
  BY <1>1, <1>2
<1> HIDE DEF b
<1>4. stack' \in [Workers -> Seq(Frame)] /\ \A u \in Workers : stack'[u] = IF u = w THEN b ELSE stack[u]
  BY <1>1, <1>2
<1> QED BY <1>2, <1>3, <1>4 DEF s

-----------------------------------------------------------------------------
(***************************************************************************)
(* All of SchedulerInvariant but PopsItsOwnJob, which follows from it.     *)
(***************************************************************************)
Sound ==
  /\ TypeOK /\ OwnersAreApart /\ CallsAreNested /\ RanOnce /\ JobsInOrder
  /\ JobsDiffer /\ JobsAreKept /\ JobsOutlived /\ LoneWorkerNeverRolls

LEMMA GaveLess ==
  ASSUME NEW c, NEW P, NEW Q, GaveAway(c, P), Q \subseteq P
  PROVE  GaveAway(c, Q)
BY DEF GaveAway

(* A call that has split its range split one that has two halves. *)
LEMMA SplitCalls ==
  ASSUME Sound, NEW w \in Workers, NEW k \in DOMAIN stack[w], stack[w][k].at # "enter"
  PROVE  stack[w][k].r \in Ranges /\ Size(stack[w][k].r) > Granularity
BY Elements DEF Sound, CallsAreNested, HasItsPlace

LEMMA JobsNotEmpty ==
  ASSUME Sound, NEW w \in Workers, NEW d \in DOMAIN deques[w]
  PROVE  Span(deques[w][d]) # {}
<1>1. PICK k \in DOMAIN stack[w] : Pushed(stack[w][k]) /\ deques[w][d] = Right(stack[w][k].r)
  BY DEF Sound, JobsInOrder
<1> QED BY <1>1, SplitCalls, Halves DEF Pushed

(* What is in a deque is no call's range: no thief has it, and no thief had it. *)
LEMMA JobsAreNew ==
  ASSUME Sound, NEW w \in Workers, NEW d \in DOMAIN deques[w]
  PROVE  /\ deques[w][d] \notin done
         /\ \A v \in Workers : \A l \in DOMAIN stack[v] : stack[v][l].r # deques[w][d]
<1> DEFINE j == deques[w][d]
<1>1. PICK i : i \in Span(j)
  BY JobsNotEmpty
<1>2. ran[i] = 0
  BY <1>1 DEF Sound, RanOnce
<1>3. j \notin done
  BY <1>1, <1>2 DEF Sound, RanOnce, Covered, Span
<1>4. ASSUME NEW v \in Workers, NEW l \in DOMAIN stack[v], stack[v][l].r = j PROVE FALSE
  <2> DEFINE g == stack[v][l]
  <2>1. GaveAway(g, Span(j)) /\ Span(j) = Span(g.r)
    BY <1>4 DEF Sound, OwnersAreApart, CallsAreApart, CallsGaveJobsAway, JobsAreApart
  <2>2. g.at # "enter" /\ (Span(g.r) \subseteq Span(Left(g.r)) \/ Span(g.r) \subseteq Span(Right(g.r)))
    BY <1>1, <2>1 DEF GaveAway
  <2>3. g.r \in Ranges /\ Size(g.r) > Granularity
    BY <2>2, SplitCalls
  <2> HIDE DEF g
  <2> QED BY <2>2, <2>3, Halves
<1> QED BY <1>3, <1>4

(***************************************************************************)
(* pop_bottom gives a call its own job: if the youngest job in the deque   *)
(* were that of a call further out, the innermost call's job would have to *)
(* come after it.                                                          *)
(***************************************************************************)
LEMMA BottomIsOwn == Sound => PopsItsOwnJob
<1> SUFFICES ASSUME Sound, NEW w \in Workers, Busy(w), Top(w).at = "left", Top(w).in_deque,
                    deques[w] # <<>>
             PROVE  deques[w][Len(deques[w])] = Right(Top(w).r)
  BY DEF PopsItsOwnJob
<1> DEFINE n == Len(stack[w])
           m == Len(deques[w])
<1>1. /\ n \in Nat /\ n # 0 /\ DOMAIN stack[w] = 1..n /\ Top(w) = stack[w][n]
      /\ m \in Nat /\ m # 0 /\ DOMAIN deques[w] = 1..m
  BY Elements DEF Sound, Top
<1>2. m \in DOMAIN deques[w] /\ n \in DOMAIN stack[w]
  BY <1>1
<1>3. PICK k \in DOMAIN stack[w] :
        /\ deques[w][m] = Right(stack[w][k].r)
        /\ \A l \in (k + 1) .. n : Pushed(stack[w][l]) =>
             \E e \in (m + 1) .. m : deques[w][e] = Right(stack[w][l].r)
  BY <1>2 DEF Sound, JobsInOrder
<1>4. Pushed(stack[w][n])
  BY <1>1 DEF Pushed
<1> HIDE DEF n, m
<1>5. ~ \E e \in (m + 1) .. m : TRUE
  BY <1>1
<1>6. n \notin (k + 1) .. n
  BY <1>3, <1>4, <1>5
<1>7. k = n
  BY <1>1, <1>6
<1> QED BY <1>1, <1>3, <1>7 DEF m

-----------------------------------------------------------------------------
(***************************************************************************)
(* Steps that leave the deques alone and change neither a call's range nor *)
(* its job: what the jobs have to do with the calls stays as it is.        *)
(***************************************************************************)
Alike(c, d) ==
  /\ d.r = c.r /\ d.in_deque = c.in_deque /\ d.stolen = c.stolen
  /\ d.at = c.at \/ {c.at, d.at} \subseteq {"left", "wait", "steal"}

LEMMA JobsStay ==
  ASSUME Sound, UNCHANGED <<num_threads, deques, done>>,
         \A u \in Workers :
           /\ DOMAIN stack'[u] = DOMAIN stack[u] /\ Len(stack'[u]) = Len(stack[u])
           /\ \A k \in DOMAIN stack[u] : Alike(stack[u][k], stack'[u][k])
           /\ deques[u] # <<>> => \A k \in DOMAIN stack[u] : Pushed(stack'[u][k]) <=> Pushed(stack[u][k])
  PROVE  JobsInOrder' /\ JobsDiffer' /\ JobsAreKept' /\ JobsOutlived'
<1>1. Workers' = Workers /\ deques' = deques /\ done' = done
  BY DEF Workers
<1>2. ASSUME NEW w \in Workers PROVE \A r : r \in Forked(w)' <=> r \in Forked(w)
  <2>1. \A r : r \in Forked(w)' <=> \E k \in DOMAIN stack'[w] : /\ stack'[w][k].in_deque
          /\ stack'[w][k].at \in {"left", "wait", "steal"} /\ r = Right(stack'[w][k].r)
    BY DEF Forked
  <2>2. \A r : r \in Forked(w) <=> \E k \in DOMAIN stack[w] : /\ stack[w][k].in_deque
          /\ stack[w][k].at \in {"left", "wait", "steal"} /\ r = Right(stack[w][k].r)
    BY DEF Forked
  <2>3. \A k \in DOMAIN stack[w] :
          /\ stack'[w][k].in_deque = stack[w][k].in_deque /\ stack'[w][k].r = stack[w][k].r
          /\ stack'[w][k].at \in {"left", "wait", "steal"} <=> stack[w][k].at \in {"left", "wait", "steal"}
    BY DEF Alike
  <2> QED BY <2>1, <2>2, <2>3
<1>3. JobsInOrder'
  <2>1. ASSUME NEW w \in Workers, NEW d \in DOMAIN deques[w]
        PROVE  \E k \in DOMAIN stack'[w] :
                 /\ Pushed(stack'[w][k]) /\ deques[w][d] = Right(stack'[w][k].r)
                 /\ \A l \in (k + 1) .. Len(stack'[w]) : Pushed(stack'[w][l]) =>
                      \E e \in (d + 1) .. Len(deques[w]) : deques[w][e] = Right(stack'[w][l].r)
    <3>1. deques[w] # <<>>
      BY <2>1, Elements DEF Sound
    <3>2. PICK k \in DOMAIN stack[w] :
            /\ Pushed(stack[w][k]) /\ deques[w][d] = Right(stack[w][k].r)
            /\ \A l \in (k + 1) .. Len(stack[w]) : Pushed(stack[w][l]) =>
                 \E e \in (d + 1) .. Len(deques[w]) : deques[w][e] = Right(stack[w][l].r)
      BY DEF Sound, JobsInOrder
    <3>3. DOMAIN stack[w] = 1..Len(stack[w]) /\ Len(stack[w]) \in Nat
      BY Elements DEF Sound
    <3>4. \A l \in (k + 1) .. Len(stack[w]) : l \in DOMAIN stack[w]
      BY <3>3
    <3> QED BY <3>1, <3>2, <3>4 DEF Alike
  <2> QED BY <1>1, <2>1 DEF JobsInOrder
<1>4. JobsDiffer'
  BY <1>1 DEF Sound, JobsDiffer, Alike
<1>5. JobsAreKept'
  BY <1>1, <1>2 DEF Sound, JobsAreKept, Alike
<1>6. JobsOutlived'
  BY <1>1, <1>2 DEF Sound, JobsOutlived, Alike
<1> QED BY <1>3, <1>4, <1>5, <1>6

(* What a call owns and what it has behind it are indices of its range. *)
LEMMA CallSpans ==
  ASSUME Sound, NEW w \in Workers, NEW k \in DOMAIN stack[w]
  PROVE  LET c == stack[w][k]
         IN  /\ c \in Frame /\ c.r \in Ranges /\ HasItsPlace(c)
             /\ Span(c.r) \subseteq Indices /\ Own(c) \subseteq Span(c.r)
             /\ c.r.lo .. (c.next - 1) \subseteq Span(c.r)
             /\ c.at # "enter" => Left(c.r) \in Ranges /\ Right(c.r) \in Ranges
<1> DEFINE c == stack[w][k]
<1>1. c \in Frame /\ c.r \in Ranges /\ HasItsPlace(c)
  BY Elements DEF Sound, CallsAreNested
<1>2. /\ c.r.lo \in 0..N /\ c.r.hi \in 0..N /\ c.next \in 0..N /\ c.r.lo <= c.next /\ c.next <= c.r.hi
      /\ N \in Nat
  BY <1>1, SchedulerAssumption DEF Frame, Ranges, HasItsPlace
<1>3. c.at # "enter" => /\ Left(c.r) \in Ranges /\ Right(c.r) \in Ranges
                        /\ Span(Right(c.r)) \subseteq Span(c.r)
  BY <1>1, Halves DEF HasItsPlace
<1> HIDE DEF c
<1>4. /\ Span(c.r) \subseteq Indices /\ (c.next .. (c.r.hi - 1)) \subseteq Span(c.r)
      /\ (c.r.lo .. (c.next - 1)) \subseteq Span(c.r)
  BY <1>2 DEF Span, Indices
<1>5. Own(c) \subseteq Span(c.r)
  BY <1>3, <1>4 DEF Own
<1> QED BY <1>1, <1>3, <1>4, <1>5 DEF c

LEMMA RangeSpans ==
  ASSUME NEW r \in Ranges
  PROVE  /\ Span(r) \subseteq Indices
         /\ \A count : Covered(r, count) <=> \A i \in Span(r) : count[i] = 1
BY SchedulerAssumption DEF Ranges, Span, Indices, Covered

LEMMA JobsApartStay ==
  ASSUME JobsAreApart, UNCHANGED deques, Workers' = Workers
  PROVE  JobsAreApart'
BY DEF JobsAreApart

(* f(i) for the next index: nobody else will run it, and nobody has. *)
LEMMA RunIndexStep ==
  ASSUME Sound, NEW w \in Workers, RunIndex(w)
  PROVE  Sound'
<1> DEFINE n == Len(stack[w])
           c == Top(w)
           i == c.next
           c2 == [c EXCEPT !.next = @ + 1]
<1>1. /\ Busy(w) /\ c.at = "enter" /\ Size(c.r) <= Granularity /\ i < c.r.hi
      /\ ran' = [ran EXCEPT ![i] = @ + 1] /\ Becomes(w, c2)
      /\ UNCHANGED <<num_threads, deques, done>> /\ Workers' = Workers
  BY DEF RunIndex, Workers
<1>2. /\ TypeOK /\ n \in DOMAIN stack[w] /\ c = stack[w][n] /\ c \in Frame /\ c.r \in Ranges
      /\ HasItsPlace(c)
      /\ \A u \in Workers : DOMAIN stack[u] = 1..Len(stack[u]) /\ Len(stack[u]) \in Nat
  BY <1>1, Elements, CallSpans DEF Sound, Top
<1>3. /\ i \in Indices /\ c.r.lo <= i /\ i + 1 \in 0..N /\ i \in Int /\ c.r.hi \in Int /\ c.r.lo \in Int
      /\ i + 1 <= c.r.hi /\ c.r.lo <= i + 1
  BY <1>1, <1>2, SchedulerAssumption DEF HasItsPlace, Frame, Ranges, Indices
<1>4. /\ c2 \in Frame /\ c2.r = c.r /\ c2.at = "enter" /\ c2.in_deque = c.in_deque
      /\ c2.stolen = c.stolen /\ c2.next = i + 1
  BY <1>1, <1>2, <1>3 DEF Frame
<1> HIDE DEF c2
<1>5. stack' \in [Workers -> Seq(Frame)]
  BY <1>1, <1>2, <1>4, Becoming
<1>6. \A u \in Workers :
        /\ DOMAIN stack'[u] = DOMAIN stack[u] /\ Len(stack'[u]) = Len(stack[u])
        /\ \A k \in DOMAIN stack[u] : stack'[u][k] = IF u = w /\ k = n THEN c2 ELSE stack[u][k]
  BY <1>1, <1>2, <1>4, Becoming
<1>7. /\ Own(c2) \subseteq Own(c) /\ i \notin Own(c2) /\ i \in Own(c) /\ i \in Span(c.r)
  BY <1>1, <1>2, <1>3, <1>4 DEF Own, Span
<1>8. /\ ran[i] = 0 /\ ran \in [Indices -> Nat]
      /\ \A u \in Workers : \A k \in DOMAIN stack[u] : RanSoFar(stack[u][k], k = Len(stack[u]), ran)
  BY <1>2, <1>7 DEF Sound, RanOnce, RanSoFar, TypeOK
<1>9. /\ ran' \in [Indices -> Nat] /\ ran'[i] = 1
      /\ \A j \in Indices : j # i => ran'[j] = ran[j]
  BY <1>1, <1>3, <1>8
<1>10. TypeOK'
  BY <1>1, <1>2, <1>5, <1>9 DEF TypeOK
<1>11. /\ \A u \in Workers : \A k \in DOMAIN stack[u] :
            <<u, k>> # <<w, n>> => i \notin Own(stack[u][k])
       /\ \A u \in Workers : \A d \in DOMAIN deques[u] : i \notin Span(deques[u][d])
  <2>1. \A P : GaveAway(c, P) => i \notin P
    BY <1>1, <1>7 DEF GaveAway
  <2> QED BY <1>2, <2>1 DEF Sound, OwnersAreApart, CallsAreApart, CallsGaveJobsAway, JobsAreApart
<1>12. OwnersAreApart'
  <2>1. \A P : GaveAway(c, P) => GaveAway(c2, P)
    BY <1>1, <1>4 DEF GaveAway
  <2>2. \A g : GaveAway(g, Own(c)) => GaveAway(g, Own(c2))
    BY <1>7, GaveLess
  <2> HIDE DEF c, n
  <2>3. ASSUME NEW u \in Workers, NEW v \in Workers, NEW k \in DOMAIN stack[u], NEW l \in DOMAIN stack[v],
               <<u, k>> # <<v, l>>
        PROVE  GaveAway(stack'[v][l], Own(stack'[u][k]))
    <3>1. GaveAway(stack[v][l], Own(stack[u][k]))
      BY <2>3 DEF Sound, OwnersAreApart, CallsAreApart, CallsGaveJobsAway, JobsAreApart
    <3>2. CASE u = w /\ k = n
      BY <1>2, <1>6, <2>2, <2>3, <3>1, <3>2
    <3>3. CASE v = w /\ l = n
      BY <1>2, <1>6, <2>1, <2>3, <3>1, <3>3
    <3> QED BY <1>6, <3>1, <3>2, <3>3
  <2>4. ASSUME NEW u \in Workers, NEW v \in Workers, NEW d \in DOMAIN deques[u], NEW l \in DOMAIN stack[v]
        PROVE  GaveAway(stack'[v][l], Span(deques[u][d]))
    BY <1>2, <1>6, <2>1 DEF Sound, OwnersAreApart, CallsAreApart, CallsGaveJobsAway, JobsAreApart
  <2>5. CallsAreApart'
    BY <1>1, <1>6, <2>3 DEF CallsAreApart
  <2>6. CallsGaveJobsAway'
    BY <1>1, <1>6, <2>4 DEF CallsGaveJobsAway
  <2>7. JobsAreApart'
    BY <1>1, JobsApartStay DEF Sound, OwnersAreApart
  <2> QED BY <2>5, <2>6, <2>7 DEF OwnersAreApart
<1>13. CallsAreNested'
  <2>1. HasItsPlace(c2)
    BY <1>1, <1>2, <1>3, <1>4, SchedulerAssumption DEF HasItsPlace, Size
  <2> HIDE DEF c, i, n
  <2>2. ASSUME NEW u \in Workers, NEW k \in DOMAIN stack[u]
        PROVE  LET d == stack'[u][k]
               IN  /\ HasItsPlace(d)
                   /\ d.at \in {"enter", "steal"} => k = Len(stack'[u])
                   /\ k < Len(stack'[u]) => /\ d.at = "left" => stack'[u][k + 1].r = Left(d.r)
                                            /\ d.at = "right" => stack'[u][k + 1].r = Right(d.r)
    <3>1. LET d == stack[u][k]
          IN  /\ HasItsPlace(d)
              /\ d.at \in {"enter", "steal"} => k = Len(stack[u])
              /\ k < Len(stack[u]) => /\ d.at = "left" => stack[u][k + 1].r = Left(d.r)
                                      /\ d.at = "right" => stack[u][k + 1].r = Right(d.r)
      BY DEF Sound, CallsAreNested
    <3>2. /\ stack'[u][k].r = stack[u][k].r /\ stack'[u][k].at = stack[u][k].at
          /\ HasItsPlace(stack'[u][k]) /\ Len(stack'[u]) = Len(stack[u])
      BY <1>1, <1>2, <1>4, <1>6, <2>1, <3>1
    <3>3. k < Len(stack[u]) => stack'[u][k + 1].r = stack[u][k + 1].r
      <4>1. k < Len(stack[u]) => k + 1 \in DOMAIN stack[u]
        BY <1>2
      <4> QED BY <1>2, <1>4, <1>6, <4>1
    <3> QED BY <3>1, <3>2, <3>3
  <2> QED BY <1>1, <1>6, <2>2 DEF CallsAreNested
<1>14. \A r \in Ranges : Covered(r, ran) => Covered(r, ran')
  BY <1>8, <1>9, RangeSpans
<1>15. RanOnce'
  <2>1. ASSUME NEW u \in Workers, NEW k \in DOMAIN stack[u]
        PROVE  RanSoFar(stack'[u][k], k = Len(stack'[u]), ran')
    <3> DEFINE d == stack[u][k]
    <3>1. /\ Own(d) \subseteq Indices /\ d.r.lo .. (d.next - 1) \subseteq Indices
          /\ d.at # "enter" => Left(d.r) \in Ranges /\ Right(d.r) \in Ranges
          /\ RanSoFar(d, k = Len(stack[u]), ran) /\ Len(stack'[u]) = Len(stack[u])
      BY <1>6, <1>8, CallSpans
    <3>2. CASE u = w /\ k = n
      <4>1. d = c /\ stack'[u][k] = c2
        BY <1>2, <1>6, <3>2
      <4>2. (i + 1) - 1 = i /\ \A j \in c.r.lo .. i : j = i \/ j \in c.r.lo .. (i - 1)
        BY <1>3
      <4>3. \A j \in c.r.lo .. (i - 1) : j \in Indices /\ ran[j] = 1
        BY <1>1, <3>1, <4>1 DEF RanSoFar
      <4>4. \A j \in c.r.lo .. i : ran'[j] = 1
        BY <1>8, <1>9, <4>2, <4>3
      <4>5. \A j \in Own(c2) : j \in Indices /\ j # i /\ ran[j] = 0
        BY <1>7, <3>1, <4>1 DEF RanSoFar
      <4>6. \A j \in Own(c2) : ran'[j] = 0
        BY <1>9, <4>5
      <4> QED BY <1>4, <4>1, <4>2, <4>4, <4>6 DEF RanSoFar
    <3>3. CASE ~ (u = w /\ k = n)
      <4>1. stack'[u][k] = d /\ i \notin Own(d)
        BY <1>6, <1>11, <3>3
      <4> HIDE DEF d
      <4>2. RanSoFar(d, k = Len(stack[u]), ran')
        BY <1>8, <1>9, <1>14, <3>1, <4>1 DEF RanSoFar
      <4> QED BY <3>1, <4>1, <4>2
    <3> QED BY <3>2, <3>3
  <2>2. ASSUME NEW u \in Workers, NEW d \in DOMAIN deques[u], NEW j \in Span(deques[u][d])
        PROVE  ran'[j] = 0
    <3>1. j \in Indices /\ j # i /\ ran[j] = 0
      BY <1>2, <1>11, Elements, RangeSpans DEF Sound, RanOnce
    <3> QED BY <1>9, <3>1
  <2>3. \A r \in done : Covered(r, ran')
    BY <1>2, <1>14 DEF Sound, RanOnce, TypeOK
  <2>4. \A u \in Workers : DOMAIN stack'[u] = DOMAIN stack[u]
    BY <1>6
  <2> HIDE DEF c, n, i
  <2> QED BY <1>1, <2>1, <2>2, <2>3, <2>4 DEF RanOnce
<1>16. JobsInOrder' /\ JobsDiffer' /\ JobsAreKept' /\ JobsOutlived'
  <2>1. \A u \in Workers : \A k \in DOMAIN stack[u] :
          Alike(stack[u][k], stack'[u][k]) /\ (Pushed(stack'[u][k]) <=> Pushed(stack[u][k]))
    BY <1>1, <1>2, <1>4, <1>6 DEF Alike, Pushed
  <2> QED BY <1>1, <1>6, <2>1, JobsStay
<1>17. LoneWorkerNeverRolls'
  <2>1. num_threads = 1 => 0 \in Workers
    BY DEF Workers
  <2> QED BY <1>1, <1>2, <1>4, <1>6, <2>1 DEF Sound, LoneWorkerNeverRolls
<1> QED BY <1>10, <1>12, <1>13, <1>15, <1>16, <1>17 DEF Sound

(***************************************************************************)
(* The innermost call finds its job gone and waits, polls, or finds no     *)
(* work with a victim: it runs nothing and hands nothing on.               *)
(***************************************************************************)
LEMMA WaitStep ==
  ASSUME Sound, NEW w \in Workers, Busy(w), NEW p \in {"wait", "steal"},
         \/ Pushed(Top(w)) /\ deques[w] = <<>>
         \/ Top(w).at \in {"wait", "steal"},
         Becomes(w, [Top(w) EXCEPT !.at = p]),
         UNCHANGED <<num_threads, deques, done, ran>>, num_threads # 1
  PROVE  Sound'
<1> DEFINE n == Len(stack[w])
           c == Top(w)
           c2 == [c EXCEPT !.at = p]
<1>1. /\ TypeOK /\ n \in DOMAIN stack[w] /\ c = stack[w][n] /\ c \in Frame /\ c.r \in Ranges
      /\ HasItsPlace(c) /\ Workers' = Workers
      /\ \A u \in Workers : DOMAIN stack[u] = 1..Len(stack[u]) /\ Len(stack[u]) \in Nat
  BY Elements, CallSpans DEF Sound, Top, Workers
<1>2. /\ c2 \in Frame /\ c2.r = c.r /\ c2.at = p /\ c2.in_deque = c.in_deque
      /\ c2.stolen = c.stolen /\ c2.next = c.next
  BY <1>1 DEF Frame, Places
<1>3. /\ c.at \in {"left", "wait", "steal"} /\ Becomes(w, c2)
  BY DEF Pushed
<1> HIDE DEF c2
<1>4. stack' \in [Workers -> Seq(Frame)]
  BY <1>1, <1>2, <1>3, Becoming
<1>5. \A u \in Workers :
        /\ DOMAIN stack'[u] = DOMAIN stack[u] /\ Len(stack'[u]) = Len(stack[u])
        /\ \A k \in DOMAIN stack[u] : stack'[u][k] = IF u = w /\ k = n THEN c2 ELSE stack[u][k]
  BY <1>1, <1>2, <1>3, Becoming
<1>6. TypeOK'
  BY <1>1, <1>4 DEF TypeOK
<1>7. OwnersAreApart'
  <2>1. \A P : GaveAway(c, P) => GaveAway(c2, P)
    BY <1>2, <1>3 DEF GaveAway, Pushed
  <2>2. Own(c2) = {} /\ \A g : GaveAway(g, {})
    BY <1>2 DEF Own, GaveAway
  <2> HIDE DEF c, n
  <2>3. ASSUME NEW u \in Workers, NEW v \in Workers, NEW k \in DOMAIN stack[u], NEW l \in DOMAIN stack[v],
               <<u, k>> # <<v, l>>
        PROVE  GaveAway(stack'[v][l], Own(stack'[u][k]))
    <3>1. GaveAway(stack[v][l], Own(stack[u][k]))
      BY <2>3 DEF Sound, OwnersAreApart, CallsAreApart
    <3>2. CASE u = w /\ k = n
      BY <1>5, <2>2, <3>2
    <3>3. CASE v = w /\ l = n
      BY <1>1, <1>5, <2>1, <2>3, <3>1, <3>3
    <3> QED BY <1>5, <3>1, <3>2, <3>3
  <2>4. ASSUME NEW u \in Workers, NEW v \in Workers, NEW d \in DOMAIN deques[u], NEW l \in DOMAIN stack[v]
        PROVE  GaveAway(stack'[v][l], Span(deques[u][d]))
    BY <1>1, <1>5, <2>1 DEF Sound, OwnersAreApart, CallsGaveJobsAway
  <2>5. CallsAreApart'
    BY <1>1, <1>5, <2>3 DEF CallsAreApart
  <2>6. CallsGaveJobsAway'
    BY <1>1, <1>5, <2>4 DEF CallsGaveJobsAway
  <2>7. JobsAreApart'
    BY <1>1, JobsApartStay DEF Sound, OwnersAreApart
  <2> QED BY <2>5, <2>6, <2>7 DEF OwnersAreApart
<1>8. CallsAreNested'
  <2>1. HasItsPlace(c2)
    BY <1>1, <1>2, <1>3 DEF HasItsPlace, Size
  <2> HIDE DEF c, n
  <2>2. ASSUME NEW u \in Workers, NEW k \in DOMAIN stack[u]
        PROVE  LET d == stack'[u][k]
               IN  /\ HasItsPlace(d)
                   /\ d.at \in {"enter", "steal"} => k = Len(stack'[u])
                   /\ k < Len(stack'[u]) => /\ d.at = "left" => stack'[u][k + 1].r = Left(d.r)
                                            /\ d.at = "right" => stack'[u][k + 1].r = Right(d.r)
    <3>1. LET d == stack[u][k]
          IN  /\ HasItsPlace(d)
              /\ d.at \in {"enter", "steal"} => k = Len(stack[u])
              /\ k < Len(stack[u]) => /\ d.at = "left" => stack[u][k + 1].r = Left(d.r)
                                      /\ d.at = "right" => stack[u][k + 1].r = Right(d.r)
      BY DEF Sound, CallsAreNested
    <3>2. k < Len(stack[u]) => stack'[u][k + 1].r = stack[u][k + 1].r
      <4>1. k < Len(stack[u]) => k + 1 \in DOMAIN stack[u]
        BY <1>1
      <4> QED BY <1>1, <1>2, <1>5, <4>1
    <3>3. CASE u = w /\ k = n
      <4>1. stack'[u][k] = c2 /\ k = Len(stack'[u]) /\ ~ (k < Len(stack'[u]))
        BY <1>1, <1>5, <3>3 DEF n
      <4> HIDE DEF c2
      <4> QED BY <2>1, <4>1
    <3>4. CASE ~ (u = w /\ k = n)
      BY <1>5, <3>1, <3>2, <3>4
    <3> QED BY <3>3, <3>4
  <2> QED BY <1>1, <1>5, <2>2 DEF CallsAreNested
<1>9. RanOnce'
  <2>1. RanSoFar(c, TRUE, ran)
    BY <1>1 DEF Sound, RanOnce
  <2>2. Own(c2) = {}
    BY <1>2 DEF Own
  <2>3. RanSoFar(c2, TRUE, ran)
    BY <1>2, <1>3, <2>1, <2>2 DEF RanSoFar
  <2>4. ASSUME NEW u \in Workers, NEW k \in DOMAIN stack[u]
        PROVE  RanSoFar(stack'[u][k], k = Len(stack'[u]), ran)
    <3>1. CASE u = w /\ k = n
      <4>1. stack'[u][k] = c2 /\ (k = Len(stack'[u])) = TRUE
        BY <1>4, <1>5, <3>1
      <4> QED BY <2>3, <4>1
    <3>2. CASE ~ (u = w /\ k = n)
      BY <1>5, <3>2 DEF Sound, RanOnce
    <3> QED BY <3>1, <3>2
  <2> HIDE DEF c, n
  <2>5. \A u \in Workers : DOMAIN stack'[u] = DOMAIN stack[u]
    BY <1>5
  <2> QED BY <1>1, <2>4, <2>5 DEF Sound, RanOnce
<1>10. JobsInOrder' /\ JobsDiffer' /\ JobsAreKept' /\ JobsOutlived'
  <2>1. \A u \in Workers : \A k \in DOMAIN stack[u] :
          /\ Alike(stack[u][k], stack'[u][k])
          /\ deques[u] # <<>> => (Pushed(stack'[u][k]) <=> Pushed(stack[u][k]))
    BY <1>1, <1>2, <1>3, <1>5 DEF Alike, Pushed
  <2> QED BY <1>1, <1>5, <2>1, JobsStay
<1>11. LoneWorkerNeverRolls'
  BY DEF LoneWorkerNeverRolls
<1> QED BY <1>6, <1>7, <1>8, <1>9, <1>10, <1>11 DEF Sound

-----------------------------------------------------------------------------
(***************************************************************************)
(* The innermost call of w becomes c, and a call d on top of it begins: w  *)
(* splits its range, runs its second half, or runs a job it stole.  Part   *)
(* is what the innermost call, or a deque, owned of it before.  An idle    *)
(* worker has no innermost call.                                           *)
(***************************************************************************)
Grows(w, n, c, d) ==
  /\ w \in Workers /\ n = Len(stack[w]) /\ Workers' = Workers
  /\ d.r \in Ranges /\ d.at = "enter" /\ d.next = d.r.lo /\ HasItsPlace(d) /\ ~ d.in_deque
  /\ \A u \in Workers :
       /\ DOMAIN stack[u] = 1..Len(stack[u]) /\ Len(stack[u]) \in Nat
       /\ DOMAIN stack'[u] = IF u = w THEN 1..(n + 1) ELSE DOMAIN stack[u]
       /\ Len(stack'[u]) = IF u = w THEN n + 1 ELSE Len(stack[u])
       /\ \A k \in DOMAIN stack'[u] :
            stack'[u][k] = IF u = w /\ k = n + 1 THEN d ELSE IF u = w /\ k = n THEN c ELSE stack[u][k]

Others(w, n) == {p \in Workers \X Nat : p[2] \in DOMAIN stack[p[1]] /\ p # <<w, n>>}

LEMMA GrownFrames ==
  ASSUME NEW w, NEW n, NEW c, NEW d, Grows(w, n, c, d), NEW u \in Workers, NEW k \in DOMAIN stack'[u]
  PROVE  \/ u = w /\ k = n + 1 /\ stack'[u][k] = d
         \/ u = w /\ k = n /\ n # 0 /\ n \in DOMAIN stack[w] /\ stack'[u][k] = c
         \/ /\ <<u, k>> \in Others(w, n) /\ u \in Workers /\ k \in DOMAIN stack[u]
            /\ stack'[u][k] = stack[u][k] /\ Len(stack[u]) \in Nat /\ k \in Nat
            /\ u = w => k < n
<1>1. /\ n \in Nat /\ k \in Nat /\ k # 0 /\ Len(stack[u]) \in Nat
      /\ u # w => k \in DOMAIN stack[u]
      /\ u = w => k \in 1..(n + 1) /\ DOMAIN stack[u] = 1..n
  BY DEF Grows
<1>2. stack'[u][k] = IF u = w /\ k = n + 1 THEN d ELSE IF u = w /\ k = n THEN c ELSE stack[u][k]
  BY DEF Grows
<1>3. CASE u # w
  BY <1>1, <1>2, <1>3 DEF Others
<1>4. CASE u = w
  <2>1. k = n + 1 \/ (k = n /\ n \in DOMAIN stack[u]) \/ (k < n /\ k \in DOMAIN stack[u])
    BY <1>1, <1>4
  <2>2. CASE k < n
    BY <1>1, <1>2, <1>4, <2>1, <2>2 DEF Others
  <2> QED BY <1>1, <1>2, <1>4, <2>1, <2>2
<1> QED BY <1>3, <1>4

(* The other calls gave the part away, and d and c share it. *)
PassesOn(w, n, c, d, Part) ==
  /\ Span(d.r) \subseteq Part
  /\ n # 0 => /\ Own(c) \subseteq Part /\ GaveAway(c, Span(d.r)) /\ Own(c) \cap Span(d.r) = {}
              /\ \A P : GaveAway(stack[w][n], P) /\ P \cap Part = {} => GaveAway(c, P)
  /\ \A p \in Others(w, n) :
       GaveAway(stack[p[1]][p[2]], Part) /\ Own(stack[p[1]][p[2]]) \cap Part = {}

LEMMA GrownApart ==
  ASSUME Sound, NEW w, NEW n, NEW c, NEW d, Grows(w, n, c, d), NEW Part, PassesOn(w, n, c, d, Part)
  PROVE  CallsAreApart'
<1>0. /\ Span(d.r) \subseteq Part
      /\ n # 0 => /\ Own(c) \subseteq Part /\ GaveAway(c, Span(d.r)) /\ Own(c) \cap Span(d.r) = {}
                  /\ \A P : GaveAway(stack[w][n], P) /\ P \cap Part = {} => GaveAway(c, P)
      /\ \A p \in Others(w, n) :
           GaveAway(stack[p[1]][p[2]], Part) /\ Own(stack[p[1]][p[2]]) \cap Part = {}
  BY DEF PassesOn
<1>1. Own(d) = Span(d.r)
  BY DEF Grows, Own, Span
<1>2. ASSUME NEW u \in Workers, NEW v \in Workers, NEW k \in DOMAIN stack'[u], NEW l \in DOMAIN stack'[v],
             <<u, k>> # <<v, l>>
      PROVE  GaveAway(stack'[v][l], Own(stack'[u][k]))
  <2>1. CASE u = w /\ k = n + 1 /\ stack'[u][k] = d
    <3>1. CASE v = w /\ l = n /\ n # 0 /\ stack'[v][l] = c
      BY <1>0, <1>1, <2>1, <3>1
    <3>2. CASE <<v, l>> \in Others(w, n) /\ stack'[v][l] = stack[v][l]
      BY <1>0, <1>1, <2>1, <3>2, GaveLess
    <3> QED BY <1>2, <2>1, <3>1, <3>2, GrownFrames
  <2>2. CASE u = w /\ k = n /\ n # 0 /\ stack'[u][k] = c
    <3>1. CASE v = w /\ l = n + 1 /\ stack'[v][l] = d
      BY <1>0, <2>2, <3>1 DEF GaveAway
    <3>2. CASE <<v, l>> \in Others(w, n) /\ stack'[v][l] = stack[v][l]
      BY <1>0, <2>2, <3>2, GaveLess
    <3> QED BY <1>2, <2>2, <3>1, <3>2, GrownFrames
  <2>3. CASE /\ <<u, k>> \in Others(w, n) /\ stack'[u][k] = stack[u][k] /\ k \in DOMAIN stack[u]
    <3>1. Own(stack[u][k]) \cap Part = {}
      BY <1>0, <2>3
    <3>2. CASE v = w /\ l = n + 1 /\ stack'[v][l] = d
      BY <1>0, <2>3, <3>1, <3>2 DEF GaveAway
    <3>3. CASE v = w /\ l = n /\ n # 0 /\ n \in DOMAIN stack[w] /\ stack'[v][l] = c
      <4>1. GaveAway(stack[w][n], Own(stack[u][k]))
        BY <1>2, <2>3, <3>3 DEF Sound, OwnersAreApart, CallsAreApart
      <4> QED BY <1>0, <2>3, <3>1, <3>3, <4>1
    <3>4. CASE <<v, l>> \in Others(w, n) /\ stack'[v][l] = stack[v][l] /\ l \in DOMAIN stack[v]
      BY <1>2, <2>3, <3>4 DEF Sound, OwnersAreApart, CallsAreApart
    <3> QED BY <3>2, <3>3, <3>4, GrownFrames
  <2> QED BY <2>1, <2>2, <2>3, GrownFrames
<1> QED BY <1>2 DEF CallsAreApart, Grows

(* The jobs of the deques are apart from the calls if the new ones are. *)
JobsAreOutside(c, d, Part) ==
  \A u \in Workers : \A e \in DOMAIN deques'[u] :
    \/ /\ Span(deques'[u][e]) \cap Part = {}
       /\ \E f \in DOMAIN deques[u] : deques'[u][e] = deques[u][f]
    \/ /\ Span(deques'[u][e]) \subseteq Part /\ GaveAway(c, Span(deques'[u][e]))
       /\ Span(deques'[u][e]) \cap Span(d.r) = {}

LEMMA GrownGaveJobs ==
  ASSUME Sound, NEW w, NEW n, NEW c, NEW d, Grows(w, n, c, d), NEW Part, PassesOn(w, n, c, d, Part),
         JobsAreOutside(c, d, Part)
  PROVE  CallsGaveJobsAway'
<1>0. /\ n # 0 => \A P : GaveAway(stack[w][n], P) /\ P \cap Part = {} => GaveAway(c, P)
      /\ Span(d.r) \subseteq Part
      /\ \A p \in Others(w, n) : GaveAway(stack[p[1]][p[2]], Part)
  BY DEF PassesOn
<1>1. ASSUME NEW u \in Workers, NEW v \in Workers, NEW e \in DOMAIN deques'[u], NEW l \in DOMAIN stack'[v]
      PROVE  GaveAway(stack'[v][l], Span(deques'[u][e]))
  <2> DEFINE P == Span(deques'[u][e])
  <2>1. P \cap Span(d.r) = {} => GaveAway(d, P)
    BY DEF GaveAway
  <2> SUFFICES GaveAway(stack'[v][l], P)
    OBVIOUS
  <2> HIDE DEF P
  <2>0. \/ v = w /\ l = n + 1 /\ stack'[v][l] = d
        \/ v = w /\ l = n /\ n # 0 /\ n \in DOMAIN stack[w] /\ stack'[v][l] = c
        \/ <<v, l>> \in Others(w, n) /\ l \in DOMAIN stack[v] /\ stack'[v][l] = stack[v][l]
    BY GrownFrames
  <2>2. CASE P \cap Part = {} /\ \E f \in DOMAIN deques[u] : deques'[u][e] = deques[u][f]
    <3>1. \A g \in DOMAIN stack[v] : GaveAway(stack[v][g], P)
      BY <2>2 DEF Sound, OwnersAreApart, CallsGaveJobsAway, P
    <3>2. P \cap Span(d.r) = {}
      BY <1>0, <2>2
    <3>3. n # 0 /\ v = w /\ n \in DOMAIN stack[w] => GaveAway(c, P)
      BY <1>0, <2>2, <3>1
    <3> QED BY <2>0, <2>1, <3>1, <3>2, <3>3
  <2>3. CASE P \subseteq Part /\ GaveAway(c, P) /\ P \cap Span(d.r) = {}
    <3>1. <<v, l>> \in Others(w, n) => GaveAway(stack[v][l], P)
      BY <1>0, <2>3, GaveLess
    <3> QED BY <2>0, <2>1, <2>3, <3>1
  <2> QED BY <2>2, <2>3 DEF P, JobsAreOutside
<1> QED BY <1>1 DEF CallsGaveJobsAway, Grows

(* The new call is on the half that the one below it says it is on. *)
LEMMA GrownNested ==
  ASSUME Sound, NEW w, NEW n, NEW c, NEW d, Grows(w, n, c, d),
         n # 0 => /\ HasItsPlace(c) /\ c.at \in {"left", "right", "wait"} /\ c.r = stack[w][n].r
                  /\ c.at = "left" => d.r = Left(c.r)
                  /\ c.at = "right" => d.r = Right(c.r)
  PROVE  CallsAreNested'
<1>1. ASSUME NEW u \in Workers, NEW k \in DOMAIN stack'[u]
      PROVE  LET g == stack'[u][k]
             IN  /\ HasItsPlace(g)
                 /\ g.at \in {"enter", "steal"} => k = Len(stack'[u])
                 /\ k < Len(stack'[u]) => /\ g.at = "left" => stack'[u][k + 1].r = Left(g.r)
                                          /\ g.at = "right" => stack'[u][k + 1].r = Right(g.r)
  <2>1. /\ n \in Nat /\ DOMAIN stack'[w] = 1..(n + 1) /\ Len(stack'[w]) = n + 1 /\ stack'[w][n + 1] = d
        /\ DOMAIN stack[w] = 1..n /\ HasItsPlace(d)
    BY DEF Grows
  <2>2. CASE u = w /\ k = n + 1 /\ stack'[u][k] = d
    BY <2>1, <2>2
  <2>3. CASE u = w /\ k = n /\ n # 0 /\ stack'[u][k] = c
    <3>1. k < Len(stack'[u]) /\ stack'[u][k + 1] = d
      BY <2>1, <2>3
    <3> QED BY <2>3, <3>1
  <2>4. CASE /\ stack'[u][k] = stack[u][k] /\ k \in DOMAIN stack[u] /\ Len(stack[u]) \in Nat /\ k \in Nat
             /\ u = w => k < n
    <3>1. LET g == stack[u][k]
          IN  /\ HasItsPlace(g)
              /\ g.at \in {"enter", "steal"} => k = Len(stack[u])
              /\ k < Len(stack[u]) => /\ g.at = "left" => stack[u][k + 1].r = Left(g.r)
                                      /\ g.at = "right" => stack[u][k + 1].r = Right(g.r)
      BY <2>4 DEF Sound, CallsAreNested
    <3>2. CASE u # w
      <4>1. Len(stack'[u]) = Len(stack[u]) /\ DOMAIN stack'[u] = 1..Len(stack[u])
        BY <3>2 DEF Grows
      <4>2. k < Len(stack[u]) => k + 1 \in DOMAIN stack'[u]
        BY <2>4, <4>1
      <4>3. k < Len(stack[u]) => stack'[u][k + 1] = stack[u][k + 1]
        BY <3>2, <4>2 DEF Grows
      <4> QED BY <2>4, <3>1, <4>1, <4>3
    <3>3. CASE u = w
      <4>1. k < Len(stack[u]) /\ k + 1 \in 1..n /\ k + 1 \in DOMAIN stack'[u]
        BY <2>1, <2>4, <3>3 DEF Grows
      <4>2. stack'[u][k + 1].r = stack[u][k + 1].r
        <5>1. CASE k + 1 = n
          <6>1. n # 0 /\ n # n + 1 /\ stack'[w][n] = c
            BY <2>1, <3>3, <4>1, <5>1 DEF Grows
          <6> QED BY <3>3, <5>1, <6>1
        <5>2. CASE k + 1 # n
          <6>1. k + 1 # n + 1
            BY <2>1, <4>1
          <6> QED BY <3>3, <4>1, <5>2, <6>1 DEF Grows
        <5> QED BY <5>1, <5>2
      <4> QED BY <2>1, <2>4, <3>1, <3>3, <4>1, <4>2
    <3> QED BY <3>2, <3>3
  <2>5. \/ u = w /\ k = n + 1 /\ stack'[u][k] = d
        \/ u = w /\ k = n /\ n # 0 /\ n \in DOMAIN stack[w] /\ stack'[u][k] = c
        \/ /\ <<u, k>> \in Others(w, n) /\ u \in Workers /\ k \in DOMAIN stack[u]
           /\ stack'[u][k] = stack[u][k] /\ Len(stack[u]) \in Nat /\ k \in Nat
           /\ u = w => k < n
    BY GrownFrames
  <2> QED BY <2>2, <2>3, <2>4, <2>5
<1> QED BY <1>1 DEF CallsAreNested, Grows

LEMMA GrownRan ==
  ASSUME Sound, NEW w, NEW n, NEW c, NEW d, Grows(w, n, c, d), UNCHANGED <<ran, done>>,
         n # 0 => RanSoFar(c, FALSE, ran),
         \A i \in Span(d.r) : ran[i] = 0,
         \A u \in Workers : \A e \in DOMAIN deques'[u] : \A i \in Span(deques'[u][e]) : ran[i] = 0
  PROVE  RanOnce'
<1>1. RanSoFar(d, TRUE, ran)
  <2>1. d.r.lo \in Int /\ d.at = "enter" /\ d.next = d.r.lo /\ Own(d) = Span(d.r)
    BY SchedulerAssumption DEF Grows, Own, Span, Ranges
  <2>2. d.r.lo .. (d.next - 1) = {}
    BY <2>1
  <2> QED BY <2>1, <2>2 DEF RanSoFar
<1>2. ASSUME NEW u \in Workers, NEW k \in DOMAIN stack'[u]
      PROVE  RanSoFar(stack'[u][k], k = Len(stack'[u]), ran)
  <2>1. /\ n \in Nat /\ Len(stack'[w]) = n + 1 /\ Len(stack[w]) = n
        /\ u # w => Len(stack'[u]) = Len(stack[u])
    BY DEF Grows
  <2>2. CASE u = w /\ k = n + 1 /\ stack'[u][k] = d
    <3>1. (k = Len(stack'[u])) = TRUE
      BY <2>1, <2>2
    <3> QED BY <1>1, <2>2, <3>1
  <2>3. CASE u = w /\ k = n /\ n # 0 /\ stack'[u][k] = c
    <3>1. (k = Len(stack'[u])) = FALSE
      BY <2>1, <2>3
    <3> QED BY <2>3, <3>1
  <2>4. CASE /\ stack'[u][k] = stack[u][k] /\ k \in DOMAIN stack[u] /\ Len(stack[u]) \in Nat /\ k \in Nat
             /\ u = w => k < n
    <3>1. (k = Len(stack'[u])) = (k = Len(stack[u]))
      BY <2>1, <2>4
    <3> QED BY <2>4, <3>1 DEF Sound, RanOnce
  <2>5. \/ u = w /\ k = n + 1 /\ stack'[u][k] = d
        \/ u = w /\ k = n /\ n # 0 /\ n \in DOMAIN stack[w] /\ stack'[u][k] = c
        \/ /\ <<u, k>> \in Others(w, n) /\ u \in Workers /\ k \in DOMAIN stack[u]
           /\ stack'[u][k] = stack[u][k] /\ Len(stack[u]) \in Nat /\ k \in Nat
           /\ u = w => k < n
    BY GrownFrames
  <2> QED BY <2>2, <2>3, <2>4, <2>5
<1>3. \A r \in done : Covered(r, ran)
  BY DEF Sound, RanOnce
<1> QED BY <1>2, <1>3 DEF RanOnce, Grows

(* The job of c is its own, and so is the theft of d. *)
LEMMA GrownJobs ==
  ASSUME Sound, NEW w, NEW n, NEW c, NEW d, Grows(w, n, c, d),
         n # 0 => c.r = stack[w][n].r /\ c.stolen = stack[w][n].stolen,
         \A p \in Others(w, n) : LET g == stack[p[1]][p[2]] IN g.at # "enter" /\ n # 0 => Right(g.r) # Right(c.r),
         d.stolen => \A u \in Workers : \A k \in DOMAIN stack[u] : stack[u][k].r # d.r
  PROVE  JobsDiffer'
<1> DEFINE Differ(a, b) == /\ a.at # "enter" /\ b.at # "enter" => Right(a.r) # Right(b.r)
                           /\ a.stolen /\ b.stolen => a.r # b.r
<1>1. ASSUME NEW u \in Workers, NEW v \in Workers, NEW k \in DOMAIN stack'[u], NEW l \in DOMAIN stack'[v],
             <<u, k>> # <<v, l>>
      PROVE  Differ(stack'[u][k], stack'[v][l])
  <2>1. d.at = "enter" /\ (d.stolen => (n # 0 /\ n \in DOMAIN stack[w] => c.r # d.r))
    BY DEF Grows
  <2>2. ASSUME NEW x \in Workers, NEW m \in DOMAIN stack[x], <<x, m>> \in Others(w, n)
        PROVE  /\ Differ(d, stack[x][m]) /\ Differ(stack[x][m], d)
               /\ n # 0 /\ n \in DOMAIN stack[w] => Differ(c, stack[x][m]) /\ Differ(stack[x][m], c)
    <3>1. d.stolen => stack[x][m].r # d.r
      OBVIOUS
    <3>2. stack[x][m].at # "enter" /\ n # 0 => Right(stack[x][m].r) # Right(c.r)
      BY <2>2
    <3>3. n # 0 /\ n \in DOMAIN stack[w] /\ stack[x][m].stolen /\ c.stolen => stack[x][m].r # c.r
      <4>1. <<w, n>> # <<x, m>> /\ w \in Workers
        BY <2>2 DEF Others, Grows
      <4> QED BY <4>1 DEF Sound, JobsDiffer
    <3> QED BY <2>1, <3>1, <3>2, <3>3
  <2>3. CASE /\ <<u, k>> \in Others(w, n) /\ stack'[u][k] = stack[u][k] /\ k \in DOMAIN stack[u]
             /\ <<v, l>> \in Others(w, n) /\ stack'[v][l] = stack[v][l] /\ l \in DOMAIN stack[v]
    <3>1. Differ(stack[u][k], stack[v][l])
      BY <1>1, <2>3 DEF Sound, JobsDiffer
    <3> QED BY <2>3, <3>1
  <2>4. n # 0 /\ n \in DOMAIN stack[w] => Differ(c, d) /\ Differ(d, c)
    BY <2>1
  <2> HIDE DEF Differ
  <2>5. \/ u = w /\ k = n + 1 /\ stack'[u][k] = d
        \/ u = w /\ k = n /\ n # 0 /\ n \in DOMAIN stack[w] /\ stack'[u][k] = c
        \/ <<u, k>> \in Others(w, n) /\ k \in DOMAIN stack[u] /\ stack'[u][k] = stack[u][k]
    BY GrownFrames
  <2>6. \/ v = w /\ l = n + 1 /\ stack'[v][l] = d
        \/ v = w /\ l = n /\ n # 0 /\ n \in DOMAIN stack[w] /\ stack'[v][l] = c
        \/ <<v, l>> \in Others(w, n) /\ l \in DOMAIN stack[v] /\ stack'[v][l] = stack[v][l]
    BY GrownFrames
  <2> QED BY <1>1, <2>2, <2>3, <2>4, <2>5, <2>6
<1> QED BY <1>1 DEF JobsDiffer, Grows

(* push_bottom. *)
Pushes(w, r) == deques' = [deques EXCEPT ![w] = Append(@, r)]

LEMMA Pushing ==
  ASSUME TypeOK, NEW w \in Workers, NEW r \in Ranges, NEW m, m = Len(deques[w]), Pushes(w, r)
  PROVE  /\ m \in Nat /\ deques' \in [Workers -> Seq(Ranges)] /\ DOMAIN deques'[w] = 1..(m + 1)
         /\ Len(deques'[w]) = m + 1
         /\ DOMAIN deques[w] = 1..m /\ deques'[w][m + 1] = r
         /\ \A e \in 1..m : deques'[w][e] = deques[w][e]
         /\ \A u \in Workers \ {w} : deques'[u] = deques[u]
<1> DEFINE s == deques[w]
           a == Append(s, r)
<1>1. /\ deques \in [Workers -> Seq(Ranges)] /\ s \in Seq(Ranges) /\ m = Len(s)
      /\ deques' = [deques EXCEPT ![w] = a]
  BY DEF TypeOK, Pushes
<1> HIDE DEF s
<1>2. /\ a \in Seq(Ranges) /\ DOMAIN a = 1..(m + 1) /\ Len(a) = m + 1 /\ a[m + 1] = r /\ m \in Nat
      /\ DOMAIN s = 1..m /\ \A e \in 1..m : a[e] = s[e]
  BY <1>1
<1> HIDE DEF a
<1>3. deques' \in [Workers -> Seq(Ranges)] /\ deques'[w] = a /\ \A u \in Workers \ {w} : deques'[u] = deques[u]
  BY <1>1, <1>2
<1> QED BY <1>2, <1>3 DEF s

(* A job whose range nobody owns but the caller is no job yet of any other call. *)
LEMMA ForksNew ==
  ASSUME Sound, NEW w \in Workers, NEW k \in DOMAIN stack[w], stack[w][k].at # "enter",
         NEW r \in Ranges, Size(r) > Granularity, GaveAway(stack[w][k], Span(r))
  PROVE  Right(stack[w][k].r) # Right(r)
<1> DEFINE g == stack[w][k]
<1>1. g.r \in Ranges /\ Size(g.r) > Granularity /\ GaveAway(g, Span(r))
  BY SplitCalls
<1> HIDE DEF g
<1>2. /\ Span(Right(r)) # {} /\ Span(Left(r)) # {} /\ Span(Left(r)) \cap Span(Right(r)) = {}
      /\ Span(Right(r)) \subseteq Span(r) /\ Span(Left(r)) \subseteq Span(r)
  BY Halves
<1>3. Span(Left(g.r)) \cap Span(Right(g.r)) = {} /\ Span(Right(g.r)) \subseteq Span(g.r)
  BY <1>1, Halves
<1>4. Right(g.r) # Right(r)
  BY <1>1, <1>2, <1>3 DEF GaveAway
<1> QED BY <1>4 DEF g

(***************************************************************************)
(* parallel_do: the call keeps the right half or puts it into the deque,   *)
(* and the call it makes gets the left half.                               *)
(***************************************************************************)
LEMMA SplitStep ==
  ASSUME Sound, NEW w \in Workers, Split(w)
  PROVE  Sound'
<1> DEFINE n == Len(stack[w])
           m == Len(deques[w])
           c == Top(w)
           j == Right(c.r)
           d == Call(Left(c.r), FALSE)
<1>1. PICK b \in BOOLEAN :
        /\ deques' = IF b THEN [deques EXCEPT ![w] = Append(@, j)] ELSE deques
        /\ Calls(w, [c EXCEPT !.at = "left", !.in_deque = b], Left(c.r))
  BY DEF Split
<1> DEFINE c2 == [c EXCEPT !.at = "left", !.in_deque = b]
<1>2. /\ Busy(w) /\ c.at = "enter" /\ Size(c.r) > Granularity /\ UNCHANGED <<num_threads, done, ran>>
      /\ Workers' = Workers /\ stack' = [stack EXCEPT ![w] = Append(Append(Under(w), c2), d)]
  BY <1>1 DEF Split, Calls, Workers
<1>3. /\ TypeOK /\ n \in DOMAIN stack[w] /\ n # 0 /\ n \in Nat /\ c = stack[w][n] /\ c \in Frame /\ c.r \in Ranges
      /\ HasItsPlace(c) /\ c.next = c.r.lo
      /\ \A u \in Workers : DOMAIN stack[u] = 1..Len(stack[u]) /\ Len(stack[u]) \in Nat
  BY <1>2, Elements, CallSpans DEF Sound, Top, HasItsPlace
<1>4. /\ Left(c.r) \in Ranges /\ j \in Ranges /\ Span(Left(c.r)) \cap Span(j) = {}
      /\ Span(Left(c.r)) \cup Span(j) = Span(c.r) /\ Span(j) # {}
      /\ c.r.lo < Mid(c.r) /\ Mid(c.r) < c.r.hi /\ Mid(c.r) \in Int /\ Left(c.r).lo = c.r.lo /\ Left(c.r).hi = Mid(c.r)
  BY <1>2, <1>3, Halves DEF Left
<1>5. /\ c2 \in Frame /\ c2.r = c.r /\ c2.at = "left" /\ c2.in_deque = b /\ c2.stolen = c.stolen /\ c2.next = c.next
  BY <1>3 DEF Frame, Places
<1>6. /\ d \in Frame /\ d.r = Left(c.r) /\ d.at = "enter" /\ ~ d.in_deque /\ ~ d.stolen /\ d.next = d.r.lo
  BY <1>4 DEF Frame, Places, Call, Ranges
<1> HIDE DEF d, c2
<1>7. HasItsPlace(d) /\ HasItsPlace(c2)
  <2>1. HasItsPlace(d)
    <3>1. d.r.lo \in Int /\ d.r.lo <= d.next /\ d.next <= d.r.hi
      BY <1>3, <1>4, <1>6 DEF Ranges
    <3> QED BY <1>6, <3>1 DEF HasItsPlace
  <2>2. HasItsPlace(c2)
    BY <1>2, <1>3, <1>5 DEF HasItsPlace
  <2> QED BY <2>1, <2>2
<1>8. stack' \in [Workers -> Seq(Frame)] /\ Grows(w, n, c2, d)
  <2> HIDE DEF n
  <2>1. /\ stack' \in [Workers -> Seq(Frame)]
        /\ \A u \in Workers :
             /\ DOMAIN stack'[u] = IF u = w THEN 1..(n + 1) ELSE DOMAIN stack[u]
             /\ Len(stack'[u]) = IF u = w THEN n + 1 ELSE Len(stack[u])
             /\ \A k \in DOMAIN stack'[u] :
                  stack'[u][k] = IF u = w /\ k = n + 1 THEN d ELSE IF u = w /\ k = n THEN c2 ELSE stack[u][k]
    <3>1. n = Len(stack[w])
      BY DEF n
    <3>2. TypeOK /\ Busy(w) /\ c2 \in Frame /\ d \in Frame
      BY <1>2, <1>3, <1>5, <1>6
    <3>3. CallsOn(w, c2, d)
      BY <1>2 DEF CallsOn
    <3> QED BY <3>1, <3>2, <3>3, Calling
  <2>2. n = Len(stack[w])
    BY DEF n
  <2> QED BY <1>2, <1>3, <1>4, <1>6, <1>7, <2>1, <2>2 DEF Grows
<1>0. ASSUME NEW u \in Workers, NEW k \in DOMAIN stack'[u]
      PROVE  \/ u = w /\ k = n + 1 /\ stack'[u][k] = d
             \/ u = w /\ k = n /\ n # 0 /\ n \in DOMAIN stack[w] /\ stack'[u][k] = c2
             \/ /\ <<u, k>> \in Others(w, n) /\ u \in Workers /\ k \in DOMAIN stack[u]
                /\ stack'[u][k] = stack[u][k] /\ Len(stack[u]) \in Nat /\ k \in Nat
                /\ u = w => k < n
  BY <1>8, GrownFrames
<1>9. Own(c) = Span(c.r) /\ Own(c2) = IF b THEN {} ELSE Span(j)
  BY <1>2, <1>3, <1>5 DEF Own, Span
<1>10. \A i \in Span(c.r) : ran[i] = 0
  <2>1. RanSoFar(c, TRUE, ran)
    BY <1>3 DEF Sound, RanOnce
  <2> QED BY <1>9, <2>1 DEF RanSoFar
<1>11. \A p \in Others(w, n) : LET g == stack[p[1]][p[2]] IN
         /\ GaveAway(g, Span(c.r)) /\ Own(g) \cap Span(c.r) = {}
         /\ g.at # "enter" => Right(g.r) # j
  <2> TAKE p \in Others(w, n)
  <2> DEFINE g == stack[p[1]][p[2]]
  <2>1. p[1] \in Workers /\ p[2] \in DOMAIN stack[p[1]] /\ <<w, n>> # <<p[1], p[2]>>
    BY DEF Others
  <2>2. GaveAway(g, Own(c)) /\ GaveAway(c, Own(g))
    BY <1>3, <2>1 DEF Sound, OwnersAreApart, CallsAreApart
  <2>3. g.at # "enter" => Right(g.r) # j
    BY <1>2, <1>3, <1>9, <2>1, <2>2, ForksNew
  <2> HIDE DEF c, g
  <2>4. Own(g) \cap Span(c.r) = {}
    BY <1>2, <2>2 DEF GaveAway
  <2> QED BY <1>9, <2>2, <2>3, <2>4 DEF g
<1>12. \A P : GaveAway(c, P) => P \cap Span(c.r) = {} /\ GaveAway(c2, P)
  BY <1>2, <1>5 DEF GaveAway
<1>13. GaveAway(c2, Span(d.r)) /\ (b => GaveAway(c2, Span(j)))
  BY <1>5, <1>6 DEF GaveAway
<1>14. /\ \A u \in Workers : \A e \in DOMAIN deques[u] : Span(deques[u][e]) \cap Span(c.r) = {}
  BY <1>3, <1>12 DEF Sound, OwnersAreApart, CallsGaveJobsAway
<1>15. /\ deques' \in [Workers -> Seq(Ranges)] /\ m \in Nat /\ DOMAIN deques[w] = 1..m
       /\ \A u \in Workers \ {w} : deques'[u] = deques[u]
       /\ ~ b => deques' = deques
       /\ b => /\ DOMAIN deques'[w] = 1..(m + 1) /\ Len(deques'[w]) = m + 1 /\ deques'[w][m + 1] = j
               /\ \A e \in 1..m : deques'[w][e] = deques[w][e]
  <2> HIDE DEF c, j
  <2>1. CASE b
    <3>1. Pushes(w, j)
      BY <1>1, <2>1 DEF Pushes
    <3>2. TypeOK /\ j \in Ranges /\ m = Len(deques[w])
      BY <1>3, <1>4
    <3> HIDE DEF m, n
    <3>3. /\ m \in Nat /\ deques' \in [Workers -> Seq(Ranges)] /\ DOMAIN deques'[w] = 1..(m + 1)
          /\ Len(deques'[w]) = m + 1
          /\ DOMAIN deques[w] = 1..m /\ deques'[w][m + 1] = j
          /\ \A e \in 1..m : deques'[w][e] = deques[w][e]
          /\ \A u \in Workers \ {w} : deques'[u] = deques[u]
      BY <3>1, <3>2, Pushing
    <3> QED BY <2>1, <3>3
  <2>2. CASE ~ b
    <3>1. deques' = deques
      BY <1>1, <2>2
    <3> QED BY <1>3, <2>2, <3>1, Elements DEF TypeOK
  <2> QED BY <2>1, <2>2
<1> HIDE DEF c, n, j
<1>16. \A u \in Workers : \A e \in DOMAIN deques'[u] :
         \/ e \in DOMAIN deques[u] /\ deques'[u][e] = deques[u][e]
         \/ b /\ u = w /\ e = m + 1 /\ deques'[u][e] = j
  <2>1. \A e \in 1..(m + 1) : e = m + 1 \/ e \in 1..m
    BY <1>15
  <2> HIDE DEF m
  <2> QED BY <1>15, <2>1
<1> HIDE DEF m
<1>17. TypeOK'
  BY <1>2, <1>3, <1>8, <1>15 DEF TypeOK
<1>30. PassesOn(w, n, c2, d, Span(c.r))
  <2>1. /\ Span(d.r) \subseteq Span(c.r) /\ Own(c2) \subseteq Span(c.r) /\ Own(c2) \cap Span(d.r) = {}
    BY <1>4, <1>6, <1>9
  <2>2. n # 0 => /\ Own(c2) \subseteq Span(c.r) /\ GaveAway(c2, Span(d.r)) /\ Own(c2) \cap Span(d.r) = {}
                 /\ \A P : GaveAway(stack[w][n], P) /\ P \cap Span(c.r) = {} => GaveAway(c2, P)
    BY <1>3, <1>12, <1>13, <2>1
  <2>3. \A p \in Others(w, n) : GaveAway(stack[p[1]][p[2]], Span(c.r)) /\ Own(stack[p[1]][p[2]]) \cap Span(c.r) = {}
    BY <1>11
  <2> QED BY <2>1, <2>2, <2>3 DEF PassesOn
<1>18. CallsAreApart'
  BY <1>8, <1>30, GrownApart
<1>19. CallsGaveJobsAway'
  <2>1. JobsAreOutside(c2, d, Span(c.r))
    BY <1>4, <1>6, <1>13, <1>14, <1>16 DEF JobsAreOutside
  <2> QED BY <1>8, <1>30, <2>1, GrownGaveJobs
<1>20. JobsAreApart'
  <2>1. Span(j) \subseteq Span(c.r)
    BY <1>4
  <2>2. ASSUME NEW u \in Workers, NEW v \in Workers, NEW e \in DOMAIN deques'[u], NEW f \in DOMAIN deques'[v],
               <<u, e>> # <<v, f>>
        PROVE  Span(deques'[u][e]) \cap Span(deques'[v][f]) = {}
    <3>1. CASE e \in DOMAIN deques[u] /\ deques'[u][e] = deques[u][e] /\ f \in DOMAIN deques[v] /\ deques'[v][f] = deques[v][f]
      BY <2>2, <3>1 DEF Sound, OwnersAreApart, JobsAreApart
    <3>2. CASE e \in DOMAIN deques[u] /\ deques'[u][e] = deques[u][e] /\ deques'[v][f] = j
      BY <1>14, <2>1, <3>2
    <3>3. CASE deques'[u][e] = j /\ f \in DOMAIN deques[v] /\ deques'[v][f] = deques[v][f]
      BY <1>14, <2>1, <3>3
    <3> QED BY <1>16, <2>2, <3>1, <3>2, <3>3
  <2> QED BY <1>2, <2>2 DEF JobsAreApart
<1>21. CallsAreNested'
  BY <1>3, <1>5, <1>6, <1>7, <1>8, GrownNested
<1>22. RanOnce'
  <2>1. RanSoFar(c2, FALSE, ran)
    BY <1>4, <1>5, <1>9, <1>10 DEF RanSoFar
  <2>2. \A i \in Span(d.r) : ran[i] = 0
    BY <1>4, <1>6, <1>10
  <2>3. \A u \in Workers : \A e \in DOMAIN deques'[u] : \A i \in Span(deques'[u][e]) : ran[i] = 0
    BY <1>4, <1>10, <1>16 DEF Sound, RanOnce
  <2> QED BY <1>2, <1>8, <2>1, <2>2, <2>3, GrownRan
<1>23. JobsDiffer'
  <2>1. j = Right(c2.r)
    BY <1>5 DEF j
  <2> QED BY <1>3, <1>5, <1>6, <1>8, <1>11, <2>1, GrownJobs
<1>24. /\ \A u \in Workers : \A k \in DOMAIN stack[u] :
            /\ k \in DOMAIN stack'[u] /\ stack'[u][k].r = stack[u][k].r /\ stack'[u][k].stolen = stack[u][k].stolen
            /\ ~ (u = w /\ k = n) => stack'[u][k] = stack[u][k]
       /\ n \in DOMAIN stack'[w] /\ stack'[w][n] = c2
  <2>2. \A u \in Workers \ {w} : DOMAIN stack'[u] = DOMAIN stack[u]
    BY <1>8 DEF Grows
  <2>3. n \in DOMAIN stack'[w] /\ n # n + 1 /\ stack'[w][n] = c2
    BY <1>3, <1>8 DEF Grows
  <2>4. ASSUME NEW u \in Workers, NEW k \in DOMAIN stack[u]
        PROVE  /\ k \in DOMAIN stack'[u]
               /\ stack'[u][k] = IF u = w /\ k = n THEN c2 ELSE stack[u][k]
    <3>1. DOMAIN stack[w] = 1..n /\ DOMAIN stack'[w] = 1..(n + 1) /\ n \in Nat
      BY <1>8 DEF Grows
    <3>2. u = w => k \in DOMAIN stack'[w] /\ k # n + 1
      BY <3>1
    <3> QED BY <1>8, <2>2, <3>2 DEF Grows
  <2> QED BY <1>3, <1>5, <2>3, <2>4
<1>25. \A u \in Workers : \A r : r \in Forked(u)' <=> r \in Forked(u) \/ (b /\ u = w /\ r = j)
  <2>1. ASSUME NEW u \in Workers, NEW r
        PROVE  /\ r \in Forked(u) <=> \E k \in DOMAIN stack[u] : /\ stack[u][k].in_deque
                    /\ stack[u][k].at \in {"left", "wait", "steal"} /\ r = Right(stack[u][k].r)
               /\ r \in Forked(u)' <=> \E k \in DOMAIN stack'[u] : /\ stack'[u][k].in_deque
                    /\ stack'[u][k].at \in {"left", "wait", "steal"} /\ r = Right(stack'[u][k].r)
    BY DEF Forked
  <2>2. ASSUME NEW u \in Workers, NEW r, r \in Forked(u) PROVE r \in Forked(u)'
    <3>1. PICK k \in DOMAIN stack[u] : /\ stack[u][k].in_deque
                    /\ stack[u][k].at \in {"left", "wait", "steal"} /\ r = Right(stack[u][k].r)
      BY <2>1, <2>2
    <3>2. ~ (u = w /\ k = n)
      BY <1>2, <1>3, <3>1
    <3>3. k \in DOMAIN stack'[u] /\ stack'[u][k] = stack[u][k]
      BY <1>24, <3>2
    <3> QED BY <2>1, <3>1, <3>3
  <2>3. b => j \in Forked(w)'
    BY <1>5, <1>24, <2>1 DEF j
  <2>4. ASSUME NEW u \in Workers, NEW r, r \in Forked(u)', r \notin Forked(u) PROVE b /\ u = w /\ r = j
    <3>1. PICK k \in DOMAIN stack'[u] : /\ stack'[u][k].in_deque
                    /\ stack'[u][k].at \in {"left", "wait", "steal"} /\ r = Right(stack'[u][k].r)
      BY <2>1, <2>4
    <3>2. \/ u = w /\ stack'[u][k] = d
          \/ u = w /\ stack'[u][k] = c2
          \/ k \in DOMAIN stack[u] /\ stack'[u][k] = stack[u][k]
      BY <1>0
    <3> QED BY <1>5, <1>6, <2>1, <2>4, <3>1, <3>2 DEF j
  <2> QED BY <2>2, <2>3, <2>4
<1>26. JobsInOrder'
  <2>1. ASSUME NEW u \in Workers, NEW e \in DOMAIN deques[u], deques'[u][e] = deques[u][e]
        PROVE  \E k \in DOMAIN stack'[u] :
                 /\ Pushed(stack'[u][k]) /\ deques'[u][e] = Right(stack'[u][k].r)
                 /\ \A l \in (k + 1) .. Len(stack'[u]) : Pushed(stack'[u][l]) =>
                      \E f \in (e + 1) .. Len(deques'[u]) : deques'[u][f] = Right(stack'[u][l].r)
    <3>1. PICK k \in DOMAIN stack[u] :
            /\ Pushed(stack[u][k]) /\ deques[u][e] = Right(stack[u][k].r)
            /\ \A l \in (k + 1) .. Len(stack[u]) : Pushed(stack[u][l]) =>
                 \E f \in (e + 1) .. Len(deques[u]) : deques[u][f] = Right(stack[u][l].r)
      BY DEF Sound, JobsInOrder
    <3>2. ~ (u = w /\ k = n) /\ stack'[u][k] = stack[u][k] /\ k \in DOMAIN stack'[u]
      BY <1>2, <1>3, <1>24, <3>1 DEF Pushed
    <3>3. ASSUME NEW l \in (k + 1) .. Len(stack'[u]), Pushed(stack'[u][l])
          PROVE  \E f \in (e + 1) .. Len(deques'[u]) : deques'[u][f] = Right(stack'[u][l].r)
      <4>1. CASE u # w
        <5>1. /\ Len(stack'[u]) = Len(stack[u]) /\ DOMAIN stack[u] = 1..Len(stack[u]) /\ Len(stack[u]) \in Nat
              /\ DOMAIN stack'[u] = DOMAIN stack[u] /\ deques'[u] = deques[u]
          BY <1>8, <1>15, <4>1 DEF Grows
        <5>2. l \in DOMAIN stack'[u] /\ stack'[u][l] = stack[u][l]
          <6>1. l \in DOMAIN stack[u]
            BY <3>3, <5>1
          <6> QED BY <1>24, <4>1, <5>1, <6>1
        <5> QED BY <3>1, <3>3, <5>1, <5>2
      <4>2. CASE u = w
        <5>1. Len(stack[w]) = n /\ DOMAIN stack[w] = 1..n /\ l \in DOMAIN stack'[w]
          BY <1>8, <3>3, <4>2 DEF Grows
        <5>2. stack'[w][l] # d
          BY <1>6, <3>3, <4>2 DEF Pushed
        <5>3. CASE l = n /\ stack'[w][l] = c2
          <6>1. b /\ Right(stack'[w][l].r) = j /\ m + 1 \in (e + 1) .. (m + 1)
            BY <1>5, <1>15, <3>3, <4>2, <5>3 DEF Pushed, j
          <6> QED BY <1>15, <4>2, <6>1
        <5>4. CASE l < n /\ l \in DOMAIN stack[w] /\ stack'[w][l] = stack[w][l]
          <6>1. l \in (k + 1) .. Len(stack[u])
            BY <3>3, <4>2, <5>1, <5>4
          <6>2. PICK f \in (e + 1) .. Len(deques[u]) : deques[u][f] = Right(stack[u][l].r)
            BY <3>1, <3>3, <4>2, <5>4, <6>1
          <6>3. f \in (e + 1) .. Len(deques'[u]) /\ deques'[u][f] = deques[u][f]
            <7>1. Len(deques[u]) = m /\ e \in 1..m
              BY <1>15, <4>2 DEF m
            <7>2. f \in 1..m /\ f \in (e + 1) .. (m + 1)
              BY <1>15, <6>2, <7>1
            <7> QED BY <1>15, <4>2, <6>2, <7>1, <7>2
          <6> QED BY <4>2, <5>4, <6>2, <6>3
        <5> QED BY <1>0, <4>2, <5>1, <5>2, <5>3, <5>4
      <4> QED BY <4>1, <4>2
    <3> QED BY <3>1, <3>2, <3>3, <2>1
  <2>2. ASSUME b
        PROVE  \E k \in DOMAIN stack'[w] :
                 /\ Pushed(stack'[w][k]) /\ deques'[w][m + 1] = Right(stack'[w][k].r)
                 /\ \A l \in (k + 1) .. Len(stack'[w]) : Pushed(stack'[w][l]) =>
                      \E f \in (m + 1 + 1) .. Len(deques'[w]) : deques'[w][f] = Right(stack'[w][l].r)
    <3>1. Pushed(c2) /\ deques'[w][m + 1] = Right(c2.r) /\ stack'[w][n] = c2 /\ n \in DOMAIN stack'[w]
      BY <1>5, <1>15, <1>24, <2>2 DEF Pushed, j
    <3>2. \A l \in (n + 1) .. Len(stack'[w]) : stack'[w][l] = d
      <4>1. Len(stack'[w]) = n + 1 /\ DOMAIN stack'[w] = 1..(n + 1)
        BY <1>8 DEF Grows
      <4>2. \A l \in (n + 1) .. Len(stack'[w]) : l = n + 1 /\ l \in DOMAIN stack'[w]
        BY <1>3, <4>1
      <4> QED BY <1>8, <4>2 DEF Grows
    <3> QED BY <1>6, <3>1, <3>2 DEF Pushed
  <2>3. ASSUME NEW u \in Workers, NEW e \in DOMAIN deques'[u]
        PROVE  \E k \in DOMAIN stack'[u] :
                 /\ Pushed(stack'[u][k]) /\ deques'[u][e] = Right(stack'[u][k].r)
                 /\ \A l \in (k + 1) .. Len(stack'[u]) : Pushed(stack'[u][l]) =>
                      \E f \in (e + 1) .. Len(deques'[u]) : deques'[u][f] = Right(stack'[u][l].r)
    <3>1. CASE e \in DOMAIN deques[u] /\ deques'[u][e] = deques[u][e]
      BY <2>1, <3>1
    <3>2. CASE b /\ u = w /\ e = m + 1
      BY <2>2, <3>2
    <3> QED BY <1>16, <3>1, <3>2
  <2> QED BY <1>2, <2>3 DEF JobsInOrder
<1>27. JobsAreKept'
  <2>1. ASSUME NEW u \in Workers, NEW r \in Forked(u)
        PROVE  \/ r \in done
               \/ \E e \in DOMAIN deques'[u] : deques'[u][e] = r
               \/ \E v \in Workers \ {u} : \E k \in DOMAIN stack'[v] : stack'[v][k].stolen /\ stack'[v][k].r = r
    <3>1. \A e \in DOMAIN deques[u] : e \in DOMAIN deques'[u] /\ deques'[u][e] = deques[u][e]
      BY <1>15
    <3> QED BY <1>24, <3>1 DEF Sound, JobsAreKept
  <2>2. b => \E e \in DOMAIN deques'[w] : deques'[w][e] = j
    BY <1>15
  <2> QED BY <1>2, <1>25, <2>1, <2>2 DEF JobsAreKept
<1>28. JobsOutlived'
  <2>1. j \notin done
    BY <1>4, <1>10 DEF Sound, RanOnce, Covered, Span
  <2>2. \A u \in Workers : \A e \in DOMAIN deques'[u] : deques'[u][e] \in Forked(u)' /\ deques'[u][e] \notin done
    BY <1>16, <1>25, <2>1 DEF Sound, JobsOutlived
  <2>3. ASSUME NEW u \in Workers, NEW k \in DOMAIN stack'[u], stack'[u][k].stolen
        PROVE  stack'[u][k].r \notin done /\ \E v \in Workers : stack'[u][k].r \in Forked(v)'
    <3>1. PICK l \in DOMAIN stack[u] : stack[u][l].stolen /\ stack[u][l].r = stack'[u][k].r
      BY <1>0, <1>3, <1>5, <1>6, <2>3
    <3> QED BY <1>25, <3>1 DEF Sound, JobsOutlived
  <2> QED BY <1>2, <2>2, <2>3 DEF JobsOutlived
<1>29. LoneWorkerNeverRolls'
  <2>1. ASSUME num_threads = 1, NEW k \in DOMAIN stack'[0]
        PROVE  stack'[0][k].at \notin {"wait", "steal"} /\ ~ stack'[0][k].stolen
    <3>1. 0 \in Workers /\ w = 0 /\ ~ c.stolen
      BY <1>3, <2>1 DEF Workers, Sound, LoneWorkerNeverRolls
    <3>2. /\ \A l \in DOMAIN stack[0] : stack[0][l].at \notin {"wait", "steal"} /\ ~ stack[0][l].stolen
          /\ stack'[0][k] = d \/ stack'[0][k] = c2 \/ (k \in DOMAIN stack[0] /\ stack'[0][k] = stack[0][k])
      BY <1>0, <2>1, <3>1 DEF Sound, LoneWorkerNeverRolls
    <3> QED BY <1>5, <1>6, <3>1, <3>2
  <2> QED BY <1>2, <2>1 DEF Sound, LoneWorkerNeverRolls
<1> QED BY <1>17, <1>18, <1>19, <1>20, <1>21, <1>22, <1>23, <1>26, <1>27, <1>28, <1>29 DEF Sound, OwnersAreApart

(* pop_bottom. *)
Pops(w) == deques' = [deques EXCEPT ![w] = SubSeq(@, 1, Len(@) - 1)]

LEMMA Popping ==
  ASSUME TypeOK, NEW w \in Workers, NEW m, m = Len(deques[w]), m # 0, Pops(w)
  PROVE  /\ m \in Nat /\ deques' \in [Workers -> Seq(Ranges)] /\ DOMAIN deques'[w] = 1..(m - 1)
         /\ Len(deques'[w]) = m - 1
         /\ DOMAIN deques[w] = 1..m
         /\ \A e \in 1..(m - 1) : deques'[w][e] = deques[w][e]
         /\ \A u \in Workers \ {w} : deques'[u] = deques[u]
<1> DEFINE s == deques[w]
           a == SubSeq(s, 1, m - 1)
<1>1. /\ deques \in [Workers -> Seq(Ranges)] /\ s \in Seq(Ranges) /\ m = Len(s) /\ m \in Nat
      /\ deques' = [deques EXCEPT ![w] = a] /\ DOMAIN s = 1..m
  BY Elements DEF TypeOK, Pops
<1> HIDE DEF s
<1>2. a \in Seq(Ranges) /\ Len(a) = m - 1 /\ \A e \in 1..(m - 1) : a[e] = s[e]
  BY <1>1, Front
<1>3. DOMAIN a = 1..(m - 1)
  BY <1>1, <1>2
<1> HIDE DEF a
<1>4. deques' \in [Workers -> Seq(Ranges)] /\ deques'[w] = a /\ \A u \in Workers \ {w} : deques'[u] = deques[u]
  BY <1>1, <1>2
<1> QED BY <1>1, <1>2, <1>3, <1>4 DEF s

(* What a call has given away it does not own. *)
LEMMA GaveOwn ==
  ASSUME Sound, NEW w \in Workers, NEW k \in DOMAIN stack[w], NEW P, GaveAway(stack[w][k], P)
  PROVE  Own(stack[w][k]) \cap P = {}
<1> DEFINE g == stack[w][k]
<1> SUFFICES Own(g) \cap P = {}
  OBVIOUS
<1>1. Own(g) \subseteq Span(g.r) /\ GaveAway(g, P)
  BY CallSpans
<1>2. CASE g.at = "enter"
  <2> HIDE DEF g
  <2> QED BY <1>1, <1>2 DEF GaveAway
<1>3. CASE g.at # "enter"
  <2>1. Span(Left(g.r)) \cap Span(Right(g.r)) = {}
    BY <1>3, SplitCalls, Halves
  <2> HIDE DEF g
  <2> QED BY <1>1, <1>3, <2>1 DEF GaveAway, Own
<1> QED BY <1>2, <1>3

LEMMA GrownKeeps ==
  ASSUME NEW w, NEW n, NEW c, NEW d, Grows(w, n, c, d), NEW u \in Workers, NEW k \in DOMAIN stack[u]
  PROVE  /\ k \in DOMAIN stack'[u]
         /\ stack'[u][k] = IF u = w /\ k = n THEN c ELSE stack[u][k]
<1>1. DOMAIN stack[w] = 1..n /\ DOMAIN stack'[w] = 1..(n + 1) /\ n \in Nat
  BY DEF Grows
<1>2. u = w => k \in DOMAIN stack'[w] /\ k # n + 1
  BY <1>1
<1>3. u # w => DOMAIN stack'[u] = DOMAIN stack[u]
  BY DEF Grows
<1> QED BY <1>2, <1>3 DEF Grows

LEMMA ForkedMembers ==
  ASSUME NEW u, NEW r
  PROVE  /\ r \in Forked(u) <=> \E k \in DOMAIN stack[u] : /\ stack[u][k].in_deque
              /\ stack[u][k].at \in {"left", "wait", "steal"} /\ r = Right(stack[u][k].r)
         /\ r \in Forked(u)' <=> \E k \in DOMAIN stack'[u] : /\ stack'[u][k].in_deque
              /\ stack'[u][k].at \in {"left", "wait", "steal"} /\ r = Right(stack'[u][k].r)
BY DEF Forked

(* A job that stays in its deque keeps its place before those pushed after it. *)
StaysBehind(w, n, u, e, e2) ==
  /\ u = w /\ n # 0 /\ Pushed(stack[w][n]) => deques[u][e] # Right(stack[w][n].r)
  /\ \A f \in (e + 1) .. Len(deques[u]), k \in DOMAIN stack[u] :
       Pushed(stack[u][k]) /\ ~ (u = w /\ k = n) /\ deques[u][f] = Right(stack[u][k].r) =>
         \E f2 \in (e2 + 1) .. Len(deques'[u]) : deques'[u][f2] = deques[u][f]

LEMMA GrownOrder ==
  ASSUME Sound, NEW w, NEW n, NEW c, NEW d, Grows(w, n, c, d), n # 0 => ~ Pushed(c),
         NEW u \in Workers, NEW e \in DOMAIN deques[u], NEW e2 \in DOMAIN deques'[u], deques'[u][e2] = deques[u][e],
         StaysBehind(w, n, u, e, e2)
  PROVE  \E k \in DOMAIN stack'[u] :
           /\ Pushed(stack'[u][k]) /\ deques'[u][e2] = Right(stack'[u][k].r)
           /\ \A l \in (k + 1) .. Len(stack'[u]) : Pushed(stack'[u][l]) =>
                \E f \in (e2 + 1) .. Len(deques'[u]) : deques'[u][f] = Right(stack'[u][l].r)
<1>1. PICK k \in DOMAIN stack[u] :
        /\ Pushed(stack[u][k]) /\ deques[u][e] = Right(stack[u][k].r)
        /\ \A l \in (k + 1) .. Len(stack[u]) : Pushed(stack[u][l]) =>
             \E f \in (e + 1) .. Len(deques[u]) : deques[u][f] = Right(stack[u][l].r)
  BY DEF Sound, JobsInOrder
<1>2. /\ n \in Nat /\ k \in Nat /\ k # 0 /\ DOMAIN stack[u] = 1..Len(stack[u]) /\ Len(stack[u]) \in Nat
      /\ Len(stack'[u]) = IF u = w THEN n + 1 ELSE Len(stack[u])
      /\ DOMAIN stack'[u] = 1..Len(stack'[u]) /\ Len(stack[w]) = n
  BY DEF Grows
<1>3. k \in DOMAIN stack'[u] /\ stack'[u][k] = stack[u][k]
  <2>1. /\ k \in DOMAIN stack'[u]
        /\ stack'[u][k] = IF u = w /\ k = n THEN c ELSE stack[u][k]
    BY GrownKeeps
  <2>2. ~ (u = w /\ k = n)
    BY <1>1, <1>2 DEF StaysBehind
  <2> QED BY <2>1, <2>2
<1>4. ASSUME NEW l \in (k + 1) .. Len(stack'[u]), Pushed(stack'[u][l])
      PROVE  \E f \in (e2 + 1) .. Len(deques'[u]) : deques'[u][f] = Right(stack'[u][l].r)
  <2>1. l \in DOMAIN stack'[u] /\ l \in Nat
    BY <1>2, <1>4
  <2>2. \/ u = w /\ l = n + 1 /\ stack'[u][l] = d
        \/ u = w /\ l = n /\ n # 0 /\ n \in DOMAIN stack[w] /\ stack'[u][l] = c
        \/ /\ <<u, l>> \in Others(w, n) /\ u \in Workers /\ l \in DOMAIN stack[u]
           /\ stack'[u][l] = stack[u][l] /\ Len(stack[u]) \in Nat /\ l \in Nat
           /\ u = w => l < n
    BY <2>1, GrownFrames
  <2>3. ~ Pushed(d)
    BY DEF Pushed, Grows
  <2>4. /\ l \in DOMAIN stack[u] /\ stack'[u][l] = stack[u][l] /\ (u = w => l < n)
    BY <1>4, <2>2, <2>3
  <2>5. l \in (k + 1) .. Len(stack[u]) /\ ~ (u = w /\ l = n)
    BY <1>2, <1>4, <2>1, <2>4
  <2>6. PICK f \in (e + 1) .. Len(deques[u]) : deques[u][f] = Right(stack[u][l].r)
    BY <1>1, <1>4, <2>4, <2>5
  <2> QED BY <1>4, <2>4, <2>5, <2>6 DEF StaysBehind
<1> QED BY <1>1, <1>3, <1>4

(***************************************************************************)
(* The left half is done, and pop_bottom got the job back or it was never  *)
(* pushed: the right half is this worker's.                                *)
(***************************************************************************)
LEMMA JoinStep ==
  ASSUME Sound, NEW w \in Workers, Join(w), ~ (Top(w).in_deque /\ deques[w] = <<>>)
  PROVE  Sound'
<1> DEFINE n == Len(stack[w])
           m == Len(deques[w])
           c == Top(w)
           j == Right(c.r)
           d == Call(j, FALSE)
           c2 == [c EXCEPT !.at = "right"]
           q == c.in_deque
<1>1. /\ Busy(w) /\ c.at = "left" /\ UNCHANGED <<num_threads, done, ran>> /\ Workers' = Workers
      /\ CallsOn(w, c2, d) /\ (q => Pops(w)) /\ (~ q => deques' = deques)
      /\ q => deques[w] # <<>>
  BY DEF Join, Calls, CallsOn, Pops, Workers
<1>2. /\ TypeOK /\ n \in DOMAIN stack[w] /\ n # 0 /\ n \in Nat /\ c = stack[w][n] /\ c \in Frame /\ c.r \in Ranges
      /\ HasItsPlace(c) /\ Size(c.r) > Granularity
      /\ \A u \in Workers : DOMAIN stack[u] = 1..Len(stack[u]) /\ Len(stack[u]) \in Nat
  BY <1>1, Elements, CallSpans DEF Sound, Top, HasItsPlace
<1>3. /\ Left(c.r) \in Ranges /\ j \in Ranges /\ Span(Left(c.r)) \cap Span(j) = {}
      /\ Span(Left(c.r)) \cup Span(j) = Span(c.r) /\ Span(j) # {}
      /\ c.r.lo < Mid(c.r) /\ Mid(c.r) < c.r.hi /\ Mid(c.r) \in Int /\ j.lo = Mid(c.r) /\ j.hi = c.r.hi
  BY <1>2, Halves DEF Right
<1>4. /\ c2 \in Frame /\ c2.r = c.r /\ c2.at = "right" /\ c2.in_deque = c.in_deque /\ c2.stolen = c.stolen
      /\ c2.next = c.next
  BY <1>2 DEF Frame, Places
<1>5. /\ d \in Frame /\ d.r = j /\ d.at = "enter" /\ ~ d.in_deque /\ ~ d.stolen /\ d.next = d.r.lo
  BY <1>3 DEF Frame, Places, Call, Ranges
<1> HIDE DEF d, c2
<1>6. HasItsPlace(d) /\ HasItsPlace(c2)
  <2>1. HasItsPlace(d)
    <3>1. d.r.lo \in Int /\ d.r.lo <= d.next /\ d.next <= d.r.hi
      BY <1>2, <1>3, <1>5 DEF Ranges
    <3> QED BY <1>5, <3>1 DEF HasItsPlace
  <2>2. HasItsPlace(c2)
    BY <1>1, <1>2, <1>4 DEF HasItsPlace
  <2> QED BY <2>1, <2>2
<1>7. stack' \in [Workers -> Seq(Frame)] /\ Grows(w, n, c2, d)
  <2>1. n = Len(stack[w])
    OBVIOUS
  <2> HIDE DEF n
  <2>2. /\ stack' \in [Workers -> Seq(Frame)]
        /\ \A u \in Workers :
             /\ DOMAIN stack'[u] = IF u = w THEN 1..(n + 1) ELSE DOMAIN stack[u]
             /\ Len(stack'[u]) = IF u = w THEN n + 1 ELSE Len(stack[u])
             /\ \A k \in DOMAIN stack'[u] :
                  stack'[u][k] = IF u = w /\ k = n + 1 THEN d ELSE IF u = w /\ k = n THEN c2 ELSE stack[u][k]
    <3>1. TypeOK /\ Busy(w) /\ c2 \in Frame /\ d \in Frame /\ CallsOn(w, c2, d)
      BY <1>1, <1>2, <1>4, <1>5
    <3> QED BY <2>1, <3>1, Calling
  <2> QED BY <1>1, <1>2, <1>3, <1>5, <1>6, <2>1, <2>2 DEF Grows
<1>8. ASSUME NEW u \in Workers, NEW k \in DOMAIN stack'[u]
      PROVE  \/ u = w /\ k = n + 1 /\ stack'[u][k] = d
             \/ u = w /\ k = n /\ n # 0 /\ n \in DOMAIN stack[w] /\ stack'[u][k] = c2
             \/ /\ <<u, k>> \in Others(w, n) /\ u \in Workers /\ k \in DOMAIN stack[u]
                /\ stack'[u][k] = stack[u][k] /\ Len(stack[u]) \in Nat /\ k \in Nat
                /\ u = w => k < n
  BY <1>7, GrownFrames
<1>9. /\ m \in Nat /\ (q => m # 0) /\ deques' \in [Workers -> Seq(Ranges)] /\ DOMAIN deques[w] = 1..m
      /\ \A u \in Workers \ {w} : deques'[u] = deques[u]
      /\ ~ q => deques' = deques
      /\ q => /\ DOMAIN deques'[w] = 1..(m - 1) /\ Len(deques'[w]) = m - 1
              /\ \A e \in 1..(m - 1) : deques'[w][e] = deques[w][e]
  <2>1. m \in Nat /\ (q => m # 0) /\ DOMAIN deques[w] = 1..m /\ m = Len(deques[w])
    BY <1>1, <1>2, Elements
  <2>2. CASE q
    <3> HIDE DEF m
    <3>1. /\ m \in Nat /\ deques' \in [Workers -> Seq(Ranges)] /\ DOMAIN deques'[w] = 1..(m - 1)
          /\ Len(deques'[w]) = m - 1
          /\ DOMAIN deques[w] = 1..m
          /\ \A e \in 1..(m - 1) : deques'[w][e] = deques[w][e]
          /\ \A u \in Workers \ {w} : deques'[u] = deques[u]
      BY <1>1, <1>2, <2>1, <2>2, Popping
    <3> QED BY <2>1, <2>2, <3>1
  <2>3. CASE ~ q
    BY <1>1, <1>2, <2>1, <2>3 DEF TypeOK
  <2> QED BY <2>2, <2>3
<1>10. q => m \in DOMAIN deques[w] /\ deques[w][m] = j
  <2>1. q => deques[w][m] = j
    BY <1>1, BottomIsOwn DEF PopsItsOwnJob
  <2> QED BY <1>9, <2>1
<1>11. \A P : GaveAway(c, P) /\ ~ q => P \cap Span(j) = {}
  <2> HIDE DEF c, j
  <2> QED BY <1>1, <1>3 DEF GaveAway, j
<1>12. \A i \in Span(j) : ran[i] = 0
  <2>1. RanSoFar(c, TRUE, ran)
    BY <1>2 DEF Sound, RanOnce
  <2>2. ~ q => Own(c) = Span(j)
    BY <1>1 DEF Own
  <2>3. q => \A i \in Span(j) : ran[i] = 0
    BY <1>10 DEF Sound, RanOnce
  <2> QED BY <2>1, <2>2, <2>3 DEF RanSoFar
<1>13. \A p \in Others(w, n) : LET g == stack[p[1]][p[2]] IN
         /\ GaveAway(g, Span(j)) /\ Own(g) \cap Span(j) = {}
         /\ g.at # "enter" => Right(g.r) # j
  <2> TAKE p \in Others(w, n)
  <2> DEFINE g == stack[p[1]][p[2]]
  <2>1. p[1] \in Workers /\ p[2] \in DOMAIN stack[p[1]] /\ <<w, n>> # <<p[1], p[2]>>
    BY DEF Others
  <2>2. GaveAway(g, Own(c))
    BY <1>2, <2>1 DEF Sound, OwnersAreApart, CallsAreApart
  <2>3. ~ q => Own(c) = Span(j)
    BY <1>1 DEF Own
  <2>4. q => GaveAway(g, Span(j))
    BY <1>10, <2>1 DEF Sound, OwnersAreApart, CallsGaveJobsAway
  <2>5. GaveAway(g, Span(j))
    BY <2>2, <2>3, <2>4
  <2>6. Own(g) \cap Span(j) = {}
    BY <2>1, <2>5, GaveOwn
  <2>7. g.at # "enter" => Right(g.r) # j
    BY <1>1, <1>2, <2>1 DEF Sound, JobsDiffer
  <2> QED BY <2>5, <2>6, <2>7
<1>14. /\ \A P : GaveAway(c, P) => GaveAway(c2, P)
       /\ Own(c2) = {} /\ GaveAway(c2, Span(j))
  BY <1>1, <1>4 DEF GaveAway, Own
<1>15. \A u \in Workers : \A e \in DOMAIN deques'[u] :
         /\ e \in DOMAIN deques[u] /\ deques'[u][e] = deques[u][e]
         /\ Span(deques[u][e]) \cap Span(j) = {} /\ deques[u][e] # j
  <2> TAKE u \in Workers
  <2> TAKE e \in DOMAIN deques'[u]
  <2>1. /\ e \in DOMAIN deques[u] /\ deques'[u][e] = deques[u][e] /\ (q => <<u, e>> # <<w, m>>)
    <3> HIDE DEF m, q
    <3>1. CASE q /\ u = w
      BY <1>9, <3>1
    <3>2. CASE q /\ u # w
      BY <1>9, <3>2
    <3>3. CASE ~ q
      BY <1>9, <3>3
    <3> QED BY <3>1, <3>2, <3>3
  <2>2. q => Span(deques[u][e]) \cap Span(j) = {}
    BY <1>10, <2>1 DEF Sound, OwnersAreApart, JobsAreApart
  <2>3. ~ q => Span(deques[u][e]) \cap Span(j) = {}
    BY <1>2, <1>11, <2>1 DEF Sound, OwnersAreApart, CallsGaveJobsAway
  <2> QED BY <1>3, <2>1, <2>2, <2>3
<1>28. RanSoFar(c, TRUE, ran)
  BY <1>2 DEF Sound, RanOnce
<1>16. j = Right(c2.r) /\ (q <=> c2.in_deque) /\ ~ Pushed(c2) /\ (Pushed(c) <=> q)
  BY <1>1, <1>4 DEF Pushed
<1> HIDE DEF c, n, j, q
<1>17. TypeOK'
  BY <1>1, <1>2, <1>7, <1>9 DEF TypeOK
<1>18. OwnersAreApart'
  <2>1. n # 0 => /\ Own(c2) \subseteq Span(j) /\ GaveAway(c2, Span(d.r)) /\ Own(c2) \cap Span(d.r) = {}
                 /\ \A P : GaveAway(stack[w][n], P) /\ P \cap Span(j) = {} => GaveAway(c2, P)
    BY <1>2, <1>5, <1>14
  <2>2. Span(d.r) \subseteq Span(j)
    BY <1>5
  <2>3. \A p \in Others(w, n) : GaveAway(stack[p[1]][p[2]], Span(j)) /\ Own(stack[p[1]][p[2]]) \cap Span(j) = {}
    BY <1>13
  <2>4. PassesOn(w, n, c2, d, Span(j))
    BY <2>1, <2>2, <2>3 DEF PassesOn
  <2>5. CallsAreApart'
    BY <1>7, <2>4, GrownApart
  <2>6. JobsAreOutside(c2, d, Span(j))
    BY <1>15 DEF JobsAreOutside
  <2>8. CallsGaveJobsAway'
    BY <1>7, <2>4, <2>6, GrownGaveJobs
  <2>9. JobsAreApart'
    <3>1. ASSUME NEW u \in Workers, NEW v \in Workers, NEW e \in DOMAIN deques'[u], NEW f \in DOMAIN deques'[v],
                 <<u, e>> # <<v, f>>
          PROVE  Span(deques'[u][e]) \cap Span(deques'[v][f]) = {}
      <4>1. e \in DOMAIN deques[u] /\ deques'[u][e] = deques[u][e] /\ f \in DOMAIN deques[v] /\ deques'[v][f] = deques[v][f]
        BY <1>15
      <4>2. Span(deques[u][e]) \cap Span(deques[v][f]) = {}
        BY <3>1, <4>1 DEF Sound, OwnersAreApart, JobsAreApart
      <4> QED BY <4>1, <4>2
    <3> QED BY <1>1, <3>1 DEF JobsAreApart
  <2> QED BY <2>5, <2>8, <2>9 DEF OwnersAreApart
<1>19. CallsAreNested'
  <2>1. n # 0 => /\ HasItsPlace(c2) /\ c2.at \in {"left", "right", "wait"} /\ c2.r = stack[w][n].r
                 /\ c2.at = "left" => d.r = Left(c2.r)
                 /\ c2.at = "right" => d.r = Right(c2.r)
    BY <1>2, <1>4, <1>5, <1>6, <1>16
  <2> QED BY <1>7, <2>1, GrownNested
<1>20. RanOnce'
  <2>2. RanSoFar(c2, FALSE, ran)
    BY <1>1, <1>4, <1>14, <1>28 DEF RanSoFar
  <2>3. \A i \in Span(d.r) : ran[i] = 0
    BY <1>5, <1>12
  <2>4. \A u \in Workers : \A e \in DOMAIN deques'[u] : \A i \in Span(deques'[u][e]) : ran[i] = 0
    BY <1>15 DEF Sound, RanOnce
  <2> QED BY <1>1, <1>7, <2>2, <2>3, <2>4, GrownRan
<1>21. JobsDiffer'
  <2>1. n # 0 => c2.r = stack[w][n].r /\ c2.stolen = stack[w][n].stolen
    BY <1>2, <1>4
  <2>2. \A p \in Others(w, n) : LET g == stack[p[1]][p[2]] IN g.at # "enter" /\ n # 0 => Right(g.r) # Right(c2.r)
    BY <1>13, <1>16
  <2> QED BY <1>5, <1>7, <2>1, <2>2, GrownJobs
<1>22. \A u \in Workers : \A k \in DOMAIN stack[u] :
         /\ k \in DOMAIN stack'[u] /\ stack'[u][k].r = stack[u][k].r /\ stack'[u][k].stolen = stack[u][k].stolen
         /\ ~ (u = w /\ k = n) => stack'[u][k] = stack[u][k]
  BY <1>2, <1>4, <1>7, GrownKeeps
<1>23. \A u \in Workers : \A r : r \in Forked(u)' <=> r \in Forked(u) /\ ~ (q /\ u = w /\ r = j)
  <2>1. ASSUME NEW u \in Workers, NEW r, r \in Forked(u), ~ (q /\ u = w /\ r = j) PROVE r \in Forked(u)'
    <3>1. PICK k \in DOMAIN stack[u] : /\ stack[u][k].in_deque
                    /\ stack[u][k].at \in {"left", "wait", "steal"} /\ r = Right(stack[u][k].r)
      BY <2>1, ForkedMembers
    <3>2. ~ (u = w /\ k = n)
      BY <1>2, <1>4, <1>16, <2>1, <3>1
    <3>3. k \in DOMAIN stack'[u] /\ stack'[u][k] = stack[u][k]
      BY <1>22, <3>2
    <3> QED BY <3>1, <3>3, ForkedMembers
  <2>2. ASSUME NEW u \in Workers, NEW r, r \in Forked(u)'
        PROVE  r \in Forked(u) /\ ~ (q /\ u = w /\ r = j)
    <3>1. PICK k \in DOMAIN stack'[u] : /\ stack'[u][k].in_deque
                    /\ stack'[u][k].at \in {"left", "wait", "steal"} /\ r = Right(stack'[u][k].r)
      BY <2>2, ForkedMembers
    <3>2. <<u, k>> \in Others(w, n) /\ k \in DOMAIN stack[u] /\ stack'[u][k] = stack[u][k]
      BY <1>4, <1>5, <1>8, <3>1
    <3>3. r \in Forked(u)
      BY <3>1, <3>2, ForkedMembers
    <3>4. stack[u][k].at # "enter" => Right(stack[u][k].r) # j
      BY <1>13, <3>2
    <3> QED BY <3>1, <3>2, <3>3, <3>4
  <2> QED BY <2>1, <2>2
<1>24. JobsInOrder'
  <2>1. ASSUME NEW u \in Workers, NEW e \in DOMAIN deques'[u]
        PROVE  \E k \in DOMAIN stack'[u] :
                 /\ Pushed(stack'[u][k]) /\ deques'[u][e] = Right(stack'[u][k].r)
                 /\ \A l \in (k + 1) .. Len(stack'[u]) : Pushed(stack'[u][l]) =>
                      \E f \in (e + 1) .. Len(deques'[u]) : deques'[u][f] = Right(stack'[u][l].r)
    <3>1. e \in DOMAIN deques[u] /\ deques'[u][e] = deques[u][e] /\ deques[u][e] # j
      BY <1>15
    <3>2. u = w /\ n # 0 /\ Pushed(stack[w][n]) => deques[u][e] # Right(stack[w][n].r)
      BY <1>2, <1>4, <1>16, <3>1
    <3>3. ASSUME NEW f \in (e + 1) .. Len(deques[u]), NEW k \in DOMAIN stack[u],
                 Pushed(stack[u][k]), ~ (u = w /\ k = n), deques[u][f] = Right(stack[u][k].r)
          PROVE  \E f2 \in (e + 1) .. Len(deques'[u]) : deques'[u][f2] = deques[u][f]
      <4>1. CASE ~ q \/ u # w
        BY <1>9, <4>1
      <4>2. CASE q /\ u = w
        <5>1. deques[u][f] # j
          <6>1. <<w, k>> # <<w, n>> /\ stack[w][k].at # "enter" /\ stack[w][n].at # "enter"
            BY <1>1, <1>2, <3>3, <4>2 DEF Pushed
          <6>2. Right(stack[w][k].r) # Right(stack[w][n].r)
            BY <1>2, <3>3, <4>2, <6>1 DEF Sound, JobsDiffer
          <6> QED BY <1>2, <3>3, <4>2, <6>2 DEF j
        <5>2. Len(deques[u]) = m /\ e \in 1..m
          BY <1>9, <3>1, <4>2
        <5>3. f \in 1..m /\ f # m
          BY <1>9, <1>10, <4>2, <5>1, <5>2
        <5>4. f \in 1..(m - 1) /\ f \in (e + 1) .. (m - 1)
          BY <1>9, <5>2, <5>3
        <5> QED BY <1>9, <4>2, <5>4
      <4> QED BY <4>1, <4>2
    <3>4. \A f \in (e + 1) .. Len(deques[u]), k \in DOMAIN stack[u] :
            Pushed(stack[u][k]) /\ ~ (u = w /\ k = n) /\ deques[u][f] = Right(stack[u][k].r) =>
              \E f2 \in (e + 1) .. Len(deques'[u]) : deques'[u][f2] = deques[u][f]
      BY <3>3
    <3>5. Grows(w, n, c2, d)
      BY <1>7
    <3>6. n # 0 => ~ Pushed(c2)
      BY <1>16
    <3>7. e \in DOMAIN deques[u]
      BY <3>1
    <3>8. deques'[u][e] = deques[u][e]
      BY <3>1
    <3>9. StaysBehind(w, n, u, e, e)
      BY <3>2, <3>4 DEF StaysBehind
    <3> QED BY <3>5, <3>6, <3>7, <3>8, <3>9, GrownOrder
  <2> QED BY <1>1, <2>1 DEF JobsInOrder
<1> HIDE DEF m
<1>25. JobsAreKept'
  <2>1. ASSUME NEW u \in Workers, NEW r, r \in Forked(u)'
        PROVE  \/ r \in done
               \/ \E e \in DOMAIN deques'[u] : deques'[u][e] = r
               \/ \E v \in Workers \ {u} : \E k \in DOMAIN stack'[v] : stack'[v][k].stolen /\ stack'[v][k].r = r
    <3>1. r \in Forked(u) /\ ~ (q /\ u = w /\ r = j)
      BY <1>23, <2>1
    <3>2. CASE \E e \in DOMAIN deques[u] : deques[u][e] = r
      <4>1. PICK e \in DOMAIN deques[u] : deques[u][e] = r
        BY <3>2
      <4>2. CASE q /\ u = w
        <5>1. e \in 1..m /\ e # m
          BY <1>9, <1>10, <3>1, <4>1, <4>2
        <5>2. e \in 1..(m - 1)
          BY <1>9, <5>1
        <5> QED BY <1>9, <4>1, <4>2, <5>2
      <4>3. CASE ~ (q /\ u = w)
        BY <1>9, <4>1, <4>3
      <4> QED BY <4>2, <4>3
    <3> QED BY <1>22, <3>1, <3>2 DEF Sound, JobsAreKept
  <2> QED BY <1>1, <2>1 DEF JobsAreKept
<1>26. JobsOutlived'
  <2>1. \A u \in Workers : \A e \in DOMAIN deques'[u] : deques'[u][e] \in Forked(u)' /\ deques'[u][e] \notin done
    BY <1>15, <1>23 DEF Sound, JobsOutlived
  <2>2. ASSUME NEW u \in Workers, NEW k \in DOMAIN stack'[u], stack'[u][k].stolen
        PROVE  stack'[u][k].r \notin done /\ \E v \in Workers : stack'[u][k].r \in Forked(v)'
    <3>1. PICK l \in DOMAIN stack[u] : stack[u][l].stolen /\ stack[u][l].r = stack'[u][k].r
      BY <1>2, <1>4, <1>5, <1>8, <2>2
    <3>2. q => stack[u][l].r # j
      BY <1>10, JobsAreNew
    <3> QED BY <1>23, <3>1, <3>2 DEF Sound, JobsOutlived
  <2> QED BY <1>1, <2>1, <2>2 DEF JobsOutlived
<1>27. LoneWorkerNeverRolls'
  <2>1. ASSUME num_threads = 1, NEW k \in DOMAIN stack'[0]
        PROVE  stack'[0][k].at \notin {"wait", "steal"} /\ ~ stack'[0][k].stolen
    <3>1. 0 \in Workers /\ w = 0 /\ ~ c.stolen
      BY <1>2, <2>1 DEF Workers, Sound, LoneWorkerNeverRolls
    <3>2. /\ \A l \in DOMAIN stack[0] : stack[0][l].at \notin {"wait", "steal"} /\ ~ stack[0][l].stolen
          /\ stack'[0][k] = d \/ stack'[0][k] = c2 \/ (k \in DOMAIN stack[0] /\ stack'[0][k] = stack[0][k])
      BY <1>8, <2>1, <3>1 DEF Sound, LoneWorkerNeverRolls
    <3> QED BY <1>4, <1>5, <3>1, <3>2
  <2> QED BY <1>1, <2>1 DEF Sound, LoneWorkerNeverRolls
<1> QED BY <1>17, <1>18, <1>19, <1>20, <1>21, <1>24, <1>25, <1>26, <1>27 DEF Sound

(* pop_top. *)
Takes(v) == deques' = [deques EXCEPT ![v] = Tail(@)]

LEMMA Taking ==
  ASSUME TypeOK, NEW v \in Workers, NEW m, m = Len(deques[v]), deques[v] # <<>>, Takes(v)
  PROVE  /\ m \in Nat /\ m # 0 /\ deques' \in [Workers -> Seq(Ranges)] /\ DOMAIN deques'[v] = 1..(m - 1)
         /\ Len(deques'[v]) = m - 1
         /\ DOMAIN deques[v] = 1..m /\ Head(deques[v]) = deques[v][1]
         /\ \A e \in 1..(m - 1) : deques'[v][e] = deques[v][e + 1]
         /\ \A u \in Workers \ {v} : deques'[u] = deques[u]
<1> DEFINE s == deques[v]
           a == Tail(s)
<1>1. /\ deques \in [Workers -> Seq(Ranges)] /\ s \in Seq(Ranges) /\ m = Len(s) /\ m \in Nat /\ m # 0 /\ s # <<>>
      /\ deques' = [deques EXCEPT ![v] = a] /\ DOMAIN s = 1..m
  BY Elements DEF TypeOK, Takes
<1> HIDE DEF s
<1>2. a \in Seq(Ranges) /\ Len(a) = m - 1 /\ Head(s) = s[1] /\ \A e \in 1..(m - 1) : a[e] = s[e + 1]
  BY <1>1, Rest
<1>3. DOMAIN a = 1..(m - 1)
  BY <1>1, <1>2
<1> HIDE DEF a
<1>4. deques' \in [Workers -> Seq(Ranges)] /\ deques'[v] = a /\ \A u \in Workers \ {v} : deques'[u] = deques[u]
  BY <1>1, <1>2
<1> QED BY <1>1, <1>2, <1>3, <1>4 DEF s

(* The call JobImpl::execute makes on a thief. *)
Executes(d, j) == d = Call(j, TRUE)

LEMMA StolenCall ==
  ASSUME Sound, NEW v \in Workers, deques[v] # <<>>, NEW j, j = Head(deques[v]), NEW d, Executes(d, j)
  PROVE  /\ 1 \in DOMAIN deques[v] /\ j = deques[v][1] /\ j \in Ranges
         /\ d \in Frame /\ d.r = j /\ d.at = "enter" /\ ~ d.in_deque /\ d.stolen /\ d.next = d.r.lo
         /\ HasItsPlace(d)
<1>1. 1 \in DOMAIN deques[v] /\ j = deques[v][1] /\ j \in Ranges
  <2>1. deques[v] \in Seq(Ranges) /\ DOMAIN deques[v] = 1..Len(deques[v])
    BY Elements DEF Sound
  <2> QED BY <2>1, Rest
<1>2. Span(j) # {}
  BY <1>1, JobsNotEmpty
<1>3. j.lo \in 0..N /\ j.hi \in 0..N /\ N \in Nat
  BY <1>1, SchedulerAssumption DEF Ranges
<1>4. j.lo < j.hi
  BY <1>2, <1>3 DEF Span
<1>5. d \in Frame /\ d.r = j /\ d.at = "enter" /\ ~ d.in_deque /\ d.stolen /\ d.next = d.r.lo
  BY <1>1, <1>3 DEF Frame, Places, Call, Executes
<1>6. HasItsPlace(d)
  <2>1. d.r.lo = j.lo /\ d.next = j.lo /\ d.r.hi = j.hi /\ j.lo \in Int /\ j.lo <= j.lo /\ j.lo <= j.hi
    BY <1>3, <1>4, <1>5
  <2> QED BY <1>5, <2>1 DEF HasItsPlace
<1> QED BY <1>1, <1>5, <1>6

(***************************************************************************)
(* A thief takes the oldest job of a victim and runs it, on top of the     *)
(* call that waits if it has one.                                          *)
(***************************************************************************)
LEMMA StealStep ==
  ASSUME Sound, NEW w \in Workers, NEW v \in Workers, v # w, deques[v] # <<>>, Takes(v),
         UNCHANGED <<num_threads, done, ran>>,
         NEW n, NEW c, NEW d, d.r = Head(deques[v]), d.stolen, Grows(w, n, c, d),
         stack' \in [Workers -> Seq(Frame)],
         n # 0 => /\ stack[w][n].at = "steal" /\ c.at = "wait" /\ c.r = stack[w][n].r
                  /\ c.in_deque = stack[w][n].in_deque /\ c.stolen = stack[w][n].stolen
                  /\ c.next = stack[w][n].next
  PROVE  Sound'
<1> DEFINE m == Len(deques[v])
           j == Head(deques[v])
<1>1. /\ 1 \in DOMAIN deques[v] /\ j = deques[v][1] /\ j \in Ranges
      /\ d.r = j /\ d.at = "enter" /\ ~ d.in_deque
  <2>1. deques[v] \in Seq(Ranges) /\ DOMAIN deques[v] = 1..Len(deques[v])
    BY Elements DEF Sound
  <2>2. 1 \in DOMAIN deques[v] /\ j = deques[v][1] /\ j \in Ranges
    BY <2>1, Rest
  <2> QED BY <2>2 DEF Grows
<1>2. /\ TypeOK /\ Workers' = Workers /\ n \in Nat /\ n = Len(stack[w])
      /\ DOMAIN stack[w] = 1..n /\ (n # 0 => n \in DOMAIN stack[w])
  BY DEF Sound, Grows
<1>3. /\ m \in Nat /\ m # 0 /\ deques' \in [Workers -> Seq(Ranges)] /\ DOMAIN deques'[v] = 1..(m - 1)
      /\ Len(deques'[v]) = m - 1
      /\ DOMAIN deques[v] = 1..m
      /\ \A e \in 1..(m - 1) : deques'[v][e] = deques[v][e + 1]
      /\ \A u \in Workers \ {v} : deques'[u] = deques[u]
  <2>1. m = Len(deques[v])
    OBVIOUS
  <2> HIDE DEF m
  <2>2. /\ m \in Nat /\ m # 0 /\ deques' \in [Workers -> Seq(Ranges)] /\ DOMAIN deques'[v] = 1..(m - 1)
        /\ Len(deques'[v]) = m - 1
        /\ DOMAIN deques[v] = 1..m /\ Head(deques[v]) = deques[v][1]
        /\ \A e \in 1..(m - 1) : deques'[v][e] = deques[v][e + 1]
        /\ \A u \in Workers \ {v} : deques'[u] = deques[u]
    BY <1>2, <2>1, Taking
  <2> QED BY <2>2
<1> HIDE DEF m, j
<1>4. ASSUME NEW u \in Workers, NEW k \in DOMAIN stack'[u]
      PROVE  \/ u = w /\ k = n + 1 /\ stack'[u][k] = d
             \/ u = w /\ k = n /\ n # 0 /\ n \in DOMAIN stack[w] /\ stack'[u][k] = c
             \/ /\ <<u, k>> \in Others(w, n) /\ u \in Workers /\ k \in DOMAIN stack[u]
                /\ stack'[u][k] = stack[u][k] /\ Len(stack[u]) \in Nat /\ k \in Nat
                /\ u = w => k < n
  BY GrownFrames
<1>5. \A u \in Workers : \A k \in DOMAIN stack[u] :
        GaveAway(stack[u][k], Span(j)) /\ Own(stack[u][k]) \cap Span(j) = {}
  <2> TAKE u \in Workers
  <2> TAKE k \in DOMAIN stack[u]
  <2>1. GaveAway(stack[u][k], Span(j))
    BY <1>1 DEF Sound, OwnersAreApart, CallsGaveJobsAway
  <2> QED BY <2>1, GaveOwn
<1>6. \A u \in Workers : \A e \in DOMAIN deques'[u] :
        \E f \in DOMAIN deques[u] :
          /\ f = IF u = v THEN e + 1 ELSE e
          /\ deques'[u][e] = deques[u][f] /\ <<u, f>> # <<v, 1>> /\ e \in Nat
          /\ Span(deques[u][f]) \cap Span(j) = {}
  <2> TAKE u \in Workers
  <2> TAKE e \in DOMAIN deques'[u]
  <2> DEFINE f == IF u = v THEN e + 1 ELSE e
  <2>1. f \in DOMAIN deques[u] /\ deques'[u][e] = deques[u][f] /\ <<u, f>> # <<v, 1>> /\ e \in Nat
    <3>1. CASE u = v
      <4>1. e \in 1..(m - 1) /\ e + 1 \in 1..m /\ e + 1 # 1 /\ e \in Nat
        BY <1>3, <3>1
      <4> QED BY <1>3, <3>1, <4>1
    <3>2. CASE u # v
      <4>1. deques'[u] = deques[u] /\ DOMAIN deques[u] = 1..Len(deques[u])
        BY <1>2, <1>3, <3>2, Elements
      <4> QED BY <3>2, <4>1
    <3> QED BY <3>1, <3>2
  <2> HIDE DEF f
  <2>2. Span(deques[u][f]) \cap Span(j) = {}
    BY <1>1, <2>1 DEF Sound, OwnersAreApart, JobsAreApart
  <2> QED BY <2>1, <2>2 DEF f
<1>7. n # 0 => /\ \A P : GaveAway(stack[w][n], P) => GaveAway(c, P)
               /\ Own(c) = {} /\ GaveAway(c, Span(j))
  <2>1. n # 0 => \A P : GaveAway(stack[w][n], P) => GaveAway(c, P)
    BY DEF GaveAway
  <2>2. n # 0 => Own(c) = {}
    BY DEF Own
  <2> QED BY <1>2, <1>5, <2>1, <2>2
<1>8. j \notin done /\ (\A u \in Workers : \A k \in DOMAIN stack[u] : stack[u][k].r # j) /\ j \in Forked(v)
  BY <1>1, JobsAreNew DEF Sound, JobsOutlived
<1>9. TypeOK'
  BY <1>2, <1>3 DEF TypeOK
<1>10. OwnersAreApart'
  <2>1. n # 0 => /\ Own(c) \subseteq Span(j) /\ GaveAway(c, Span(d.r)) /\ Own(c) \cap Span(d.r) = {}
                 /\ \A P : GaveAway(stack[w][n], P) /\ P \cap Span(j) = {} => GaveAway(c, P)
    BY <1>1, <1>7
  <2>2. Span(d.r) \subseteq Span(j)
    BY <1>1
  <2>3. \A p \in Others(w, n) : GaveAway(stack[p[1]][p[2]], Span(j)) /\ Own(stack[p[1]][p[2]]) \cap Span(j) = {}
    BY <1>5 DEF Others
  <2>4. PassesOn(w, n, c, d, Span(j))
    BY <2>1, <2>2, <2>3 DEF PassesOn
  <2>5. CallsAreApart'
    BY <2>4, GrownApart
  <2>6. JobsAreOutside(c, d, Span(j))
    <3> SUFFICES \A u \in Workers : \A e \in DOMAIN deques'[u] :
                   /\ Span(deques'[u][e]) \cap Span(j) = {}
                   /\ \E f \in DOMAIN deques[u] : deques'[u][e] = deques[u][f]
      BY DEF JobsAreOutside
    <3> TAKE u \in Workers
    <3> TAKE e \in DOMAIN deques'[u]
    <3>1. PICK f \in DOMAIN deques[u] : deques'[u][e] = deques[u][f] /\ Span(deques[u][f]) \cap Span(j) = {}
      BY <1>6
    <3> QED BY <3>1
  <2>8. CallsGaveJobsAway'
    BY <2>4, <2>6, GrownGaveJobs
  <2>9. JobsAreApart'
    <3>1. ASSUME NEW x \in Workers, NEW y \in Workers, NEW e \in DOMAIN deques'[x], NEW f \in DOMAIN deques'[y],
                 <<x, e>> # <<y, f>>
          PROVE  Span(deques'[x][e]) \cap Span(deques'[y][f]) = {}
      <4>1. PICK g \in DOMAIN deques[x] : g = (IF x = v THEN e + 1 ELSE e) /\ deques'[x][e] = deques[x][g] /\ e \in Nat
        BY <1>6
      <4>2. PICK h \in DOMAIN deques[y] : h = (IF y = v THEN f + 1 ELSE f) /\ deques'[y][f] = deques[y][h] /\ f \in Nat
        BY <1>6
      <4>3. <<x, g>> # <<y, h>>
        BY <3>1, <4>1, <4>2
      <4>4. Span(deques[x][g]) \cap Span(deques[y][h]) = {}
        BY <4>3 DEF Sound, OwnersAreApart, JobsAreApart
      <4> QED BY <4>1, <4>2, <4>4
    <3> QED BY <1>2, <3>1 DEF JobsAreApart
  <2> QED BY <2>5, <2>8, <2>9 DEF OwnersAreApart
<1>11. CallsAreNested'
  <2>1. n # 0 => HasItsPlace(stack[w][n])
    BY <1>2 DEF Sound, CallsAreNested
  <2>2. n # 0 => HasItsPlace(c)
    BY <2>1 DEF HasItsPlace
  <2>3. n # 0 => /\ HasItsPlace(c) /\ c.at \in {"left", "right", "wait"} /\ c.r = stack[w][n].r
                 /\ c.at = "left" => d.r = Left(c.r)
                 /\ c.at = "right" => d.r = Right(c.r)
    BY <2>2
  <2> QED BY <2>3, GrownNested
<1>12. RanOnce'
  <2>1. n # 0 => RanSoFar(stack[w][n], TRUE, ran)
    BY <1>2 DEF Sound, RanOnce
  <2>2. n # 0 => RanSoFar(c, FALSE, ran)
    BY <1>7, <2>1 DEF RanSoFar
  <2>3. \A i \in Span(d.r) : ran[i] = 0
    <3>1. \A i \in Span(deques[v][1]) : ran[i] = 0
      BY <1>1 DEF Sound, RanOnce
    <3> QED BY <1>1, <3>1
  <2>4. \A u \in Workers : \A e \in DOMAIN deques'[u] : \A i \in Span(deques'[u][e]) : ran[i] = 0
    <3> TAKE u \in Workers
    <3> TAKE e \in DOMAIN deques'[u]
    <3>1. PICK f \in DOMAIN deques[u] : deques'[u][e] = deques[u][f]
      BY <1>6
    <3> QED BY <3>1 DEF Sound, RanOnce
  <2> QED BY <2>2, <2>3, <2>4, GrownRan
<1>13. JobsDiffer'
  <2>1. n # 0 => c.r = stack[w][n].r /\ c.stolen = stack[w][n].stolen
    OBVIOUS
  <2>2. \A p \in Others(w, n) : LET g == stack[p[1]][p[2]] IN g.at # "enter" /\ n # 0 => Right(g.r) # Right(c.r)
    <3> TAKE p \in Others(w, n)
    <3>1. p[1] \in Workers /\ p[2] \in DOMAIN stack[p[1]] /\ <<p[1], p[2]>> # <<w, n>>
      BY DEF Others
    <3> QED BY <1>2, <3>1 DEF Sound, JobsDiffer
  <2>3. d.stolen => \A u \in Workers : \A k \in DOMAIN stack[u] : stack[u][k].r # d.r
    BY <1>1, <1>8
  <2> QED BY <2>1, <2>2, <2>3, GrownJobs
<1>14. \A u \in Workers : \A k \in DOMAIN stack[u] :
         /\ k \in DOMAIN stack'[u] /\ stack'[u][k] = IF u = w /\ k = n THEN c ELSE stack[u][k]
         /\ stack'[u][k].r = stack[u][k].r /\ stack'[u][k].stolen = stack[u][k].stolen
         /\ u = w /\ k = n => n # 0
  <2> TAKE u \in Workers
  <2> TAKE k \in DOMAIN stack[u]
  <2>1. /\ k \in DOMAIN stack'[u]
        /\ stack'[u][k] = IF u = w /\ k = n THEN c ELSE stack[u][k]
    BY GrownKeeps
  <2>2. u = w /\ k = n => n # 0
    BY <1>2
  <2> QED BY <2>1, <2>2
<1>15. /\ d = stack'[w][n + 1] /\ n + 1 \in DOMAIN stack'[w]
  <2>1. DOMAIN stack'[w] = 1..(n + 1)
    BY DEF Grows
  <2>2. n + 1 \in DOMAIN stack'[w]
    BY <1>2, <2>1
  <2> QED BY <2>2 DEF Grows
<1>16. \A u \in Workers : \A r : r \in Forked(u)' <=> r \in Forked(u)
  <2>1. ASSUME NEW u \in Workers, NEW r, r \in Forked(u) PROVE r \in Forked(u)'
    <3>1. PICK k \in DOMAIN stack[u] : /\ stack[u][k].in_deque
                    /\ stack[u][k].at \in {"left", "wait", "steal"} /\ r = Right(stack[u][k].r)
      BY <2>1, ForkedMembers
    <3>2. /\ k \in DOMAIN stack'[u] /\ stack'[u][k].in_deque
          /\ stack'[u][k].at \in {"left", "wait", "steal"} /\ r = Right(stack'[u][k].r)
      BY <1>14, <3>1
    <3> QED BY <3>2, ForkedMembers
  <2>2. ASSUME NEW u \in Workers, NEW r, r \in Forked(u)' PROVE r \in Forked(u)
    <3>1. PICK k \in DOMAIN stack'[u] : /\ stack'[u][k].in_deque
                    /\ stack'[u][k].at \in {"left", "wait", "steal"} /\ r = Right(stack'[u][k].r)
      BY <2>2, ForkedMembers
    <3>2. k \in DOMAIN stack[u]
      BY <1>1, <1>4, <3>1
    <3>3. /\ stack[u][k].in_deque /\ stack[u][k].at \in {"left", "wait", "steal"} /\ r = Right(stack[u][k].r)
      BY <1>14, <3>1, <3>2
    <3> QED BY <3>2, <3>3, ForkedMembers
  <2> QED BY <2>1, <2>2
<1>17. JobsInOrder'
  <2>1. ASSUME NEW u \in Workers, NEW e2 \in DOMAIN deques'[u]
        PROVE  \E k \in DOMAIN stack'[u] :
                 /\ Pushed(stack'[u][k]) /\ deques'[u][e2] = Right(stack'[u][k].r)
                 /\ \A l \in (k + 1) .. Len(stack'[u]) : Pushed(stack'[u][l]) =>
                      \E f \in (e2 + 1) .. Len(deques'[u]) : deques'[u][f] = Right(stack'[u][l].r)
    <3>1. PICK e \in DOMAIN deques[u] :
            e = (IF u = v THEN e2 + 1 ELSE e2) /\ deques'[u][e2] = deques[u][e] /\ e2 \in Nat
      BY <1>6
    <3>2. n # 0 => ~ Pushed(c) /\ ~ Pushed(stack[w][n])
      BY DEF Pushed
    <3>3. ASSUME NEW f \in (e + 1) .. Len(deques[u])
          PROVE  \E f2 \in (e2 + 1) .. Len(deques'[u]) : deques'[u][f2] = deques[u][f]
      <4>1. CASE u # v
        BY <1>3, <3>1, <4>1
      <4>2. CASE u = v
        <5>1. Len(deques[u]) = m /\ Len(deques'[u]) = m - 1
          BY <1>3, <4>2 DEF m
        <5>2. f - 1 \in 1..(m - 1) /\ f - 1 \in (e2 + 1) .. (m - 1) /\ (f - 1) + 1 = f
          BY <1>3, <3>1, <4>2, <5>1
        <5>3. deques'[v][f - 1] = deques[v][f]
          BY <1>3, <5>2
        <5> QED BY <4>2, <5>1, <5>2, <5>3
      <4> QED BY <4>1, <4>2
    <3>4. \A f \in (e + 1) .. Len(deques[u]), k \in DOMAIN stack[u] :
            Pushed(stack[u][k]) /\ ~ (u = w /\ k = n) /\ deques[u][f] = Right(stack[u][k].r) =>
              \E f2 \in (e2 + 1) .. Len(deques'[u]) : deques'[u][f2] = deques[u][f]
      BY <3>3
    <3>5. n # 0 => ~ Pushed(c)
      BY <3>2
    <3>6. u = w /\ n # 0 /\ Pushed(stack[w][n]) => deques[u][e] # Right(stack[w][n].r)
      BY <3>2
    <3>7. deques'[u][e2] = deques[u][e]
      BY <3>1
    <3>8. StaysBehind(w, n, u, e, e2)
      BY <3>4, <3>6 DEF StaysBehind
    <3> QED BY <3>5, <3>7, <3>8, GrownOrder
  <2> QED BY <1>2, <2>1 DEF JobsInOrder
<1>18. JobsAreKept'
  <2>1. ASSUME NEW u \in Workers, NEW r, r \in Forked(u)'
        PROVE  \/ r \in done
               \/ \E e \in DOMAIN deques'[u] : deques'[u][e] = r
               \/ \E x \in Workers \ {u} : \E k \in DOMAIN stack'[x] : stack'[x][k].stolen /\ stack'[x][k].r = r
    <3>1. r \in Forked(u)
      BY <1>16, <2>1
    <3>2. CASE \E e \in DOMAIN deques[u] : deques[u][e] = r
      <4>1. PICK e \in DOMAIN deques[u] : deques[u][e] = r
        BY <3>2
      <4>2. CASE u # v
        BY <1>3, <4>1, <4>2
      <4>3. CASE u = v /\ e = 1
        <5>1. w \in Workers \ {u} /\ stack'[w][n + 1].stolen /\ stack'[w][n + 1].r = r
          BY <1>1, <1>15, <4>1, <4>3
        <5> QED BY <1>15, <5>1
      <4>4. CASE u = v /\ e # 1
        <5>1. e - 1 \in 1..(m - 1) /\ (e - 1) + 1 = e
          BY <1>3, <4>1, <4>4
        <5>2. deques'[v][e - 1] = r
          BY <1>3, <4>1, <4>4, <5>1
        <5> QED BY <1>3, <4>4, <5>1, <5>2
      <4> QED BY <4>2, <4>3, <4>4
    <3>3. \/ r \in done
          \/ \E e \in DOMAIN deques[u] : deques[u][e] = r
          \/ \E x \in Workers \ {u} : \E k \in DOMAIN stack[x] : stack[x][k].stolen /\ stack[x][k].r = r
      BY <3>1 DEF Sound, JobsAreKept
    <3>4. CASE \E x \in Workers \ {u} : \E k \in DOMAIN stack[x] : stack[x][k].stolen /\ stack[x][k].r = r
      <4>0. PICK x \in Workers \ {u} : \E k \in DOMAIN stack[x] : stack[x][k].stolen /\ stack[x][k].r = r
        BY <3>4
      <4>1. PICK k \in DOMAIN stack[x] : stack[x][k].stolen /\ stack[x][k].r = r
        BY <4>0
      <4>2. k \in DOMAIN stack'[x] /\ stack'[x][k].stolen /\ stack'[x][k].r = r
        BY <1>14, <4>1
      <4> QED BY <4>2
    <3> QED BY <3>2, <3>3, <3>4
  <2> QED BY <1>2, <2>1 DEF JobsAreKept
<1>19. JobsOutlived'
  <2>1. \A u \in Workers : \A e \in DOMAIN deques'[u] : deques'[u][e] \in Forked(u)' /\ deques'[u][e] \notin done
    <3> TAKE u \in Workers
    <3> TAKE e \in DOMAIN deques'[u]
    <3>1. PICK f \in DOMAIN deques[u] : deques'[u][e] = deques[u][f]
      BY <1>6
    <3>2. deques[u][f] \in Forked(u) /\ deques[u][f] \notin done
      BY DEF Sound, JobsOutlived
    <3> QED BY <1>16, <3>1, <3>2
  <2>2. ASSUME NEW u \in Workers, NEW k \in DOMAIN stack'[u], stack'[u][k].stolen
        PROVE  stack'[u][k].r \notin done /\ \E x \in Workers : stack'[u][k].r \in Forked(x)'
    <3>1. CASE stack'[u][k] = d
      BY <1>1, <1>8, <1>16, <3>1
    <3>2. CASE k \in DOMAIN stack[u]
      BY <1>14, <1>16, <2>2, <3>2 DEF Sound, JobsOutlived
    <3> QED BY <1>4, <3>1, <3>2
  <2> QED BY <1>2, <2>1, <2>2 DEF JobsOutlived
<1>20. LoneWorkerNeverRolls'
  <2>1. num_threads = 1 => w = v
    BY DEF Workers
  <2> QED BY <2>1 DEF LoneWorkerNeverRolls
<1> QED BY <1>9, <1>10, <1>11, <1>12, <1>13, <1>17, <1>18, <1>19, <1>20 DEF Sound

(* A call that has nothing left to do has run its whole range. *)
LEMMA FinishedCovers ==
  ASSUME Sound, NEW w \in Workers, Busy(w), Finished(Top(w))
  PROVE  Covered(Top(w).r, ran)
<1> DEFINE n == Len(stack[w])
           c == Top(w)
<1> SUFFICES Covered(c.r, ran)
  OBVIOUS
<1>1. /\ n \in DOMAIN stack[w] /\ c = stack[w][n] /\ c \in Frame /\ c.r \in Ranges /\ HasItsPlace(c)
  BY Elements, CallSpans DEF Sound, Top
<1>2. RanSoFar(c, TRUE, ran)
  BY <1>1 DEF Sound, RanOnce
<1>3. CASE c.at = "enter"
  <2>1. c.next >= c.r.hi
    BY <1>3 DEF Finished
  <2>2. c.next = c.r.hi
    BY <1>1, <2>1, SchedulerAssumption DEF HasItsPlace, Frame, Ranges
  <2> HIDE DEF c
  <2> QED BY <1>2, <1>3, <2>2 DEF RanSoFar, Covered
<1>4. CASE c.at # "enter"
  <2>1. /\ Left(c.r) \in Ranges /\ Right(c.r) \in Ranges
        /\ Span(Left(c.r)) \cup Span(Right(c.r)) = Span(c.r)
    BY <1>1, <1>4, Halves DEF HasItsPlace
  <2>2. c.at = "right" \/ (c.at = "wait" /\ Right(c.r) \in done)
    BY <1>4 DEF Finished
  <2>3. Covered(Left(c.r), ran)
    BY <1>2, <2>2 DEF RanSoFar
  <2>4. Covered(Right(c.r), ran)
    BY <1>2, <2>2 DEF RanSoFar, Sound, RanOnce
  <2> HIDE DEF c
  <2> QED BY <1>1, <2>1, <2>3, <2>4, RangeSpans
<1> QED BY <1>3, <1>4

(***************************************************************************)
(* The innermost call returns.  If it was a job, no other thief runs it,   *)
(* and the call that forked it may go on.                                  *)
(***************************************************************************)
LEMMA ReturnStep ==
  ASSUME Sound, NEW w \in Workers, Return(w)
  PROVE  Sound'
<1> DEFINE n == Len(stack[w])
           c == Top(w)
<1>1. /\ Busy(w) /\ Finished(c) /\ Returns(w) /\ UNCHANGED <<num_threads, deques, ran>> /\ Workers' = Workers
      /\ done' = IF c.stolen THEN done \cup {c.r} ELSE done
  BY DEF Return, Returns, Workers
<1>2. /\ TypeOK /\ n \in DOMAIN stack[w] /\ n \in Nat /\ n # 0 /\ c = stack[w][n] /\ c \in Frame /\ c.r \in Ranges
      /\ \A u \in Workers : DOMAIN stack[u] = 1..Len(stack[u]) /\ Len(stack[u]) \in Nat
  BY <1>1, Elements DEF Sound, Top
<1>3. Covered(c.r, ran)
  BY <1>1, FinishedCovers
<1>4. /\ stack' \in [Workers -> Seq(Frame)]
      /\ \A u \in Workers :
           /\ DOMAIN stack'[u] = IF u = w THEN 1..(n - 1) ELSE DOMAIN stack[u]
           /\ Len(stack'[u]) = IF u = w THEN n - 1 ELSE Len(stack[u])
           /\ \A k \in DOMAIN stack'[u] : stack'[u][k] = stack[u][k]
  <2>1. n = Len(stack[w])
    OBVIOUS
  <2> HIDE DEF n
  <2> QED BY <1>1, <1>2, <2>1, Returning
<1>5. \A u \in Workers : \A k \in DOMAIN stack'[u] :
        k \in DOMAIN stack[u] /\ stack'[u][k] = stack[u][k] /\ <<u, k>> # <<w, n>> /\ (u = w => k < n) /\ k \in Nat
  <2> TAKE u \in Workers
  <2> TAKE k \in DOMAIN stack'[u]
  <2> HIDE DEF n
  <2>1. CASE u = w
    <3>1. k \in 1..(n - 1) /\ DOMAIN stack[w] = 1..n
      BY <1>2, <1>4, <2>1 DEF n
    <3>2. k \in 1..n /\ k # n /\ k < n /\ k \in Nat
      BY <1>2, <3>1
    <3> QED BY <1>4, <2>1, <3>1, <3>2
  <2>2. CASE u # w
    <3>1. k \in DOMAIN stack[u] /\ k \in Nat
      BY <1>2, <1>4, <2>2
    <3> QED BY <1>4, <2>2, <3>1
  <2> QED BY <2>1, <2>2
<1>6. \A u \in Workers : \A k \in DOMAIN stack[u] : <<u, k>> # <<w, n>> =>
        k \in DOMAIN stack'[u] /\ stack'[u][k] = stack[u][k]
  <2> TAKE u \in Workers
  <2> TAKE k \in DOMAIN stack[u]
  <2> HAVE <<u, k>> # <<w, n>>
  <2>1. CASE u = w
    <3> HIDE DEF n
    <3>1. k \in 1..n /\ k # n
      BY <1>2, <2>1 DEF n
    <3>2. k \in 1..(n - 1)
      BY <1>2, <3>1
    <3> QED BY <1>4, <2>1, <3>2
  <2>2. CASE u # w
    BY <1>4, <2>2
  <2> QED BY <2>1, <2>2
<1>7. /\ ~ Pushed(c)
      /\ c.at \in {"left", "wait", "steal"} => Right(c.r) \in done
  BY <1>1 DEF Finished, Pushed
<1>8. RanSoFar(c, TRUE, ran) /\ HasItsPlace(c)
  BY <1>2 DEF Sound, RanOnce, CallsAreNested
<1>9. /\ done \subseteq done' /\ \A r \in done' : r \in done \/ (c.stolen /\ r = c.r)
      /\ c.stolen => c.r \in done'
  BY <1>1
<1>10. TypeOK'
  BY <1>1, <1>2, <1>4 DEF TypeOK
<1>11. OwnersAreApart'
  <2>1. CallsAreApart'
    <3>1. ASSUME NEW u \in Workers, NEW v \in Workers, NEW k \in DOMAIN stack'[u], NEW l \in DOMAIN stack'[v],
                 <<u, k>> # <<v, l>>
          PROVE  GaveAway(stack'[v][l], Own(stack'[u][k]))
      <4>1. k \in DOMAIN stack[u] /\ stack'[u][k] = stack[u][k] /\ l \in DOMAIN stack[v] /\ stack'[v][l] = stack[v][l]
        BY <1>5
      <4> QED BY <3>1, <4>1 DEF Sound, OwnersAreApart, CallsAreApart
    <3> QED BY <1>1, <3>1 DEF CallsAreApart
  <2>2. CallsGaveJobsAway'
    <3>1. ASSUME NEW u \in Workers, NEW v \in Workers, NEW e \in DOMAIN deques[u], NEW l \in DOMAIN stack'[v]
          PROVE  GaveAway(stack'[v][l], Span(deques[u][e]))
      <4>1. l \in DOMAIN stack[v] /\ stack'[v][l] = stack[v][l]
        BY <1>5
      <4> QED BY <4>1 DEF Sound, OwnersAreApart, CallsGaveJobsAway
    <3> QED BY <1>1, <3>1 DEF CallsGaveJobsAway
  <2>3. JobsAreApart'
    BY <1>1, JobsApartStay DEF Sound, OwnersAreApart
  <2> QED BY <2>1, <2>2, <2>3 DEF OwnersAreApart
<1> HIDE DEF c
<1>12. CallsAreNested'
  <2>1. ASSUME NEW u \in Workers, NEW k \in DOMAIN stack'[u]
        PROVE  LET g == stack'[u][k]
               IN  /\ HasItsPlace(g)
                   /\ g.at \in {"enter", "steal"} => k = Len(stack'[u])
                   /\ k < Len(stack'[u]) => /\ g.at = "left" => stack'[u][k + 1].r = Left(g.r)
                                            /\ g.at = "right" => stack'[u][k + 1].r = Right(g.r)
    <3>1. k \in DOMAIN stack[u] /\ stack'[u][k] = stack[u][k] /\ (u = w => k < Len(stack[u])) /\ k \in Nat
      BY <1>5
    <3>2. LET g == stack[u][k]
          IN  /\ HasItsPlace(g)
              /\ g.at \in {"enter", "steal"} => k = Len(stack[u])
              /\ k < Len(stack[u]) => /\ g.at = "left" => stack[u][k + 1].r = Left(g.r)
                                      /\ g.at = "right" => stack[u][k + 1].r = Right(g.r)
      BY <3>1 DEF Sound, CallsAreNested
    <3>3. Len(stack'[u]) = (IF u = w THEN n - 1 ELSE Len(stack[u])) /\ Len(stack[u]) \in Nat
      BY <1>2, <1>4
    <3>4. k < Len(stack'[u]) => k + 1 \in DOMAIN stack'[u] /\ stack'[u][k + 1] = stack[u][k + 1] /\ k < Len(stack[u])
      <4>1. CASE u = w
        <5>1. k < n - 1 => k + 1 \in 1..(n - 1) /\ k < n
          BY <1>2, <3>1
        <5> QED BY <1>4, <3>3, <4>1, <5>1
      <4>2. CASE u # w
        <5>1. k < Len(stack[u]) => k + 1 \in 1..Len(stack[u])
          BY <3>1, <3>3
        <5>2. DOMAIN stack'[u] = 1..Len(stack[u])
          BY <1>2, <1>4, <4>2
        <5> QED BY <1>4, <3>3, <4>2, <5>1, <5>2
      <4> QED BY <4>1, <4>2
    <3>5. stack[u][k].at \in {"enter", "steal"} => u # w
      BY <1>2, <3>1, <3>2
    <3> QED BY <3>1, <3>2, <3>3, <3>4, <3>5
  <2> QED BY <1>1, <2>1 DEF CallsAreNested
<1>13. RanOnce'
  <2>1. ASSUME NEW u \in Workers, NEW k \in DOMAIN stack'[u]
        PROVE  RanSoFar(stack'[u][k], k = Len(stack'[u]), ran)
    <3>1. k \in DOMAIN stack[u] /\ stack'[u][k] = stack[u][k] /\ (u = w => k < n) /\ k \in Nat
      BY <1>5
    <3>2. RanSoFar(stack[u][k], k = Len(stack[u]), ran)
      BY <3>1 DEF Sound, RanOnce
    <3>3. Len(stack'[u]) = IF u = w THEN n - 1 ELSE Len(stack[u])
      BY <1>4
    <3>4. CASE u = w /\ k = n - 1
      <4> DEFINE g == stack[w][k]
      <4>1. (k = Len(stack'[u])) = TRUE /\ (k = Len(stack[u])) = FALSE /\ k + 1 = n
        BY <1>2, <3>1, <3>3, <3>4
      <4>2. /\ g.at = "left" => c.r = Left(g.r)
            /\ g.at = "right" => c.r = Right(g.r)
        BY <1>2, <3>1, <3>4, <4>1 DEF Sound, CallsAreNested
      <4>3. RanSoFar(g, FALSE, ran) /\ stack'[u][k] = g
        BY <3>1, <3>2, <3>4, <4>1
      <4> HIDE DEF g
      <4>4. RanSoFar(g, TRUE, ran)
        BY <1>3, <4>2, <4>3 DEF RanSoFar
      <4> QED BY <4>1, <4>3, <4>4
    <3>5. CASE ~ (u = w /\ k = n - 1)
      <4>1. (k = Len(stack'[u])) = (k = Len(stack[u]))
        BY <1>2, <3>1, <3>3, <3>5
      <4> QED BY <3>1, <3>2, <4>1
    <3> QED BY <3>4, <3>5
  <2>2. \A r \in done' : Covered(r, ran)
    BY <1>3, <1>9 DEF Sound, RanOnce
  <2> QED BY <1>1, <2>1, <2>2 DEF Sound, RanOnce
<1> HIDE DEF n
<1>14. JobsInOrder'
  <2>1. ASSUME NEW u \in Workers, NEW e \in DOMAIN deques[u]
        PROVE  \E k \in DOMAIN stack'[u] :
                 /\ Pushed(stack'[u][k]) /\ deques[u][e] = Right(stack'[u][k].r)
                 /\ \A l \in (k + 1) .. Len(stack'[u]) : Pushed(stack'[u][l]) =>
                      \E f \in (e + 1) .. Len(deques[u]) : deques[u][f] = Right(stack'[u][l].r)
    <3>1. PICK k \in DOMAIN stack[u] :
            /\ Pushed(stack[u][k]) /\ deques[u][e] = Right(stack[u][k].r)
            /\ \A l \in (k + 1) .. Len(stack[u]) : Pushed(stack[u][l]) =>
                 \E f \in (e + 1) .. Len(deques[u]) : deques[u][f] = Right(stack[u][l].r)
      BY DEF Sound, JobsInOrder
    <3>2. k \in DOMAIN stack'[u] /\ stack'[u][k] = stack[u][k]
      BY <1>2, <1>6, <1>7, <3>1
    <3>3. ASSUME NEW l \in (k + 1) .. Len(stack'[u])
          PROVE  stack'[u][l] = stack[u][l] /\ l \in (k + 1) .. Len(stack[u])
      <4>1. DOMAIN stack'[u] = 1..Len(stack'[u]) /\ Len(stack'[u]) \in Nat
        <5>1. CASE u = w
          BY <1>2, <1>4, <5>1
        <5>2. CASE u # w
          BY <1>2, <1>4, <5>2
        <5> QED BY <5>1, <5>2
      <4>2. k \in Nat /\ k # 0
        BY <1>2
      <4>3. l \in DOMAIN stack'[u] /\ l \in Nat /\ k + 1 <= l
        BY <4>1, <4>2
      <4>4. l \in DOMAIN stack[u] /\ stack'[u][l] = stack[u][l]
        BY <1>5, <4>3
      <4>5. l \in 1..Len(stack[u]) /\ Len(stack[u]) \in Nat
        BY <1>2, <4>4
      <4> QED BY <4>2, <4>3, <4>4, <4>5
    <3> QED BY <3>1, <3>2, <3>3
  <2> QED BY <1>1, <2>1 DEF JobsInOrder
<1>15. JobsDiffer'
  <2>1. ASSUME NEW u \in Workers, NEW v \in Workers, NEW k \in DOMAIN stack'[u], NEW l \in DOMAIN stack'[v],
               <<u, k>> # <<v, l>>
        PROVE  LET a == stack'[u][k]
                   b == stack'[v][l]
               IN  /\ a.at # "enter" /\ b.at # "enter" => Right(a.r) # Right(b.r)
                   /\ a.stolen /\ b.stolen => a.r # b.r
    <3>1. k \in DOMAIN stack[u] /\ stack'[u][k] = stack[u][k] /\ l \in DOMAIN stack[v] /\ stack'[v][l] = stack[v][l]
      BY <1>5
    <3> QED BY <2>1, <3>1 DEF Sound, JobsDiffer
  <2> QED BY <1>1, <2>1 DEF JobsDiffer
<1>16. \A u \in Workers : \A r : (r \in Forked(u)' => r \in Forked(u)) /\ (r \in Forked(u) /\ r \notin done => r \in Forked(u)')
  <2>1. ASSUME NEW u \in Workers, NEW r, r \in Forked(u), r \notin done PROVE r \in Forked(u)'
    <3>1. PICK k \in DOMAIN stack[u] : /\ stack[u][k].in_deque
                    /\ stack[u][k].at \in {"left", "wait", "steal"} /\ r = Right(stack[u][k].r)
      BY <2>1, ForkedMembers
    <3>2. k \in DOMAIN stack'[u] /\ stack'[u][k] = stack[u][k]
      BY <1>2, <1>6, <1>7, <2>1, <3>1
    <3> QED BY <3>1, <3>2, ForkedMembers
  <2>2. ASSUME NEW u \in Workers, NEW r, r \in Forked(u)' PROVE r \in Forked(u)
    <3>1. PICK k \in DOMAIN stack'[u] : /\ stack'[u][k].in_deque
                    /\ stack'[u][k].at \in {"left", "wait", "steal"} /\ r = Right(stack'[u][k].r)
      BY <2>2, ForkedMembers
    <3>2. k \in DOMAIN stack[u] /\ stack'[u][k] = stack[u][k]
      BY <1>5
    <3> QED BY <3>1, <3>2, ForkedMembers
  <2> QED BY <2>1, <2>2
<1>17. JobsAreKept'
  <2>1. ASSUME NEW u \in Workers, NEW r, r \in Forked(u)'
        PROVE  \/ r \in done'
               \/ \E e \in DOMAIN deques[u] : deques[u][e] = r
               \/ \E x \in Workers \ {u} : \E k \in DOMAIN stack'[x] : stack'[x][k].stolen /\ stack'[x][k].r = r
    <3>1. \/ r \in done
          \/ \E e \in DOMAIN deques[u] : deques[u][e] = r
          \/ \E x \in Workers \ {u} : \E k \in DOMAIN stack[x] : stack[x][k].stolen /\ stack[x][k].r = r
      BY <1>16, <2>1 DEF Sound, JobsAreKept
    <3>2. CASE \E x \in Workers \ {u} : \E k \in DOMAIN stack[x] : stack[x][k].stolen /\ stack[x][k].r = r
      <4>1. PICK x \in Workers \ {u} : \E k \in DOMAIN stack[x] : stack[x][k].stolen /\ stack[x][k].r = r
        BY <3>2
      <4>2. PICK k \in DOMAIN stack[x] : stack[x][k].stolen /\ stack[x][k].r = r
        BY <4>1
      <4>3. CASE <<x, k>> = <<w, n>>
        BY <1>2, <1>9, <4>2, <4>3
      <4>4. CASE <<x, k>> # <<w, n>>
        <5>1. k \in DOMAIN stack'[x] /\ stack'[x][k] = stack[x][k]
          BY <1>6, <4>4
        <5> QED BY <4>2, <5>1
      <4> QED BY <4>3, <4>4
    <3> QED BY <1>9, <3>1, <3>2
  <2> QED BY <1>1, <2>1 DEF JobsAreKept
<1>18. JobsOutlived'
  <2>1. ASSUME NEW u \in Workers, NEW e \in DOMAIN deques[u]
        PROVE  deques[u][e] \in Forked(u)' /\ deques[u][e] \notin done'
    <3>1. deques[u][e] \in Forked(u) /\ deques[u][e] \notin done
      BY DEF Sound, JobsOutlived
    <3>2. c.r # deques[u][e]
      BY <1>2, JobsAreNew
    <3> QED BY <1>9, <1>16, <3>1, <3>2
  <2>2. ASSUME NEW u \in Workers, NEW k \in DOMAIN stack'[u], stack'[u][k].stolen
        PROVE  stack'[u][k].r \notin done' /\ \E v \in Workers : stack'[u][k].r \in Forked(v)'
    <3>1. k \in DOMAIN stack[u] /\ stack'[u][k] = stack[u][k] /\ <<u, k>> # <<w, n>>
      BY <1>5
    <3>2. stack[u][k].r \notin done /\ \E v \in Workers : stack[u][k].r \in Forked(v)
      BY <2>2, <3>1 DEF Sound, JobsOutlived
    <3>3. c.stolen => stack[u][k].r # c.r
      BY <1>2, <2>2, <3>1 DEF Sound, JobsDiffer
    <3> QED BY <1>9, <1>16, <3>1, <3>2, <3>3
  <2> QED BY <1>1, <2>1, <2>2 DEF JobsOutlived
<1>19. LoneWorkerNeverRolls'
  <2>1. ASSUME num_threads = 1
        PROVE  /\ done' = {}
               /\ \A k \in DOMAIN stack'[0] : stack'[0][k].at \notin {"wait", "steal"} /\ ~ stack'[0][k].stolen
    <3>1. 0 \in Workers /\ w = 0
      BY <2>1 DEF Workers
    <3>2. done = {} /\ \A k \in DOMAIN stack[0] : stack[0][k].at \notin {"wait", "steal"} /\ ~ stack[0][k].stolen
      BY <2>1 DEF Sound, LoneWorkerNeverRolls
    <3>3. ~ c.stolen
      BY <1>2, <3>1, <3>2
    <3> QED BY <1>1, <1>5, <3>1, <3>2, <3>3
  <2> QED BY <1>1, <2>1 DEF LoneWorkerNeverRolls
<1> QED BY <1>10, <1>11, <1>12, <1>13, <1>14, <1>15, <1>17, <1>18, <1>19 DEF Sound

LEMMA StealIdleStep ==
  ASSUME Sound, NEW w \in Workers, StealIdle(w)
  PROVE  Sound'
<1>1. PICK v \in Victims(w) :
        /\ deques[v] # <<>>
        /\ stack' = [stack EXCEPT ![w] = <<Call(Head(deques[v]), TRUE)>>]
        /\ Takes(v)
  BY DEF StealIdle, Takes
<1> DEFINE j == Head(deques[v])
           d == Call(j, TRUE)
<1>2. v \in Workers /\ v # w /\ deques[v] # <<>> /\ Takes(v) /\ j = Head(deques[v])
  BY <1>1 DEF Victims
<1>3. Executes(d, j) /\ stack' = [stack EXCEPT ![w] = <<d>>]
  BY <1>1 DEF Executes
<1> HIDE DEF d, j
<1>4. /\ j \in Ranges /\ d \in Frame /\ d.r = j /\ d.at = "enter" /\ ~ d.in_deque /\ d.stolen
      /\ d.next = d.r.lo /\ HasItsPlace(d)
  BY <1>2, <1>3, StolenCall
<1>5. /\ UNCHANGED <<num_threads, done, ran>> /\ Workers' = Workers /\ ~ Busy(w)
  BY DEF StealIdle, Workers
<1>6. /\ Len(stack[w]) = 0 /\ stack \in [Workers -> Seq(Frame)]
      /\ \A u \in Workers : DOMAIN stack[u] = 1..Len(stack[u]) /\ Len(stack[u]) \in Nat
  BY <1>5, Elements DEF Sound, TypeOK
<1> DEFINE a == <<d>>
<1>7. a \in Seq(Frame) /\ DOMAIN a = 1..(0 + 1) /\ Len(a) = 0 + 1 /\ \A k \in 1..(0 + 1) : k = 0 + 1 /\ a[k] = d
  BY <1>4
<1> HIDE DEF a
<1>8. stack' \in [Workers -> Seq(Frame)] /\ stack'[w] = a /\ \A u \in Workers \ {w} : stack'[u] = stack[u]
  BY <1>3, <1>6, <1>7 DEF a
<1>9. Grows(w, 0, d, d)
  <2>1. ASSUME NEW u \in Workers
        PROVE  /\ DOMAIN stack'[u] = IF u = w THEN 1..(0 + 1) ELSE DOMAIN stack[u]
               /\ Len(stack'[u]) = IF u = w THEN 0 + 1 ELSE Len(stack[u])
               /\ \A k \in DOMAIN stack'[u] :
                    stack'[u][k] = IF u = w /\ k = 0 + 1 THEN d ELSE IF u = w /\ k = 0 THEN d ELSE stack[u][k]
    <3>1. CASE u = w
      BY <1>7, <1>8, <3>1
    <3>2. CASE u # w
      BY <1>8, <3>2
    <3> QED BY <3>1, <3>2
  <2> QED BY <1>4, <1>5, <1>6, <2>1 DEF Grows
<1>10. d.r = Head(deques[v])
  BY <1>2, <1>4
<1> HIDE DEF j
<1> QED BY <1>2, <1>4, <1>5, <1>8, <1>9, <1>10, StealStep

LEMMA StealWaitingStep ==
  ASSUME Sound, NEW w \in Workers, StealWaiting(w)
  PROVE  Sound'
<1> DEFINE n == Len(stack[w])
           c == [Top(w) EXCEPT !.at = "wait"]
<1>1. PICK v \in Victims(w) :
       IF deques[v] = <<>>
         THEN Becomes(w, c) /\ UNCHANGED deques
         ELSE /\ stack' = [stack EXCEPT ![w] = Under(w) \o <<c, Call(Head(deques[v]), TRUE)>>]
              /\ deques' = [deques EXCEPT ![v] = Tail(@)]
  BY DEF StealWaiting
<1>2. /\ UNCHANGED <<num_threads, done, ran>> /\ Workers' = Workers /\ Busy(w) /\ Top(w).at = "steal"
      /\ v \in Workers /\ v # w
  BY DEF StealWaiting, Workers, Victims
<1>3. /\ n \in DOMAIN stack[w] /\ n \in Nat /\ n # 0 /\ Top(w) = stack[w][n] /\ Top(w) \in Frame /\ n = Len(stack[w])
      /\ stack[w] \in Seq(Frame)
      /\ \A u \in Workers : DOMAIN stack[u] = 1..Len(stack[u]) /\ Len(stack[u]) \in Nat
  BY <1>2, Elements DEF Sound, Top
<1>4. CASE deques[v] = <<>>
  <2>1. num_threads # 1
    BY <1>2 DEF Workers
  <2>2. UNCHANGED <<num_threads, deques, done, ran>>
    BY <1>1, <1>2, <1>4
  <2>3. Becomes(w, [Top(w) EXCEPT !.at = "wait"])
    BY <1>1, <1>4
  <2> QED BY <1>2, <2>1, <2>2, <2>3, WaitStep
<1>5. CASE deques[v] # <<>>
  <2> DEFINE j == Head(deques[v])
             d == Call(j, TRUE)
  <2>1. Takes(v) /\ j = Head(deques[v]) /\ Executes(d, j) /\ stack' = [stack EXCEPT ![w] = Under(w) \o <<c, d>>]
    BY <1>1, <1>5 DEF Takes, Executes
  <2> HIDE DEF d, j
  <2>2. /\ j \in Ranges /\ d \in Frame /\ d.r = j /\ d.at = "enter" /\ ~ d.in_deque /\ d.stolen
        /\ d.next = d.r.lo /\ HasItsPlace(d)
    BY <1>2, <1>5, <2>1, StolenCall
  <2>3. /\ c \in Frame /\ c.r = stack[w][n].r /\ c.at = "wait" /\ c.in_deque = stack[w][n].in_deque
        /\ c.stolen = stack[w][n].stolen /\ c.next = stack[w][n].next /\ stack[w][n].at = "steal"
    BY <1>2, <1>3 DEF Frame, Places
  <2> HIDE DEF c
  <2>4. CallsOn(w, c, d)
    <3> DEFINE b == Under(w)
    <3>1. b \in Seq(Frame)
      BY <1>3, Front DEF Under
    <3> HIDE DEF b
    <3>2. b \o <<c, d>> = Append(Append(b, c), d)
      BY <2>2, <2>3, <3>1
    <3> QED BY <2>1, <3>2 DEF CallsOn, b
  <2> HIDE DEF n
  <2>5. /\ stack' \in [Workers -> Seq(Frame)]
        /\ \A u \in Workers :
             /\ DOMAIN stack'[u] = IF u = w THEN 1..(n + 1) ELSE DOMAIN stack[u]
             /\ Len(stack'[u]) = IF u = w THEN n + 1 ELSE Len(stack[u])
             /\ \A k \in DOMAIN stack'[u] :
                  stack'[u][k] = IF u = w /\ k = n + 1 THEN d ELSE IF u = w /\ k = n THEN c ELSE stack[u][k]
    <3>1. TypeOK
      BY DEF Sound
    <3> QED BY <1>2, <1>3, <2>2, <2>3, <2>4, <3>1, Calling
  <2>6. Grows(w, n, c, d)
    BY <1>2, <1>3, <2>2, <2>5 DEF Grows
  <2>7. d.r = Head(deques[v])
    BY <2>1, <2>2
  <2>8. stack' \in [Workers -> Seq(Frame)]
    BY <2>5
  <2> QED BY <1>2, <1>5, <2>1, <2>2, <2>3, <2>6, <2>7, <2>8, StealStep
<1> QED BY <1>4, <1>5

(* A call waits for its job only if a thief has it, so not with one thread. *)
LEMMA ThiefExists ==
  ASSUME Sound, NEW w \in Workers, Busy(w), Pushed(Top(w)), deques[w] = <<>>
  PROVE  num_threads # 1
<1> DEFINE n == Len(stack[w])
           r == Right(Top(w).r)
<1>1. n \in DOMAIN stack[w] /\ Top(w) = stack[w][n] /\ DOMAIN deques[w] = {}
  BY Elements DEF Sound, Top
<1>2. r \in Forked(w)
  BY <1>1 DEF Forked, Pushed
<1>3. \/ r \in done
      \/ \E v \in Workers \ {w} : TRUE
  BY <1>1, <1>2 DEF Sound, JobsAreKept
<1> QED BY <1>3 DEF Sound, LoneWorkerNeverRolls, Workers

LEMMA StepSound == Sound /\ [Next]_vars => Sound'
<1> SUFFICES ASSUME Sound, [Next]_vars
             PROVE  Sound'
  OBVIOUS
<1>1. CASE UNCHANGED vars
  <2>1. UNCHANGED <<num_threads, stack, deques, done, ran>> /\ Workers' = Workers
    BY <1>1 DEF vars, Workers
  <2>2. TypeOK' /\ OwnersAreApart'
    BY <2>1 DEF Sound, TypeOK, OwnersAreApart, CallsAreApart, CallsGaveJobsAway, JobsAreApart
  <2>3. CallsAreNested' /\ RanOnce'
    BY <2>1 DEF Sound, CallsAreNested, RanOnce
  <2>4. JobsInOrder' /\ JobsDiffer'
    BY <2>1 DEF Sound, JobsInOrder, JobsDiffer
  <2>5. \A w : Forked(w)' = Forked(w)
    BY <2>1 DEF Forked
  <2>6. JobsAreKept' /\ JobsOutlived' /\ LoneWorkerNeverRolls'
    BY <2>1, <2>5 DEF Sound, JobsAreKept, JobsOutlived, LoneWorkerNeverRolls
  <2> QED BY <2>2, <2>3, <2>4, <2>6 DEF Sound
<1>2. ASSUME NEW w \in Workers, RunIndex(w) PROVE Sound'
  BY <1>2, RunIndexStep
<1>3. ASSUME NEW w \in Workers, Split(w) PROVE Sound'
  BY <1>3, SplitStep
<1>4. ASSUME NEW w \in Workers, Join(w) PROVE Sound'
  <2>1. CASE Top(w).in_deque /\ deques[w] = <<>>
    <3>1. Busy(w) /\ Pushed(Top(w)) /\ deques[w] = <<>> /\ UNCHANGED <<num_threads, deques, done, ran>>
      BY <1>4, <2>1 DEF Join, Pushed
    <3>2. Becomes(w, [Top(w) EXCEPT !.at = "wait"])
      BY <1>4, <2>1 DEF Join
    <3>3. num_threads # 1
      BY <3>1, ThiefExists
    <3> QED BY <3>1, <3>2, <3>3, WaitStep
  <2>2. CASE ~ (Top(w).in_deque /\ deques[w] = <<>>)
    BY <1>4, <2>2, JoinStep
  <2> QED BY <2>1, <2>2
<1>5. ASSUME NEW w \in Workers, Return(w) PROVE Sound'
  BY <1>5, ReturnStep
<1>6. ASSUME NEW w \in Workers, Poll(w) PROVE Sound'
  <2>1. /\ Busy(w) /\ Top(w).at = "wait" /\ UNCHANGED <<num_threads, deques, done, ran>>
        /\ Becomes(w, [Top(w) EXCEPT !.at = "steal"])
    BY <1>6 DEF Poll
  <2>2. num_threads # 1
    <3>1. SUFFICES ASSUME num_threads = 1 PROVE FALSE
      OBVIOUS
    <3>2. w = 0
      BY <3>1 DEF Workers
    <3>3. Len(stack[w]) \in DOMAIN stack[w] /\ Top(w) = stack[w][Len(stack[w])]
      BY <2>1, Elements DEF Sound, Top
    <3> QED BY <2>1, <3>1, <3>2, <3>3 DEF Sound, LoneWorkerNeverRolls
  <2> QED BY <2>1, <2>2, WaitStep
<1>7. ASSUME NEW w \in Workers, StealWaiting(w) PROVE Sound'
  BY <1>7, StealWaitingStep
<1>8. ASSUME NEW w \in Workers, StealIdle(w) PROVE Sound'
  BY <1>8, StealIdleStep
<1>9. CASE Next
  BY <1>1, <1>2, <1>3, <1>4, <1>5, <1>6, <1>7, <1>8, <1>9 DEF Next, Idle, Advance
<1> QED BY <1>1, <1>9

(* One call on the whole range, and no job yet. *)
LEMMA InitSound == Init => Sound
<1> SUFFICES ASSUME Init PROVE Sound
  OBVIOUS
<1> DEFINE c == Call([lo |-> 0, hi |-> N], FALSE)
<1>1. /\ N \in Nat /\ num_threads \in 1..MaxThreads /\ MaxThreads \in Nat /\ 0 \in Workers
      /\ stack = [w \in Workers |-> IF w = 0 THEN <<c>> ELSE <<>>]
      /\ deques = [w \in Workers |-> <<>>] /\ done = {} /\ ran = [i \in Indices |-> 0]
  BY SchedulerAssumption DEF Init, Workers
<1>2. /\ c \in Frame /\ c.at = "enter" /\ c.next = 0 /\ c.r.lo = 0 /\ c.r.hi = N /\ ~ c.in_deque /\ ~ c.stolen
      /\ c.r \in Ranges
  BY <1>1 DEF Call, Frame, Places, Ranges
<1> HIDE DEF c
<1>3. <<c>> \in Seq(Frame) /\ DOMAIN <<c>> = {1} /\ Len(<<c>>) = 1 /\ <<c>>[1] = c
  BY <1>2
<1>4. /\ \A w \in Workers : \A k \in DOMAIN stack[w] : w = 0 /\ k = 1 /\ stack[w][k] = c /\ Len(stack[w]) = 1
      /\ \A w \in Workers : DOMAIN deques[w] = {}
      /\ stack[0] = <<c>>
  BY <1>1, <1>3
<1>5. TypeOK
  <2>1. stack \in [Workers -> Seq(Frame)]
    BY <1>1, <1>3
  <2>2. deques \in [Workers -> Seq(Ranges)]
    BY <1>1
  <2> QED BY <1>1, <2>1, <2>2 DEF TypeOK
<1>6. OwnersAreApart
  BY <1>4 DEF OwnersAreApart, CallsAreApart, CallsGaveJobsAway, JobsAreApart
<1>7. CallsAreNested
  <2>1. HasItsPlace(c)
    BY <1>1, <1>2 DEF HasItsPlace
  <2>2. \A w \in Workers : \A k \in DOMAIN stack[w] : k = Len(stack[w]) /\ ~ (k < Len(stack[w]))
    <3>1. \A w \in Workers : \A k \in DOMAIN stack[w] : k = 1 /\ Len(stack[w]) = 1
      BY <1>4
    <3>2. ~ (1 < 1)
      OBVIOUS
    <3> QED BY <3>1, <3>2
  <2> QED BY <1>4, <2>1, <2>2 DEF CallsAreNested
<1>8. RanOnce
  <2>1. \A i \in Indices : ran[i] = 0
    BY <1>1
  <2>2. RanSoFar(c, TRUE, ran)
    <3>1. c.r.lo .. (c.next - 1) = {} /\ Own(c) \subseteq Indices
      BY <1>1, <1>2 DEF Own, Indices
    <3> QED BY <1>2, <2>1, <3>1 DEF RanSoFar
  <2>3. \A w \in Workers : \A k \in DOMAIN stack[w] : (k = Len(stack[w])) = TRUE
    BY <1>4
  <2> QED BY <1>1, <1>4, <2>2, <2>3 DEF RanOnce
<1>9. JobsInOrder
  BY <1>4 DEF JobsInOrder
<1>10. JobsDiffer
  BY <1>4 DEF JobsDiffer
<1>11. JobsAreKept /\ JobsOutlived
  BY <1>2, <1>4 DEF JobsAreKept, JobsOutlived, Forked
<1>12. LoneWorkerNeverRolls
  BY <1>1, <1>2, <1>4 DEF LoneWorkerNeverRolls
<1> QED BY <1>5, <1>6, <1>7, <1>8, <1>9, <1>10, <1>11, <1>12 DEF Sound

-----------------------------------------------------------------------------
(***************************************************************************)
(* However the steps of the workers interleave: f runs at most once on an  *)
(* index, pop_bottom gives a call its own job, and a JobImpl is there as   *)
(* long as a deque or a thief refers to it.                                *)
(***************************************************************************)
THEOREM SchedulerIsRight == Spec => []SchedulerInvariant
<1>1. Sound => SchedulerInvariant
  BY BottomIsOwn DEF Sound, SchedulerInvariant
<1> QED BY InitSound, StepSound, <1>1, PTL DEF Spec

(* Every other step leaves as many calls on each stack, or more. *)
Longer(w) ==
  \E t : stack' = [stack EXCEPT ![w] = t] /\ Len(t) \in Nat /\ Len(t) >= Len(stack[w])

LEMMA OnlyReturnsShorten ==
  ASSUME TypeOK, NEW w \in Workers, Advance(w) \/ StealIdle(w), ~ Return(w)
  PROVE  Longer(w)
<1> DEFINE b == Under(w)
           n == Len(stack[w])
<1>1. n \in Nat /\ (Busy(w) => n # 0 /\ b \in Seq(Frame) /\ Len(b) = n - 1) /\ (~ Busy(w) => n = 0)
  <2>1. stack[w] \in Seq(Frame) /\ n \in Nat /\ (Busy(w) <=> n # 0) /\ n = Len(stack[w])
    BY Elements
  <2> HIDE DEF n
  <2> QED BY <2>1, Front DEF Under, n
<1> HIDE DEF b
<1>2. ASSUME NEW c, Busy(w), Becomes(w, c) PROVE Longer(w)
  <2>1. Len(Append(b, c)) = n
    BY <1>1, <1>2
  <2>2. stack' = [stack EXCEPT ![w] = Append(b, c)]
    BY <1>2 DEF Becomes, b
  <2> HIDE DEF n
  <2>3. Len(Append(b, c)) \in Nat /\ Len(Append(b, c)) >= Len(stack[w])
    BY <1>1, <2>1 DEF n
  <2> QED BY <2>2, <2>3 DEF Longer
<1>3. ASSUME NEW c, NEW r, Busy(w), Calls(w, c, r) PROVE Longer(w)
  <2> DEFINE t == Append(Append(b, c), Call(r, FALSE))
  <2>1. stack' = [stack EXCEPT ![w] = t]
    BY <1>3 DEF Calls, b
  <2>2. Len(t) = n + 1
    <3>1. Append(b, c) \in Seq(Frame \cup {c}) /\ Len(Append(b, c)) = n
      BY <1>1, <1>3
    <3> HIDE DEF n
    <3> QED BY <1>1, <3>1
  <2> HIDE DEF t
  <2>3. Len(t) \in Nat /\ Len(t) >= Len(stack[w])
    BY <1>1, <2>2
  <2> QED BY <2>1, <2>3 DEF Longer
<1>4. CASE RunIndex(w) \/ Poll(w)
  BY <1>2, <1>4 DEF RunIndex, Poll
<1>5. CASE Split(w) \/ Join(w)
  BY <1>2, <1>3, <1>5 DEF Split, Join
<1>6. CASE StealWaiting(w)
  <2> DEFINE c == [Top(w) EXCEPT !.at = "wait"]
  <2>1. PICK v \in Victims(w) :
          \/ Becomes(w, c)
          \/ stack' = [stack EXCEPT ![w] = Under(w) \o <<c, Call(Head(deques[v]), TRUE)>>]
    BY <1>6 DEF StealWaiting
  <2>2. Busy(w)
    BY <1>6 DEF StealWaiting
  <2> DEFINE t == b \o <<c, Call(Head(deques[v]), TRUE)>>
  <2>3. stack' = [stack EXCEPT ![w] = t] => Longer(w)
    <3> DEFINE d == Call(Head(deques[v]), TRUE)
    <3> HIDE DEF c, d
    <3>1. Len(b \o <<c, d>>) = n + 1
      <4>1. <<c, d>> \in Seq({c, d}) /\ Len(<<c, d>>) = 2 /\ b \in Seq(Frame) /\ Len(b) = n - 1
        BY <1>1, <2>2
      <4> HIDE DEF n
      <4>2. Len(b \o <<c, d>>) = Len(b) + Len(<<c, d>>)
        BY <4>1
      <4> QED BY <1>1, <4>1, <4>2
    <3>2. Len(t) \in Nat /\ Len(t) >= Len(stack[w])
      BY <1>1, <3>1 DEF d
    <3> HIDE DEF t
    <3> QED BY <3>2 DEF Longer
  <2> QED BY <1>2, <2>1, <2>2, <2>3 DEF b
<1>7. CASE StealIdle(w)
  <2>1. PICK v \in Victims(w) : stack' = [stack EXCEPT ![w] = <<Call(Head(deques[v]), TRUE)>>]
    BY <1>7 DEF StealIdle
  <2> DEFINE d == Call(Head(deques[v]), TRUE)
             t == <<d>>
  <2>2. stack' = [stack EXCEPT ![w] = t] /\ ~ Busy(w)
    BY <1>7, <2>1 DEF StealIdle
  <2> HIDE DEF d
  <2>3. Len(t) = 1
    OBVIOUS
  <2> HIDE DEF t
  <2>4. Len(t) \in Nat /\ Len(t) >= Len(stack[w])
    BY <1>1, <2>2, <2>3
  <2> QED BY <2>2, <2>4 DEF Longer
<1> QED BY <1>4, <1>5, <1>6, <1>7 DEF Advance

(***************************************************************************)
(* A call returns only when f has run once on every index of its range,    *)
(* whoever ran it.                                                         *)
(***************************************************************************)
THEOREM ReturnsAreRight == Spec => ReturnsAfterItsRange
<1> DEFINE Covers == \A w \in Workers : Len(stack'[w]) < Len(stack[w]) => Covered(Top(w).r, ran')
<1>1. ASSUME Sound, [Next]_vars PROVE [Covers]_vars
  <2> SUFFICES ASSUME Next, NEW u \in Workers, Len(stack'[u]) < Len(stack[u])
               PROVE  Covered(Top(u).r, ran')
    BY <1>1
  <2>1. TypeOK /\ \A w \in Workers : stack[w] \in Seq(Frame) /\ Len(stack[w]) \in Nat
    BY <1>1, Elements DEF Sound
  <2>2. ~ UNCHANGED vars
    BY <2>1 DEF vars
  <2>3. PICK w \in Workers : Advance(w) \/ StealIdle(w)
    BY <2>2 DEF Next, Idle
  <2>4. ASSUME NEW t, stack' = [stack EXCEPT ![w] = t]
        PROVE  stack'[u] = IF u = w THEN t ELSE stack[u]
    BY <2>1, <2>4 DEF TypeOK
  <2>5. ~ Longer(w)
    <3> SUFFICES ASSUME NEW t, stack' = [stack EXCEPT ![w] = t],
                        Len(t) \in Nat, Len(t) >= Len(stack[w])
                 PROVE  FALSE
      BY DEF Longer
    <3>1. stack'[u] = IF u = w THEN t ELSE stack[u]
      BY <2>4
    <3>2. CASE u = w
      <4>1. stack'[u] = t
        BY <3>1, <3>2
      <4> QED BY <2>1, <3>2, <4>1
    <3>3. CASE u # w
      <4>1. stack'[u] = stack[u]
        BY <3>1, <3>3
      <4> QED BY <2>1, <4>1
    <3> QED BY <3>2, <3>3
  <2>6. Return(w)
    BY <2>1, <2>3, <2>5, OnlyReturnsShorten
  <2>7. u = w
    BY <2>1, <2>4, <2>6 DEF Return
  <2>8. Busy(w) /\ Finished(Top(w)) /\ ran' = ran
    BY <2>6 DEF Return
  <2> QED BY <1>1, <2>7, <2>8, FinishedCovers
<1> QED BY InitSound, StepSound, <1>1, PTL DEF Spec, ReturnsAfterItsRange

-----------------------------------------------------------------------------
(* Threads that fall asleep, wake each other and exit, for every number of *)
(* threads. *)
(* Sets that differ in one element at most differ by it in their size. *)
LEMMA OneMoves ==
  ASSUME NEW S, IsFiniteSet(S), NEW T, NEW t, S \ {t} = T \ {t}
  PROVE  /\ IsFiniteSet(T)
         /\ Cardinality(T) = Cardinality(S) + (IF t \in T THEN 1 ELSE 0) - (IF t \in S THEN 1 ELSE 0)
<1> DEFINE rest == S \ {t}
<1>1. /\ IsFiniteSet(rest) /\ Cardinality(rest) \in Nat /\ Cardinality(S) \in Nat
      /\ Cardinality(rest) = Cardinality(S) - (IF t \in S THEN 1 ELSE 0)
  BY FS_RemoveElement, FS_CardinalityType
<1>2. /\ T = IF t \in T THEN rest \cup {t} ELSE rest
      /\ t \notin rest
  OBVIOUS
<1> HIDE DEF rest
<1>3. IsFiniteSet(rest \cup {t}) /\ Cardinality(rest \cup {t}) = Cardinality(rest) + 1
  BY <1>1, <1>2, FS_AddElement
<1>4. CASE t \in T
  <2>1. T = rest \cup {t}
    BY <1>2, <1>4
  <2> QED BY <1>1, <1>3, <1>4, <2>1
<1>5. CASE t \notin T
  <2>1. T = rest
    BY <1>2, <1>5
  <2> QED BY <1>1, <1>5, <2>1
<1> QED BY <1>4, <1>5

LEMMA ThreadSets ==
  /\ IsFiniteSet(Threads) /\ Cardinality(Threads) = NumThreads
  /\ IsFiniteSet(Spawned) /\ Cardinality(Spawned) = NumThreads - 1
  /\ Main \in Threads /\ Spawned \subseteq Threads /\ Main \notin Spawned
  /\ NumThreads \in Nat \ {0} /\ MaxJobs \in Nat \ {0}
<1>1. NumThreads \in Nat \ {0} /\ MaxJobs \in Nat \ {0} /\ 0 \in Threads
  BY SleepAssumption DEF Threads
<1>2. IsFiniteSet(Threads) /\ Cardinality(Threads) = NumThreads
  BY <1>1, FS_Interval DEF Threads
<1>3. IsFiniteSet(Spawned) /\ Cardinality(Spawned) = NumThreads - 1
  BY <1>1, <1>2, FS_RemoveElement DEF Spawned, Main
<1> QED BY <1>1, <1>2, <1>3 DEF Spawned, Main

LEMMA InitialSleep == SleepInit => SleepInvariant
<1> SUFFICES ASSUME SleepInit PROVE SleepInvariant
  OBVIOUS
<1>1. {t \in Threads : pc[t] \in Sleeping} = {} /\ {t \in Spawned : pc[t] = "exited"} = {}
  BY ThreadSets DEF SleepInit, Sleeping
<1>2. SleepTypeOK
  <2>1. pc \in [Threads -> SleepPlaces]
    BY DEF SleepInit, SleepPlaces
  <2>2. jobs \in [Threads -> 0..MaxJobs] /\ num_awake \in 0..NumThreads /\ num_exits \in 0..(NumThreads - 1)
    BY ThreadSets DEF SleepInit
  <2> QED BY <2>1, <2>2 DEF SleepInit, SleepTypeOK
<1>3. AwakeIsCounted /\ ExitsAreCounted
  BY <1>1, ThreadSets, FS_EmptySet DEF SleepInit, AwakeIsCounted, ExitsAreCounted
<1>4. NoLostNotify /\ MainStaysAwake
  BY ThreadSets DEF SleepInit, NoLostNotify, MainStaysAwake
<1> QED BY <1>2, <1>3, <1>4 DEF SleepInvariant

(***************************************************************************)
(* A thread that goes from one place to another: what the counters have to *)
(* do for it.                                                              *)
(***************************************************************************)
LEMMA CountersFollow ==
  ASSUME SleepInvariant, NEW t \in Threads, NEW p \in SleepPlaces, Goto(t, p),
         num_awake' = num_awake + (IF pc[t] \in Sleeping THEN 1 ELSE 0)
                                - (IF p \in Sleeping THEN 1 ELSE 0),
         pc[t] # "exited",
         num_exits' = num_exits + (IF t # Main /\ p = "exited" THEN 1 ELSE 0)
  PROVE  /\ AwakeIsCounted' /\ ExitsAreCounted'
         /\ num_awake' \in 0..NumThreads /\ num_exits' \in 0..(NumThreads - 1)
         /\ pc' \in [Threads -> SleepPlaces]
         /\ pc'[t] = p /\ \A u \in Threads : u # t => pc'[u] = pc[u]
<1> DEFINE asleep == {u \in Threads : pc[u] \in Sleeping}
           out == {u \in Spawned : pc[u] \in {"exited"}}
           outs == {u \in Spawned : pc[u] = "exited"}
<1>1. /\ pc \in [Threads -> SleepPlaces] /\ pc' = [pc EXCEPT ![t] = p]
      /\ num_awake = NumThreads - Cardinality(asleep)
      /\ num_exits = Cardinality(outs) /\ out = outs
  BY DEF SleepInvariant, SleepTypeOK, AwakeIsCounted, ExitsAreCounted, Goto
<1>2. pc'[t] = p /\ \A u \in Threads : u # t => pc'[u] = pc[u]
  BY <1>1
<1>3. /\ IsFiniteSet(asleep) /\ Cardinality(asleep) \in Nat /\ IsFiniteSet(out) /\ Cardinality(out) \in Nat
  BY ThreadSets, FS_Subset, FS_CardinalityType
<1>4. Cardinality(asleep') = Cardinality(asleep) + (IF p \in Sleeping THEN 1 ELSE 0)
                               - (IF pc[t] \in Sleeping THEN 1 ELSE 0)
  <2>1. asleep \ {t} = asleep' \ {t} /\ (t \in asleep' <=> p \in Sleeping) /\ (t \in asleep <=> pc[t] \in Sleeping)
    BY <1>2
  <2> HIDE DEF asleep
  <2> QED BY <1>3, <2>1, OneMoves
<1>5. Cardinality(out') = Cardinality(out) + (IF t # Main /\ p = "exited" THEN 1 ELSE 0)
  <2>1. out \ {t} = out' \ {t} /\ t \notin out /\ (t \in out' <=> t # Main /\ p = "exited")
    BY <1>2, ThreadSets DEF Spawned
  <2> HIDE DEF out
  <2> QED BY <1>3, <2>1, OneMoves
<1>6. /\ asleep' \subseteq Threads /\ out' \subseteq Spawned /\ out' = outs'
  OBVIOUS
<1>7. /\ Cardinality(asleep') \in 0..NumThreads /\ Cardinality(out') \in 0..(NumThreads - 1)
  BY <1>6, ThreadSets, FS_Subset, FS_CardinalityType
<1> HIDE DEF asleep, out, outs
<1>8. num_awake' = NumThreads - Cardinality(asleep') /\ num_awake' \in 0..NumThreads
  BY <1>1, <1>3, <1>4, <1>7, ThreadSets
<1>9. num_exits' = Cardinality(outs') /\ num_exits' \in 0..(NumThreads - 1)
  BY <1>1, <1>3, <1>5, <1>6, <1>7, ThreadSets
<1>10. AwakeIsCounted' /\ ExitsAreCounted'
  BY <1>8, <1>9 DEF AwakeIsCounted, ExitsAreCounted, asleep, outs
<1> QED BY <1>1, <1>2, <1>8, <1>9, <1>10

(* Only its owner lengthens a deque: what it loaded still bounds the length. *)
RoomToPush == \A t \in Threads : pc[t] \in PushPlaces => jobs[t] < MaxJobs

LEMMA StepRoom ==
  ASSUME SleepInvariant, RoomToPush, [SleepNext]_sleep_vars
  PROVE  RoomToPush'
<1>a. pc \in [Threads -> SleepPlaces] /\ jobs \in [Threads -> 0..MaxJobs]
  BY DEF SleepInvariant, SleepTypeOK
<1>b. \A t \in Threads : Resumed(t) \notin PushPlaces
  BY DEF Resumed, PushPlaces
(* Others only shorten a deque, and who is not pushing needs no room. *)
<1>c. ASSUME NEW t \in Threads, NEW p, Goto(t, p), p \in PushPlaces => jobs'[t] < MaxJobs,
             \A u \in Threads : u # t => jobs'[u] \in Int /\ jobs'[u] <= jobs[u]
      PROVE  RoomToPush'
  <2>1. pc'[t] = p /\ \A u \in Threads : u # t => pc'[u] = pc[u]
    BY <1>a, <1>c DEF Goto
  <2>2. ASSUME NEW u \in Threads, u # t, pc'[u] \in PushPlaces PROVE jobs'[u] < MaxJobs
    <3>1. jobs[u] < MaxJobs /\ jobs[u] \in Int
      BY <1>a, <2>1, <2>2 DEF RoomToPush
    <3> QED BY <1>c, <2>2, <3>1, ThreadSets
  <2> QED BY <1>c, <2>1, <2>2 DEF RoomToPush
<1>d. ASSUME UNCHANGED jobs,
             \E t \in Threads, p \in SleepPlaces \ PushPlaces : Goto(t, p)
      PROVE  RoomToPush'
  BY <1>a, <1>c, <1>d
<1>1. ASSUME NEW t \in Threads, LengthLoad(t) PROVE RoomToPush'
  <2>1. jobs' = jobs /\ jobs[t] < MaxJobs /\ \E p \in PushPlaces : Goto(t, p)
    BY <1>1 DEF LengthLoad, PushPlaces
  <2> QED BY <1>a, <1>c, <2>1
<1>2. ASSUME NEW t \in Threads, JobPublish(t) PROVE RoomToPush'
  <2>1. jobs' = [jobs EXCEPT ![t] = @ + 1] /\ \E p \in {"wake", "run"} : Goto(t, p)
    BY <1>2 DEF JobPublish
  <2>2. \A u \in Threads : u # t => jobs'[u] \in Int /\ jobs'[u] <= jobs[u]
    BY <1>a, <2>1
  <2> QED BY <1>c, <2>1, <2>2 DEF PushPlaces
<1>3. ASSUME NEW t \in Threads, Pop(t) PROVE RoomToPush'
  <2>1. jobs' = [jobs EXCEPT ![t] = @ - 1] /\ Goto(t, "run")
    BY <1>3, <1>a DEF Pop, Goto
  <2>2. \A u \in Threads : u # t => jobs'[u] \in Int /\ jobs'[u] <= jobs[u]
    BY <1>a, <2>1
  <2> QED BY <1>c, <2>1, <2>2 DEF PushPlaces
<1>4. ASSUME NEW t \in Threads, Steal(t) PROVE RoomToPush'
  <2>1. PICK v \in Threads \ {t}, got \in BOOLEAN :
          /\ jobs' = IF got THEN [jobs EXCEPT ![v] = @ - 1] ELSE jobs
          /\ \E p \in {"wake", "run", "resume"} : Goto(t, p)
    BY <1>4 DEF Steal
  <2>2. \A u \in Threads : jobs'[u] \in Int /\ jobs'[u] <= jobs[u]
    BY <1>a, <2>1
  <2> QED BY <1>c, <2>1, <2>2 DEF PushPlaces
<1>5. ASSUME NEW t \in Threads, FinishJob(t) PROVE RoomToPush'
  BY <1>d, <1>5 DEF FinishJob, SleepPlaces, PushPlaces
<1>6. ASSUME NEW t \in Threads, WakeLoad(t) \/ WakeBump(t) PROVE RoomToPush'
  <2>1. jobs' = jobs /\ \E p \in {"bump", "notify", Resumed(t)} : Goto(t, p)
    BY <1>6 DEF WakeLoad, WakeBump
  <2> QED BY <1>a, <1>b, <1>c, <2>1 DEF PushPlaces
<1>7. ASSUME NEW t \in Threads, WakeNotify(t) PROVE RoomToPush'
  <2>1. jobs' = jobs /\ \A u \in Threads : pc'[u] \in {pc[u], "wait", Resumed(t)}
    BY <1>7 DEF WakeNotify
  <2> QED BY <1>b, <2>1 DEF RoomToPush, PushPlaces
<1>8. ASSUME NEW t \in Spawned, GoSleep(t) \/ Loop(t) PROVE RoomToPush'
  BY <1>a, <1>d, <1>8, ThreadSets
  DEF GoSleep, SleepLoad, SleepSub, SleepWait, SleepAdd, Loop, Check, Resume, sync,
      SleepPlaces, PushPlaces, Sleeping
<1>9. ASSUME Close \/ CloseLoop PROVE RoomToPush'
  BY <1>a, <1>d, <1>9, ThreadSets DEF Close, CloseLoop, SleepPlaces, PushPlaces, Waking
<1>10. ASSUME UNCHANGED sleep_vars PROVE RoomToPush'
  BY <1>10 DEF RoomToPush, sleep_vars
<1> QED
  BY <1>1, <1>2, <1>3, <1>4, <1>5, <1>6, <1>7, <1>8, <1>9, <1>10
  DEF SleepNext, Exited, UserCode, Push, MayWakeOthers

LEMMA StepSleep ==
  ASSUME SleepInvariant, RoomToPush, [SleepNext]_sleep_vars
  PROVE  SleepInvariant'
<1>a. /\ pc \in [Threads -> SleepPlaces] /\ holds \subseteq Spawned /\ moved \subseteq Spawned
      /\ num_awake \in 0..NumThreads /\ num_exits \in 0..(NumThreads - 1)
      /\ finished_flag \in BOOLEAN /\ jobs \in [Threads -> 0..MaxJobs]
      /\ pc[Main] \in {"run", "close", "exited"} \cup Waking \cup PushPlaces
      /\ \A t \in Spawned : pc[t] = "blocked" /\ t \in moved => \E u \in Threads : pc[u] = "notify"
  BY DEF SleepInvariant, SleepTypeOK, MainStaysAwake, NoLostNotify
<1>b. \A t \in Threads : t # Main => t \in Spawned
  BY DEF Spawned
<1>c. /\ num_awake \in Int /\ num_exits \in Int
  BY <1>a, ThreadSets
<1>d. \A t \in Threads : Resumed(t) \in {"run", "close", "resume"} /\ (t = Main => Resumed(t) # "resume")
  BY DEF Resumed
(* What a step leaves to show, once the counters follow it. *)
<1>e. ASSUME NEW t \in Threads, NEW p \in SleepPlaces, Goto(t, p), pc[t] # "exited",
             num_awake' = num_awake + (IF pc[t] \in Sleeping THEN 1 ELSE 0)
                                    - (IF p \in Sleeping THEN 1 ELSE 0),
             num_exits' = num_exits + (IF t # Main /\ p = "exited" THEN 1 ELSE 0),
             holds' \subseteq Spawned, finished_flag' \in BOOLEAN, jobs' \in [Threads -> 0..MaxJobs],
             t = Main => p \in {"run", "close", "exited"} \cup Waking \cup PushPlaces,
             moved' = moved \/ (moved' = moved \ {t} /\ p # "blocked") \/ (moved' = Spawned /\ p = "notify"),
             pc[t] # "notify", p = "blocked" => t \notin moved
      PROVE  SleepInvariant'
  <2>1. /\ AwakeIsCounted' /\ ExitsAreCounted'
        /\ num_awake' \in 0..NumThreads /\ num_exits' \in 0..(NumThreads - 1)
        /\ pc' \in [Threads -> SleepPlaces]
        /\ pc'[t] = p /\ \A u \in Threads : u # t => pc'[u] = pc[u]
    BY <1>e, CountersFollow
  <2>2. SleepTypeOK'
    BY <1>a, <1>e, <2>1 DEF SleepTypeOK
  <2>3. MainStaysAwake'
    BY <1>a, <1>e, <2>1, ThreadSets DEF MainStaysAwake
  <2>4. NoLostNotify'
    <3>1. ASSUME NEW u \in Spawned, pc'[u] = "blocked", u \in moved'
          PROVE  \E v \in Threads : pc'[v] = "notify"
      <4>1. CASE p = "notify"
        BY <2>1, <4>1
      <4>2. CASE p # "notify"
        <5>1. u # t /\ u \in Threads
          BY <1>e, <2>1, <3>1, <4>2, ThreadSets
        <5>2. pc[u] = "blocked" /\ u \in moved
          BY <1>e, <2>1, <3>1, <4>2, <5>1
        <5>3. PICK v \in Threads : pc[v] = "notify"
          BY <1>a, <5>2
        <5> QED BY <1>e, <2>1, <5>3
      <4> QED BY <4>1, <4>2
    <3> QED BY <3>1 DEF NoLostNotify
  <2> QED BY <2>1, <2>2, <2>3, <2>4 DEF SleepInvariant
<1>f. ASSUME NEW t \in Threads, NEW p \in SleepPlaces, Goto(t, p), pc[t] # "exited", p # "exited",
             pc[t] \notin Sleeping, p \notin Sleeping, UNCHANGED sync,
             holds' \subseteq Spawned, jobs' \in [Threads -> 0..MaxJobs],
             t = Main => p \in {"run", "close"} \cup Waking \cup PushPlaces, pc[t] # "notify"
      PROVE  SleepInvariant'
  <2>1. num_awake' = num_awake /\ num_exits' = num_exits /\ moved' = moved /\ finished_flag' = finished_flag
    BY <1>f DEF sync
  <2>2. p # "blocked"
    BY <1>f DEF Sleeping
  <2> QED BY <1>a, <1>c, <1>e, <1>f, <2>1, <2>2
<1>1. ASSUME NEW t \in Threads, Push(t) PROVE SleepInvariant'
  <2>1. CASE LengthLoad(t)
    <3>1. PICK p \in PushPlaces : Goto(t, p)
      BY <2>1 DEF LengthLoad, PushPlaces
    <3>2. jobs' \in [Threads -> 0..MaxJobs] /\ holds' \subseteq Spawned /\ UNCHANGED sync /\ pc[t] = "run"
      BY <2>1, <1>a DEF LengthLoad
    <3> QED BY <1>f, <3>1, <3>2 DEF Sleeping, Waking, PushPlaces, SleepPlaces
  <2>2. CASE JobPublish(t)
    <3>1. PICK p \in {"wake", "run"} : Goto(t, p)
      BY <2>2 DEF JobPublish
    <3>2. jobs[t] + 1 \in 0..MaxJobs
      BY <2>2, <1>a, ThreadSets DEF JobPublish, RoomToPush
    <3>3. jobs' \in [Threads -> 0..MaxJobs] /\ holds' \subseteq Spawned /\ UNCHANGED sync /\ pc[t] \in PushPlaces
      BY <2>2, <1>a, <3>2 DEF JobPublish
    <3> QED BY <1>f, <3>1, <3>3 DEF Sleeping, Waking, PushPlaces, SleepPlaces
  <2> QED BY <1>1, <2>1, <2>2 DEF Push
<1>2. ASSUME NEW t \in Threads, Pop(t) PROVE SleepInvariant'
  <2>1. jobs[t] - 1 \in 0..MaxJobs
    BY <1>2, <1>a, ThreadSets DEF Pop
  <2>2. jobs' \in [Threads -> 0..MaxJobs] /\ holds' \subseteq Spawned /\ UNCHANGED sync /\ pc[t] = "run"
    BY <1>2, <1>a, <2>1 DEF Pop
  <2>3. Goto(t, "run")
    BY <1>2, <1>a DEF Pop, Goto
  <2> QED BY <1>f, <2>2, <2>3 DEF Sleeping, Waking, SleepPlaces
<1>3. ASSUME NEW t \in Threads, Steal(t) PROVE SleepInvariant'
  <2>1. PICK v \in Threads \ {t}, got \in BOOLEAN :
          /\ got => jobs[v] > 0
          /\ jobs' = IF got THEN [jobs EXCEPT ![v] = @ - 1] ELSE jobs
          /\ holds' = IF got /\ pc[t] = "try" THEN holds \cup {t} ELSE holds
          /\ Goto(t, IF jobs[v] > (IF got THEN 1 ELSE 0) THEN "wake"
                     ELSE IF pc[t] = "run" \/ got THEN "run"
                     ELSE "resume")
    BY <1>3 DEF Steal
  <2>2. pc[t] \in {"try", "run"} /\ UNCHANGED sync
    BY <1>3 DEF Steal
  <2>3. t = Main => pc[t] = "run"
    BY <1>a, <2>2 DEF Waking, PushPlaces
  <2>4. jobs' \in [Threads -> 0..MaxJobs]
    <3>1. got => jobs[v] - 1 \in 0..MaxJobs
      BY <1>a, <2>1, ThreadSets
    <3> QED BY <1>a, <2>1, <3>1
  <2>5. holds' \subseteq Spawned
    BY <1>a, <1>b, <2>1, <2>3
  <2>6. PICK p \in {"wake", "run", "resume"} : Goto(t, p) /\ (pc[t] = "run" => p # "resume")
    BY <2>1
  <2> QED BY <1>f, <2>2, <2>3, <2>4, <2>5, <2>6 DEF Sleeping, Waking, SleepPlaces
<1>4. ASSUME NEW t \in Threads, FinishJob(t) PROVE SleepInvariant'
  <2>1. t # Main /\ pc[t] = "run" /\ Goto(t, "resume") /\ UNCHANGED sync /\ holds' \subseteq Spawned /\ jobs' = jobs
    BY <1>4, <1>a, ThreadSets DEF FinishJob
  <2> QED BY <1>a, <1>f, <2>1 DEF Sleeping, Waking, SleepPlaces
<1>5. ASSUME NEW t \in Threads, WakeLoad(t) PROVE SleepInvariant'
  <2>1. PICK p \in {"bump", "run", "close", "resume"} : Goto(t, p) /\ (t = Main => p # "resume")
    BY <1>5, <1>d DEF WakeLoad
  <2>2. pc[t] = "wake" /\ UNCHANGED <<holds, jobs, sync>>
    BY <1>5 DEF WakeLoad
  <2> QED BY <1>a, <1>f, <2>1, <2>2 DEF Sleeping, Waking, SleepPlaces
<1>6. ASSUME NEW t \in Threads, WakeBump(t) PROVE SleepInvariant'
  <2>1. /\ pc[t] = "bump" /\ moved' = Spawned /\ Goto(t, "notify")
        /\ UNCHANGED <<holds, jobs, num_awake, num_exits, finished_flag>>
    BY <1>6 DEF WakeBump
  <2>2. /\ "notify" \in SleepPlaces /\ "notify" \in Waking
        /\ pc[t] \notin Sleeping /\ "notify" \notin Sleeping
    BY <2>1 DEF Sleeping, Waking, SleepPlaces
  <2> QED BY <1>a, <1>c, <1>e, <2>1, <2>2
<1>7. ASSUME NEW t \in Threads, WakeNotify(t) PROVE SleepInvariant'
  <2>1. /\ pc' = [u \in Threads |-> IF u = t THEN Resumed(t)
                                    ELSE IF pc[u] = "blocked" THEN "wait" ELSE pc[u]]
        /\ pc[t] = "notify" /\ UNCHANGED <<holds, jobs, sync>>
    BY <1>7 DEF WakeNotify
  <2>2. {u \in Threads : pc'[u] \in Sleeping} = {u \in Threads : pc[u] \in Sleeping}
    BY <1>d, <2>1 DEF Sleeping
  <2>3. {u \in Spawned : pc'[u] = "exited"} = {u \in Spawned : pc[u] = "exited"}
    BY <1>d, <2>1, ThreadSets
  <2>4. AwakeIsCounted' /\ ExitsAreCounted'
    BY <2>1, <2>2, <2>3 DEF AwakeIsCounted, ExitsAreCounted, SleepInvariant, sync
  <2>5. pc' \in [Threads -> SleepPlaces]
    <3>1. \A u \in Threads : pc'[u] \in SleepPlaces
      BY <1>a, <1>d, <2>1 DEF SleepPlaces, Sleeping
    <3> QED BY <2>1, <3>1
  <2>6. SleepTypeOK'
    BY <1>a, <2>1, <2>5 DEF SleepTypeOK, sync
  <2>7. MainStaysAwake'
    BY <1>a, <1>d, <2>1, ThreadSets DEF MainStaysAwake, Waking, PushPlaces
  <2>8. NoLostNotify'
    BY <1>d, <2>1, ThreadSets DEF NoLostNotify
  <2> QED BY <2>4, <2>6, <2>7, <2>8 DEF SleepInvariant
<1>8. ASSUME NEW t \in Spawned, SleepLoad(t) PROVE SleepInvariant'
  <2>1. /\ pc[t] = "load" /\ moved' = moved \ {t} /\ Goto(t, "sub")
        /\ UNCHANGED <<holds, jobs, num_awake, num_exits, finished_flag>>
    BY <1>8 DEF SleepLoad
  <2>2. /\ t \in Threads /\ t # Main /\ "sub" \in SleepPlaces
        /\ pc[t] \notin Sleeping /\ "sub" \notin Sleeping
    BY <2>1, ThreadSets DEF Sleeping, SleepPlaces
  <2> QED BY <1>a, <1>c, <1>e, <2>1, <2>2
<1>9. ASSUME NEW t \in Spawned, SleepSub(t) PROVE SleepInvariant'
  <2>1. /\ pc[t] = "sub" /\ num_awake' = num_awake - 1 /\ Goto(t, "wait")
        /\ UNCHANGED <<holds, jobs, moved, num_exits, finished_flag>>
    BY <1>9 DEF SleepSub
  <2>2. /\ t \in Threads /\ t # Main /\ "wait" \in SleepPlaces
        /\ pc[t] \notin Sleeping /\ "wait" \in Sleeping
    BY <2>1, ThreadSets DEF Sleeping, SleepPlaces
  <2> QED BY <1>a, <1>c, <1>e, <2>1, <2>2
<1>10. ASSUME NEW t \in Spawned, SleepWait(t) PROVE SleepInvariant'
  <2>1. PICK p \in {"add", "blocked"} : Goto(t, p) /\ (p = "blocked" => t \notin moved)
    BY <1>10 DEF SleepWait
  <2>2. pc[t] = "wait" /\ UNCHANGED <<holds, jobs, moved, num_awake, num_exits, finished_flag>>
    BY <1>10 DEF SleepWait, sync
  <2>3. /\ t \in Threads /\ t # Main /\ p \in SleepPlaces
        /\ pc[t] \in Sleeping /\ p \in Sleeping
    BY <2>2, ThreadSets DEF Sleeping, SleepPlaces
  <2> QED BY <1>a, <1>c, <1>e, <2>1, <2>2, <2>3
<1>11. ASSUME NEW t \in Spawned, SleepAdd(t) PROVE SleepInvariant'
  <2>1. /\ pc[t] = "add" /\ num_awake' = num_awake + 1 /\ Goto(t, "check")
        /\ UNCHANGED <<holds, jobs, moved, num_exits, finished_flag>>
    BY <1>11 DEF SleepAdd
  <2>2. /\ t \in Threads /\ t # Main /\ "check" \in SleepPlaces
        /\ pc[t] \in Sleeping /\ "check" \notin Sleeping
    BY <2>1, ThreadSets DEF Sleeping, SleepPlaces
  <2> QED BY <1>a, <1>c, <1>e, <2>1, <2>2
<1>12. ASSUME NEW t \in Spawned, Check(t) PROVE SleepInvariant'
  <2>1. PICK p \in {"exited", "try"} :
          Goto(t, p) /\ num_exits' = IF p = "exited" THEN num_exits + 1 ELSE num_exits
    BY <1>12 DEF Check
  <2>2. pc[t] = "check" /\ UNCHANGED <<holds, jobs, moved, num_awake, finished_flag>>
    BY <1>12 DEF Check
  <2>3. /\ t \in Threads /\ t # Main /\ p \in SleepPlaces
        /\ pc[t] \notin Sleeping /\ p \notin Sleeping
    BY <2>2, ThreadSets DEF Sleeping, SleepPlaces
  <2> QED BY <1>a, <1>c, <1>e, <2>1, <2>2, <2>3
<1>13. ASSUME NEW t \in Spawned, Resume(t) PROVE SleepInvariant'
  <2>1. PICK p \in {"check", "load"} : Goto(t, p)
    BY <1>13 DEF Resume
  <2>2. pc[t] = "resume" /\ UNCHANGED <<holds, jobs, sync>> /\ t \in Threads /\ t # Main
    BY <1>13, ThreadSets DEF Resume
  <2> QED BY <1>a, <1>f, <2>1, <2>2 DEF Sleeping, SleepPlaces
<1>14. ASSUME Close PROVE SleepInvariant'
  <2>1. /\ pc[Main] = "run" /\ finished_flag' = TRUE /\ Goto(Main, "close")
        /\ UNCHANGED <<holds, jobs, moved, num_awake, num_exits>>
    BY <1>14 DEF Close
  <2>2. /\ Main \in Threads /\ "close" \in SleepPlaces
        /\ pc[Main] \notin Sleeping /\ "close" \notin Sleeping
    BY <2>1, ThreadSets DEF Sleeping, SleepPlaces
  <2> QED BY <1>a, <1>c, <1>e, <2>1, <2>2
<1>15. ASSUME CloseLoop PROVE SleepInvariant'
  <2>1. PICK p \in {"wake", "exited"} : Goto(Main, p)
    BY <1>15 DEF CloseLoop
  <2>2. pc[Main] = "close" /\ UNCHANGED <<holds, jobs, moved, num_awake, num_exits, finished_flag>>
    BY <1>15 DEF CloseLoop, sync
  <2>3. /\ Main \in Threads /\ p \in SleepPlaces /\ p \in {"exited"} \cup Waking
        /\ pc[Main] \notin Sleeping /\ p \notin Sleeping
    BY <2>2, ThreadSets DEF Sleeping, Waking, SleepPlaces
  <2> QED BY <1>a, <1>c, <1>e, <2>1, <2>2, <2>3
<1>16. ASSUME UNCHANGED sleep_vars PROVE SleepInvariant'
  BY <1>16 DEF sleep_vars, SleepInvariant, SleepTypeOK, AwakeIsCounted, ExitsAreCounted, MainStaysAwake, NoLostNotify
<1> QED
  BY <1>1, <1>2, <1>3, <1>4, <1>5, <1>6, <1>7, <1>8, <1>9, <1>10, <1>11, <1>12, <1>13, <1>14,
     <1>15, <1>16
  DEF SleepNext, Exited, UserCode, MayWakeOthers, GoSleep, Loop

(***************************************************************************)
(* For every number of threads and of jobs: num_awake misses no thread     *)
(* that is awake and counts none that sleeps, num_exits counts every       *)
(* thread that left its loop once, and a thread blocked on an epoch that   *)
(* has passed is about to be notified.                                     *)
(***************************************************************************)
THEOREM SleepIsSafe == SleepSpec => []SleepInvariant
<1>1. SleepInit => RoomToPush
  BY DEF SleepInit, RoomToPush, PushPlaces
<1>2. SleepInvariant /\ RoomToPush /\ [SleepNext]_sleep_vars => SleepInvariant' /\ RoomToPush'
  BY StepSleep, StepRoom
<1> QED BY <1>1, <1>2, InitialSleep, PTL DEF SleepSpec

-----------------------------------------------------------------------------
(***************************************************************************)
(* The deque, for every Modulus, Capacity, MaxDepth and set of thieves.    *)
(***************************************************************************)
(* Arithmetic modulo Modulus, on the distances the counters stand for. *)

LEMMA WrapCases ==
  ASSUME NEW x \in -Modulus..(2 * Modulus - 1)
  PROVE  /\ Wrap(x) \in Counter
         /\ x < 0 => Wrap(x) = x + Modulus
         /\ x \in Counter => Wrap(x) = x
         /\ x >= Modulus => Wrap(x) = x - Modulus
BY DequeAssumption, SMTT(30) DEF Wrap, Counter

(* The distance from h to a grows and shrinks with a, and shrinks with h. *)
LEMMA Distances ==
  ASSUME NEW h \in Counter, NEW a \in Counter
  PROVE  /\ Wrap(a - h) \in Counter
         /\ Wrap(h + 1) \in Counter /\ Wrap(a + 1) \in Counter
         /\ Wrap(a + 2) \in Counter /\ Wrap(a - 1) \in Counter
         /\ Wrap(a - 2) \in Counter
         /\ Wrap(a - h) = 0 <=> a = h
         /\ Wrap(a - h) # 0 => Wrap(a - Wrap(h + 1)) = Wrap(a - h) - 1
         /\ Wrap(a - h) # 0 => Wrap(Wrap(a - 1) - h) = Wrap(a - h) - 1
         /\ Wrap(a - h) >= 2 => Wrap(Wrap(a - 2) - h) = Wrap(a - h) - 2
         /\ Wrap(a - h) + 1 < Modulus => Wrap(Wrap(a + 1) - h) = Wrap(a - h) + 1
         /\ Wrap(Wrap(h + 2) - h) = 2
<1> DEFINE D(x) == IF x < 0 THEN x + Modulus ELSE IF x >= Modulus THEN x - Modulus ELSE x
<1>0. Modulus \in Nat /\ Modulus >= 3 /\ h \in 0..(Modulus-1) /\ a \in 0..(Modulus-1)
  BY DequeAssumption DEF Counter
<1>1. \A x \in -Modulus..(2 * Modulus - 1) : Wrap(x) = D(x)
  BY <1>0, WrapCases DEF Counter
<1>2. /\ Wrap(a - h) = D(a - h) /\ Wrap(h + 1) = D(h + 1)
      /\ Wrap(a + 1) = D(a + 1) /\ Wrap(a - 1) = D(a - 1)
      /\ Wrap(a + 2) = D(a + 2) /\ Wrap(h + 2) = D(h + 2)
      /\ Wrap(a - 2) = D(a - 2)
  BY <1>0, <1>1
<1>3. /\ Wrap(a - D(h + 1)) = D(a - D(h + 1))
      /\ Wrap(D(a - 1) - h) = D(D(a - 1) - h)
      /\ Wrap(D(a - 2) - h) = D(D(a - 2) - h)
      /\ Wrap(D(a + 1) - h) = D(D(a + 1) - h)
      /\ Wrap(D(h + 2) - h) = D(D(h + 2) - h)
  BY <1>0, <1>1
<1> QED BY <1>0, <1>2, <1>3 DEF Counter

LEMMA DistanceInjective ==
  ASSUME NEW h \in Counter, NEW a \in Counter, NEW b \in Counter,
         Wrap(a - h) = Wrap(b - h)
  PROVE  a = b
<1>1. Modulus \in Nat /\ h \in 0..(Modulus-1) /\ a \in 0..(Modulus-1) /\ b \in 0..(Modulus-1)
  BY DequeAssumption DEF Counter
<1>2. /\ Wrap(a - h) = IF a < h THEN a - h + Modulus ELSE a - h
      /\ Wrap(b - h) = IF b < h THEN b - h + Modulus ELSE b - h
  BY <1>1, WrapCases DEF Counter
<1> QED BY <1>1, <1>2

LEMMA PhysicType == \A x \in Counter : Physic(x) \in Slots
BY DequeAssumption, SMTT(30) DEF Physic, Slots, Counter

(* While fewer than Capacity, the distance is what length computes. *)
LEMMA LengthIsRaw ==
  ASSUME NEW p \in PosType
  PROVE  /\ Raw(p) \in Counter
         /\ length(p) \in Slots
         /\ Raw(p) < Capacity => length(p) = Raw(p)
<1>1. Raw(p) \in Counter
  BY Distances DEF PosType, Raw
<1>2. length(p) = Raw(p) % Capacity
  BY DEF length, Raw, Physic
<1> QED BY <1>1, <1>2, DequeAssumption, SMTT(30) DEF Slots, Counter

LEMMA TargetType ==
  ASSUME NEW p \in PosType
  PROVE  Target(p) \in Counter /\ NextTail(p) \in Counter
BY Distances DEF PosType, Target, NextTail

-----------------------------------------------------------------------------
(* Every variable keeps its type. *)

LEMMA InitType == DequeInit => DequeTypeOK
BY DequeAssumption
   DEF DequeInit, DequeTypeOK, PosType, Unread, Counter, Slots, Frames, FramePhases,
       ThiefPhases, NoJob

LEMMA UnreadType == Unread \in PosType
BY DequeAssumption DEF Unread, PosType, Counter

LEMMA OwnerType ==
  ASSUME DequeTypeOK, ParallelDo
  PROVE  DequeTypeOK'
<1> USE DEF DequeTypeOK, GoOnTo, thief
<1>0. MaxDepth \in Nat /\ NoJob \in 0..MaxDepth
  BY DequeAssumption DEF NoJob
<1>1. CASE Fork
  BY <1>0, <1>1 DEF Fork, FramePhases, Frames
<1>2. CASE PushLoad
  BY <1>0, <1>2 DEF PushLoad, FramePhases, Frames
<1>3. CASE PushRefused
  BY <1>0, <1>3, UnreadType DEF PushRefused, FramePhases, Frames
<1>4. CASE PushStore
  BY <1>0, <1>4, TargetType, PhysicType DEF PushStore, FramePhases, Frames
<1>5. CASE PushPublish
  <2>1. pos' \in PosType
    BY <1>5, TargetType DEF PushPublish, PosType
  <2> QED BY <1>0, <1>5, <2>1, UnreadType DEF PushPublish, FramePhases, Frames
<1>6. CASE LeftReturns
  BY <1>0, <1>6 DEF LeftReturns, FramePhases, Frames
<1>7. CASE PopLoad
  BY <1>0, <1>7 DEF PopLoad, FramePhases, Frames
<1>8. CASE PopSub
  <2>1. pos' \in PosType
    BY <1>8, Distances DEF PopSub, PosType
  <2> QED BY <1>0, <1>8, <2>1 DEF PopSub, FramePhases, Frames
<1>9. CASE PopClear
  BY <1>0, <1>9, UnreadType DEF PopClear, FramePhases, Frames
<1>10. CASE RightReturns
  BY <1>0, <1>10 DEF RightReturns, FramePhases, Frames
<1>11. CASE WaitDone
  BY <1>0, <1>11 DEF WaitDone, FramePhases, Frames
<1>12. CASE ReturnFromDo
  BY <1>0, <1>12, DequeAssumption DEF ReturnFromDo, FramePhases, Frames, Counter
<1> QED
  BY <1>1, <1>2, <1>3, <1>4, <1>5, <1>6, <1>7, <1>8, <1>9, <1>10, <1>11, <1>12
     DEF ParallelDo, PushBottom, PopBottom

LEMMA ThiefType ==
  ASSUME DequeTypeOK, ClaimsInv, NEW t \in Thieves, PopTop(t) \/ Execute(t)
  PROVE  DequeTypeOK'
<1> USE DEF DequeTypeOK, owner
<1>0. MaxDepth \in Nat /\ NoJob \in 0..MaxDepth
  BY DequeAssumption DEF NoJob
<1>1. CASE TopLoad(t)
  BY <1>1 DEF TopLoad, ThiefPhases
<1>2. CASE TopCas(t)
  <2>1. pos' \in PosType
    BY <1>2, Distances DEF TopCas, PosType
  <2> QED BY <1>2, <2>1, UnreadType DEF TopCas, ThiefPhases
<1>3. CASE TopRead(t)
  BY <1>3, PhysicType DEF TopRead, TopSlot, ThiefPhases, PosType
<1>4. CASE TopClear(t)
  BY <1>0, <1>4, UnreadType DEF TopClear, ThiefPhases
<1>5. CASE Execute(t)
  <2>1. tjob[t] \in queued
    BY <1>5 DEF Execute, ClaimsInv, Claim
  <2> QED BY <1>0, <1>5, <2>1 DEF Execute, ThiefPhases
<1> QED BY <1>1, <1>2, <1>3, <1>4, <1>5 DEF PopTop

LEMMA UnclaimingThief ==
  ASSUME NEW t \in Thieves, tpc[t] \notin {"read", "clear", "run"}, NEW d \in Frames
  PROVE  Claim(t) # d
BY DequeAssumption DEF Claim, NoJob, Frames

-----------------------------------------------------------------------------
(***************************************************************************)
(* The owner's steps that touch neither pos nor deq only move its          *)
(* innermost call: claims, offsets and unclaimed jobs stay as they are.    *)
(***************************************************************************)
LocalStep ==
  Fork \/ PushLoad \/ PushRefused \/ LeftReturns \/ PopLoad \/ RightReturns \/ WaitDone

LEMMA OffsetType ==
  ASSUME DequeTypeOK, NEW d \in Frames
  PROVE  Offset(d) \in Counter
<1>1. at[d] \in Counter /\ pos.head \in Counter
  BY DEF DequeTypeOK, PosType
<1> QED BY <1>1, Distances DEF Offset

LEMMA EmptyWindow ==
  ASSUME DequeTypeOK, CountersInv, WindowInv, NEW d \in Frames, length(pos) <= 1
  PROVE  ~ Unclaimed(d)
<1>1. Raw(pos) <= 1 /\ Raw(pos) \in Int
  BY LengthIsRaw DEF DequeTypeOK, CountersInv, Counter
<1>2. Offset(d) \in Nat
  BY OffsetType DEF Counter
<1> QED BY <1>1, <1>2 DEF WindowInv

LEMMA LocalStepKeeps ==
  ASSUME DequeTypeOK, LocalStep
  PROVE  /\ UNCHANGED <<pos, deq, queued, job_done, at, tpc, tp, tjob>>
         /\ Raw(pos)' = Raw(pos)
         /\ \A t \in Thieves : Claim(t)' = Claim(t) /\ TopSlot(t)' = TopSlot(t)
         /\ \A d \in Frames : Offset(d)' = Offset(d)
<1>1. UNCHANGED <<pos, deq, queued, job_done, at, tpc, tp, tjob>>
  BY DEF LocalStep, Fork, PushLoad, PushRefused, LeftReturns, PopLoad,
         RightReturns, WaitDone, thief
<1> QED BY <1>1 DEF Raw, Claim, TopSlot, Offset

LEMMA LocalStepUnclaimed ==
  ASSUME DequeInvariant, LocalStep, NEW d \in Frames
  PROVE  /\ Open(d)' => Open(d)
         /\ Unclaimed(d)' <=> Unclaimed(d)
<1> USE DEF DequeInvariant, DequeTypeOK, GoOnTo
<1>0. depth \in 0..MaxDepth /\ MaxDepth \in Nat
  BY DequeAssumption
<1>1. /\ UNCHANGED <<queued, job_done>>
      /\ \A t \in Thieves : Claim(t)' = Claim(t)
  BY LocalStepKeeps
<1>2. ASSUME frame[d]' = frame[d] PROVE (Open(d)' <=> Open(d)) /\ (Unclaimed(d)' <=> Unclaimed(d))
  BY <1>1, <1>2 DEF Open, Unclaimed
<1>3. CASE Fork
  <2>1. frame[d]' = frame[d] \/ (d \notin queued)
    BY <1>0, <1>3 DEF Fork, StackInv
  <2> QED BY <1>1, <1>2, <2>1 DEF Open, Unclaimed
<1>4. CASE PushLoad \/ PushRefused
  <2>1. frame[d]' = frame[d] \/ (d \notin queued)
    BY <1>0, <1>4 DEF PushLoad, PushRefused, StackInv
  <2> QED BY <1>1, <1>2, <2>1 DEF Open, Unclaimed
<1>5. CASE LeftReturns
  <2>1. d # depth => frame[d]' = frame[d]
    BY <1>0, <1>5 DEF LeftReturns
  <2>2. frame[depth] = "left" /\ frame'[depth] = IF depth \in queued THEN "join" ELSE "right"
    BY <1>0, <1>5 DEF LeftReturns, Frames
  <2> QED BY <1>1, <1>2, <2>1, <2>2 DEF Open, Unclaimed
<1>6. CASE PopLoad
  <2>1. d # depth => frame[d]' = frame[d]
    BY <1>0, <1>6 DEF PopLoad
  <2>2. frame[depth] = "join" /\ frame'[depth] = IF length(pos) <= 1 THEN "wait" ELSE "sub"
    BY <1>0, <1>6 DEF PopLoad, Frames
  <2>3. length(pos) <= 1 => ~ Unclaimed(d)
    BY EmptyWindow
  <2> QED BY <1>1, <1>2, <2>1, <2>2, <2>3 DEF Open, Unclaimed
<1>7. CASE RightReturns \/ WaitDone
  <2>1. d # depth => frame[d]' = frame[d]
    BY <1>0, <1>7 DEF RightReturns, WaitDone
  <2>2. frame[depth] \in {"right", "wait"} /\ frame'[depth] = "return"
    BY <1>0, <1>7 DEF RightReturns, WaitDone, Frames
  <2> QED BY <1>1, <1>2, <2>1, <2>2 DEF Open, Unclaimed
<1> QED BY <1>3, <1>4, <1>5, <1>6, <1>7 DEF LocalStep

LEMMA LocalStepInv ==
  ASSUME DequeInvariant, LocalStep
  PROVE  DequeInvariant'
<1> USE DEF DequeInvariant
<1>0. /\ depth \in 0..MaxDepth /\ MaxDepth \in Nat
      /\ frame \in [Frames -> FramePhases] /\ queued \subseteq Frames
  BY DequeAssumption DEF DequeTypeOK
<1>1. DequeTypeOK'
  BY OwnerType DEF LocalStep, ParallelDo, PushBottom, PopBottom
<1>2. /\ UNCHANGED <<pos, deq, queued, job_done, at, tpc, tp, tjob>>
      /\ Raw(pos)' = Raw(pos)
      /\ \A t \in Thieves : Claim(t)' = Claim(t) /\ TopSlot(t)' = TopSlot(t)
      /\ \A d \in Frames : Offset(d)' = Offset(d)
  BY LocalStepKeeps
<1>3. CountersInv'
  BY <1>2 DEF CountersInv, Raw
<1>4. StackInv'
  <2> USE DEF StackInv, GoOnTo, Frames
  <2>1. CASE Fork
    BY <1>0, <2>1 DEF Fork
  <2>2. CASE PushLoad
    BY <1>0, <2>2 DEF PushLoad
  <2>3. CASE PushRefused
    BY <1>0, <2>3 DEF PushRefused
  <2>4. CASE LeftReturns
    BY <1>0, <2>4 DEF LeftReturns
  <2>5. CASE PopLoad
    BY <1>0, <2>5 DEF PopLoad
  <2>6. CASE RightReturns
    BY <1>0, <2>6 DEF RightReturns
  <2>7. CASE WaitDone
    BY <1>0, <2>7 DEF WaitDone
  <2> QED BY <2>1, <2>2, <2>3, <2>4, <2>5, <2>6, <2>7 DEF LocalStep
<1>5. PushInv'
  <2>1. CASE PushLoad
    <3>1. CASE length(pos) = Capacity - 1
      BY <1>0, <2>1, <3>1 DEF PushLoad, PushInv, GoOnTo, Frames
    <3>2. CASE length(pos) # Capacity - 1
      <4>1. op' = pos /\ depth' = depth /\ frame'[depth] = "store"
        BY <1>0, <2>1, <3>2 DEF PushLoad, GoOnTo, Frames
      <4>2. Raw(pos) <= Capacity - 2 /\ Raw(pos) \in Int
        BY <3>2, LengthIsRaw, DequeAssumption DEF CountersInv, DequeTypeOK, Counter
      <4> QED BY <1>2, <4>1, <4>2 DEF PushInv, Raw
    <3> QED BY <3>1, <3>2
  <2>2. CASE ~ PushLoad
    BY <1>0, <2>2
       DEF LocalStep, Fork, PushRefused, LeftReturns, PopLoad, RightReturns,
           WaitDone, PushInv, GoOnTo, Frames
  <2> QED BY <2>1, <2>2
<1>6. PopInv'
  <2>1. CASE PopLoad
    <3>1. CASE length(pos) <= 1
      BY <1>0, <2>1, <3>1 DEF PopLoad, PopInv, GoOnTo, Frames
    <3>2. CASE ~ (length(pos) <= 1)
      <4>1. depth' = depth /\ frame'[depth] = "sub"
        BY <1>0, <2>1, <3>2 DEF PopLoad, GoOnTo, Frames
      <4>2. Raw(pos) # 0
        BY <3>2, LengthIsRaw, DequeAssumption DEF CountersInv, DequeTypeOK, Counter
      <4> QED BY <1>2, <4>1, <4>2 DEF PopInv
    <3> QED BY <3>1, <3>2
  <2>2. CASE ~ PopLoad
    BY <1>0, <2>2
       DEF LocalStep, Fork, PushLoad, PushRefused, LeftReturns, RightReturns,
           WaitDone, PopInv, GoOnTo, Frames
  <2> QED BY <2>1, <2>2
<1>7. WindowInv'
  BY <1>2, LocalStepUnclaimed DEF WindowInv
<1>8. ClaimsInv'
  <2> SUFFICES ASSUME NEW t \in Thieves, tpc[t] \in {"read", "clear", "run"}
               PROVE  frame'[Claim(t)] \in {"left", "join", "sub", "wait"}
    BY <1>2 DEF ClaimsInv
  <2>1. /\ Claim(t) \in queued \ job_done /\ Claim(t) \in Frames
        /\ frame[Claim(t)] \in {"left", "join", "sub", "wait"}
    BY DEF ClaimsInv, DequeTypeOK
  <2>2. CASE Fork \/ PushLoad \/ PushRefused
    BY <1>0, <2>1, <2>2 DEF Fork, PushLoad, PushRefused, StackInv, GoOnTo, Frames
  <2>3. CASE LeftReturns \/ PopLoad
    BY <1>0, <2>1, <2>3 DEF LeftReturns, PopLoad, GoOnTo, Frames
  <2>4. CASE RightReturns \/ WaitDone
    BY <1>0, <2>1, <2>4 DEF RightReturns, WaitDone, GoOnTo, Frames
  <2> QED BY <2>2, <2>3, <2>4 DEF LocalStep
<1>9. WaitersAreServed'
  <2> SUFFICES ASSUME NEW d \in 1..depth', frame'[d] = "wait"
               PROVE  d \in job_done \/ \E t \in Thieves : Claim(t) = d
    BY <1>2 DEF WaitersAreServed
  <2>1. CASE PopLoad /\ d = depth
    <3>1. length(pos) <= 1 /\ d \in Frames /\ d \in queued /\ frame[d] = "join"
      BY <1>0, <2>1 DEF PopLoad, GoOnTo, Frames, StackInv
    <3>2. ~ Unclaimed(d)
      BY <3>1, EmptyWindow
    <3> QED BY <3>1, <3>2 DEF Unclaimed
  <2>2. CASE ~ (PopLoad /\ d = depth)
    <3>1. d \in 1..depth /\ frame[d] = "wait"
      BY <1>0, <2>2
         DEF LocalStep, Fork, PushLoad, PushRefused, LeftReturns, PopLoad,
             RightReturns, WaitDone, GoOnTo, Frames
    <3> QED BY <3>1 DEF WaitersAreServed
  <2> QED BY <2>1, <2>2
<1> QED BY <1>1, <1>3, <1>4, <1>5, <1>6, <1>7, <1>8, <1>9

-----------------------------------------------------------------------------
(* push_bottom fills a slot that was empty, so it disturbs no other job. *)

LEMMA PushStoreInv ==
  ASSUME DequeInvariant, PushStore
  PROVE  DequeInvariant'
<1> USE DEF DequeInvariant
<1> DEFINE s == Physic(Target(op))
<1>0. /\ depth \in Frames /\ frame \in [Frames -> FramePhases]
      /\ queued \subseteq Frames /\ frame[depth] = "store" /\ depth \notin queued
      /\ s \in Slots /\ deq \in [Slots -> 0..MaxDepth] /\ deq[s] = NoJob
      /\ at \in [Frames -> Counter] /\ job_done \subseteq queued
  BY PhysicType, TargetType DEF DequeTypeOK, PushStore, StackInv, Frames
<1>1. /\ UNCHANGED <<pos, depth, queued, job_done, op, tpc, tp, tjob>>
      /\ deq' = [deq EXCEPT ![s] = depth]
      /\ at' = [at EXCEPT ![depth] = Target(op)]
      /\ frame' = [frame EXCEPT ![depth] = "publish"]
  BY DEF PushStore, GoOnTo, thief
<1>2. DequeTypeOK'
  BY OwnerType DEF ParallelDo, PushBottom
<1>3. \A t \in Thieves :
        /\ TopSlot(t)' = TopSlot(t)
        /\ tpc[t] \in {"read", "clear"} => TopSlot(t) \in Slots /\ TopSlot(t) # s
  <2> TAKE t \in Thieves
  <2>1. TopSlot(t)' = TopSlot(t) /\ TopSlot(t) \in Slots
    BY <1>1, PhysicType DEF TopSlot, DequeTypeOK, PosType
  <2>2. tpc[t] \in {"read", "clear"} => deq[TopSlot(t)] \in Frames
    BY <1>0 DEF ClaimsInv
  <2> QED BY <1>0, <2>1, <2>2 DEF NoJob, Frames
<1>4. \A t \in Thieves : Claim(t)' = Claim(t)
  BY <1>0, <1>1, <1>3 DEF Claim
<1>5. \A d \in Frames :
        /\ Unclaimed(d)' <=> Unclaimed(d)
        /\ Open(d)' <=> Open(d)
        /\ d # depth => Offset(d)' = Offset(d) /\ at'[d] = at[d]
  BY <1>0, <1>1, <1>4 DEF Unclaimed, Open, Offset
<1>6. CountersInv'
  BY <1>1 DEF CountersInv, Raw
<1>7. StackInv'
  BY <1>0, <1>1 DEF StackInv
<1>8. PushInv'
  BY <1>0, <1>1 DEF PushInv, Raw, Target, length
<1>9. PopInv'
  BY <1>0, <1>1 DEF PopInv
<1>10. WindowInv'
  <2>1. \A d \in Frames : Unclaimed(d) => d # depth
    BY <1>0 DEF Unclaimed
  <2>2. \A d \in Frames : Unclaimed(d) => deq'[Physic(at[d])] = d
    <3> TAKE d \in Frames
    <3> HAVE Unclaimed(d)
    <3>1. Physic(at[d]) \in Slots /\ deq[Physic(at[d])] = d
      BY <1>0, PhysicType DEF WindowInv
    <3>2. Physic(at[d]) # s
      BY <1>0, <3>1 DEF NoJob, Frames
    <3> QED BY <1>0, <1>1, <3>1, <3>2
  <2>3. Raw(pos)' = Raw(pos)
    BY <1>1 DEF Raw
  <2> QED BY <1>5, <2>1, <2>2, <2>3 DEF WindowInv
<1>11. ClaimsInv'
  BY <1>0, <1>1, <1>3, <1>4 DEF ClaimsInv
<1>12. WaitersAreServed'
  BY <1>0, <1>1, <1>4 DEF WaitersAreServed, Frames
<1> QED BY <1>2, <1>6, <1>7, <1>8, <1>9, <1>10, <1>11, <1>12

(***************************************************************************)
(* Publishing tail opens the window by exactly the new job, whatever the   *)
(* thieves did to head since pos was loaded.                               *)
(***************************************************************************)
LEMMA PublishedDistance ==
  ASSUME DequeTypeOK, CountersInv, PushInv, depth \in Frames, frame[depth] = "publish"
  PROVE  LET h == pos.head
             u == NextTail(op)
         IN  /\ Wrap(u - h) = Wrap(Target(op) - h) + 2
             /\ Wrap(u - h) < Capacity
             /\ Raw(pos) = 0 => Wrap(Target(op) - h) = 0
             /\ Raw(pos) # 0 => Wrap(Target(op) - h) + 1 = Raw(pos)
<1>1. /\ Capacity \in Nat /\ Modulus \in Nat /\ 3 <= Capacity /\ Capacity <= Modulus
      /\ pos \in PosType /\ op \in PosType /\ pos.head \in Counter
      /\ pos.tail \in Counter /\ op.head \in Counter /\ op.tail = pos.tail
  BY DequeAssumption DEF DequeTypeOK, PosType, PushInv, Frames
<1>2. /\ Raw(op) \in Counter /\ Raw(pos) \in Counter
      /\ Raw(op) <= Capacity - 2 /\ Raw(pos) <= Raw(op)
      /\ length(op) = Raw(op)
      /\ Raw(op) = 0 => op = pos
      /\ Raw(op) # 0 => Raw(pos) # 0
  BY <1>1, LengthIsRaw DEF PushInv, Frames, Counter
<1>3. CASE Raw(op) = 0
  <2>1. op = pos /\ Raw(pos) = 0 /\ pos.tail = pos.head
    BY <1>1, <1>2, <1>3, Distances DEF Raw
  <2>2. Target(op) = pos.head /\ NextTail(op) = Wrap(pos.head + 2)
    BY <1>2, <1>3, <2>1 DEF Target, NextTail
  <2>3. Wrap(pos.head - pos.head) = 0 /\ Wrap(Wrap(pos.head + 2) - pos.head) = 2
    BY <1>1, Distances
  <2> QED BY <1>1, <2>1, <2>2, <2>3
<1>4. CASE Raw(op) # 0
  <2>1. Target(op) = Wrap(pos.tail - 1) /\ NextTail(op) = Wrap(pos.tail + 1)
    BY <1>1, <1>2, <1>4 DEF Target, NextTail
  <2>2. Raw(pos) # 0 /\ Raw(pos) + 1 < Modulus
    BY <1>1, <1>2, <1>4 DEF Counter
  <2>3. /\ Wrap(Wrap(pos.tail - 1) - pos.head) = Raw(pos) - 1
        /\ Wrap(Wrap(pos.tail + 1) - pos.head) = Raw(pos) + 1
    BY <1>1, <2>2, Distances DEF Raw
  <2> QED BY <1>1, <1>2, <2>1, <2>2, <2>3 DEF Counter
<1> QED BY <1>3, <1>4

LEMMA PushPublishInv ==
  ASSUME DequeInvariant, PushPublish
  PROVE  DequeInvariant'
<1> USE DEF DequeInvariant
<1>0. /\ depth \in Frames /\ frame \in [Frames -> FramePhases]
      /\ queued \subseteq Frames /\ frame[depth] = "publish" /\ depth \notin queued
      /\ job_done \subseteq queued /\ pos \in PosType
      /\ at[depth] = Target(op) /\ deq[Physic(Target(op))] = depth
  BY DEF DequeTypeOK, PushPublish, StackInv, PushInv, Frames
<1>1. /\ UNCHANGED <<depth, deq, at, job_done, tpc, tp, tjob>>
      /\ pos' = [pos EXCEPT !.tail = NextTail(op)]
      /\ queued' = queued \cup {depth}
      /\ frame' = [frame EXCEPT ![depth] = "left"]
  BY DEF PushPublish, GoOnTo, thief
<1>2. DequeTypeOK'
  BY OwnerType DEF ParallelDo, PushBottom
<1>3. /\ pos'.head = pos.head
      /\ Raw(pos)' = Offset(depth) + 2
      /\ Raw(pos)' < Capacity
      /\ Raw(pos) = 0 => Offset(depth) = 0
      /\ Raw(pos) # 0 => Offset(depth) + 1 = Raw(pos)
      /\ Offset(depth) \in Counter
  BY <1>0, <1>1, PublishedDistance, OffsetType DEF Raw, Offset, PosType
<1>4. \A t \in Thieves : Claim(t)' = Claim(t) /\ TopSlot(t)' = TopSlot(t)
  BY <1>1 DEF Claim, TopSlot
<1>5. \A t \in Thieves : Claim(t) # depth
  BY <1>0, DequeAssumption DEF ClaimsInv, Claim, NoJob, Frames, DequeTypeOK, ThiefPhases
<1>6. \A d \in Frames :
        /\ Offset(d)' = Offset(d)
        /\ Open(d)' <=> Open(d) \/ d = depth
        /\ Unclaimed(d)' <=> Unclaimed(d) \/ d = depth
        /\ Open(d) => d < depth
  <2> TAKE d \in Frames
  <2>1. Offset(d)' = Offset(d)
    BY <1>1, <1>3 DEF Offset
  <2>2. Open(d) => d < depth
    BY <1>0 DEF Open, StackInv, Frames
  <2>3. CASE d = depth
    BY <1>0, <1>1, <1>4, <1>5, <2>1, <2>2, <2>3 DEF Open, Unclaimed
  <2>4. CASE d # depth
    BY <1>0, <1>1, <1>4, <2>1, <2>2, <2>4 DEF Open, Unclaimed
  <2> QED BY <2>3, <2>4
<1>7. CountersInv'
  BY <1>1, <1>3 DEF CountersInv, Raw
<1>8. StackInv'
  BY <1>0, <1>1 DEF StackInv
<1>9. PushInv'
  BY <1>0, <1>1 DEF PushInv
<1>10. PopInv'
  BY <1>0, <1>1 DEF PopInv
<1>11. WindowInv'
  <2>1. \A d \in Frames : Unclaimed(d) => Open(d) /\ Offset(d) + 2 <= Raw(pos) /\ Offset(d) \in Counter
    BY OffsetType DEF WindowInv, Open, Unclaimed
  <2>2. Raw(pos) \in Counter
    BY <1>0, LengthIsRaw
  <2>3. \A d \in Frames : Unclaimed(d)' =>
          deq'[Physic(at'[d])] = d /\ Offset(d)' + 2 <= Raw(pos)'
    BY <1>0, <1>1, <1>3, <1>6, <2>1, <2>2 DEF WindowInv, Counter
  <2>4. \A k \in Counter : k + 2 <= Raw(pos)' => \E d \in Frames : Unclaimed(d)' /\ Offset(d)' = k
    BY <1>0, <1>3, <1>6, <2>2 DEF WindowInv, Counter
  <2>5. \A d, e \in Frames : d < e /\ Unclaimed(d)' /\ Unclaimed(e)' => Offset(d)' < Offset(e)'
    BY <1>0, <1>3, <1>6, <2>1, <2>2 DEF WindowInv, Counter, Frames
  <2>6. \A d, e \in Frames : d < e /\ Unclaimed(d)' /\ Open(e)' => Unclaimed(e)'
    BY <1>0, <1>6, <2>1 DEF WindowInv, Frames
  <2> QED BY <2>3, <2>4, <2>5, <2>6 DEF WindowInv
<1>12. ClaimsInv'
  BY <1>0, <1>1, <1>4, <1>5 DEF ClaimsInv
<1>13. WaitersAreServed'
  BY <1>0, <1>1, <1>4 DEF WaitersAreServed, Frames
<1> QED BY <1>2, <1>7, <1>8, <1>9, <1>10, <1>11, <1>12, <1>13

-----------------------------------------------------------------------------
(***************************************************************************)
(* pop_bottom decides the race with its fetch_sub: with one job or more    *)
(* left, the last of them is the job of the call that is popping.          *)
(***************************************************************************)
LEMMA LastJobIsMine ==
  ASSUME DequeInvariant, depth \in Frames, frame[depth] = "sub", Raw(pos) >= 2
  PROVE  Unclaimed(depth) /\ Offset(depth) + 2 = Raw(pos)
<1> USE DEF DequeInvariant
<1>0. Raw(pos) \in Counter /\ Modulus \in Nat
  BY LengthIsRaw, DequeAssumption DEF DequeTypeOK
<1>1. PICK d \in Frames : Unclaimed(d) /\ Offset(d) = Raw(pos) - 2
  <2>1. Raw(pos) - 2 \in Counter
    BY <1>0 DEF Counter
  <2> QED BY <1>0, <2>1 DEF WindowInv, Counter
<1>2. Open(depth)
  BY DEF Open, StackInv
<1>3. d <= depth
  BY <1>1 DEF StackInv, Unclaimed, Frames, DequeTypeOK
<1>4. d = depth \/ (d < depth /\ Unclaimed(depth))
  BY <1>1, <1>2, <1>3 DEF WindowInv, Frames
<1>5. Unclaimed(depth) => Offset(depth) + 2 <= Raw(pos) /\ Offset(depth) \in Counter
  BY OffsetType DEF WindowInv
<1>6. d < depth /\ Unclaimed(depth) => Offset(d) < Offset(depth)
  BY <1>1 DEF WindowInv
<1> QED BY <1>0, <1>1, <1>4, <1>5, <1>6 DEF Counter, Frames

LEMMA PopSubInv ==
  ASSUME DequeInvariant, PopSub
  PROVE  DequeInvariant'
<1> USE DEF DequeInvariant
<1>0. /\ depth \in Frames /\ frame \in [Frames -> FramePhases]
      /\ queued \subseteq Frames /\ frame[depth] = "sub" /\ depth \in queued
      /\ pos \in PosType /\ pos.head \in Counter /\ pos.tail \in Counter
      /\ Raw(pos) \in Counter /\ Raw(pos) # 0 /\ length(pos) = Raw(pos)
      /\ Modulus \in Nat /\ MaxDepth \in Nat /\ depth \in Int
      /\ frame' \in [Frames -> FramePhases]
  BY OwnerType, LengthIsRaw, DequeAssumption
     DEF DequeTypeOK, PosType, PopSub, StackInv, PopInv, CountersInv, Frames,
         ParallelDo, PopBottom
<1>1. /\ UNCHANGED <<depth, deq, at, queued, job_done, tpc, tp, tjob>>
      /\ pos' = [pos EXCEPT !.tail = Wrap(@ - 1)]
      /\ pos'.head = pos.head
      /\ Raw(pos)' = Raw(pos) - 1
      /\ Raw(pos) # 1 => op' = pos
      /\ \A d \in Frames :
           frame'[d] = IF d # depth THEN frame[d]
                       ELSE IF Raw(pos) = 1 THEN "wait" ELSE "clear"
  <2>1. /\ UNCHANGED <<depth, deq, at, queued, job_done, tpc, tp, tjob>>
        /\ pos' = [pos EXCEPT !.tail = Wrap(@ - 1)]
        /\ pos'.head = pos.head
        /\ Raw(pos)' = Raw(pos) - 1
    BY <1>0, Distances DEF PopSub, thief, Raw, PosType
  <2>2. CASE Raw(pos) = 1
    BY <1>0, <2>1, <2>2 DEF PopSub, GoOnTo
  <2>3. CASE Raw(pos) # 1
    BY <1>0, <2>1, <2>3 DEF PopSub, GoOnTo
  <2> QED BY <2>1, <2>2, <2>3
<1>2. DequeTypeOK'
  BY OwnerType DEF ParallelDo, PopBottom
<1>3. /\ \A t \in Thieves : Claim(t)' = Claim(t) /\ TopSlot(t)' = TopSlot(t)
      /\ \A d \in Frames : Offset(d)' = Offset(d)
  BY <1>1 DEF Claim, TopSlot, Offset
<1>4. \A d \in Frames : Open(d)' <=> Open(d) /\ d # depth
  BY <1>0, <1>1 DEF Open
<1>5. \A d \in Frames : Unclaimed(d)' <=> Unclaimed(d) /\ d # depth
  BY <1>0, <1>1, <1>3 DEF Unclaimed
<1>6. IF Raw(pos) = 1 THEN \A d \in Frames : ~ Unclaimed(d)
                      ELSE Unclaimed(depth) /\ Offset(depth) + 2 = Raw(pos)
  BY <1>0, EmptyWindow, LastJobIsMine DEF Counter
<1>7. CountersInv'
  <2>1. \A t \in Thieves : Raw(tp[t])' = Raw(tp[t])
    BY <1>1 DEF Raw
  <2> QED BY <1>0, <1>1, <2>1, DequeAssumption DEF CountersInv, Counter
<1>8. StackInv'
  <2>1. \A d \in Frames : d # depth => frame'[d] = frame[d]
    BY <1>1
  <2>2. frame'[depth] \in {"wait", "clear"}
    BY <1>0, <1>1
  <2> QED BY <1>0, <1>1, <2>1, <2>2 DEF StackInv, Frames
<1>9. PushInv'
  BY <1>0, <1>1 DEF PushInv
<1>10. PopInv'
  <2>1. CASE Raw(pos) = 1
    BY <1>0, <1>1, <2>1 DEF PopInv
  <2>2. CASE Raw(pos) # 1
    <3>1. Raw(pos) >= 2
      BY <1>0, <2>2 DEF Counter
    <3>2. Wrap(pos.tail - 2) \in Counter
      BY <1>0, Distances
    <3>3. Wrap(Wrap(pos.tail - 2) - pos.head) = Raw(pos) - 2
      BY <1>0, <3>1, Distances DEF Raw
    <3>4. at[depth] \in Counter /\ Wrap(at[depth] - pos.head) = Raw(pos) - 2
      BY <1>0, <1>6, <2>2, OffsetType DEF Offset, DequeTypeOK, Counter
    <3>5. at[depth] = Wrap(pos.tail - 2)
      BY <1>0, <3>2, <3>3, <3>4, DistanceInjective
    <3>6. deq[Physic(at[depth])] = depth
      BY <1>0, <1>6, <2>2 DEF WindowInv
    <3> QED BY <1>0, <1>1, <1>3, <1>6, <2>2, <3>5, <3>6 DEF PopInv, Unclaimed
  <2> QED BY <2>1, <2>2
<1>11. WindowInv'
  <2>1. \A d \in Frames : Unclaimed(d) => Offset(d) \in Counter /\ d <= depth
    BY <1>0, OffsetType DEF Unclaimed, StackInv, Frames, DequeTypeOK
  <2>2. \A d \in Frames : Unclaimed(d)' => deq'[Physic(at'[d])] = d
    BY <1>1, <1>5 DEF WindowInv
  <2>3. \A d \in Frames : Unclaimed(d)' => Offset(d)' + 2 <= Raw(pos)'
    <3> TAKE d \in Frames
    <3> HAVE Unclaimed(d)'
    <3>1. Unclaimed(d) /\ d < depth /\ Unclaimed(depth) /\ Offset(depth) + 2 = Raw(pos)
      BY <1>0, <1>5, <1>6, <2>1 DEF Frames
    <3>2. Offset(d) < Offset(depth)
      BY <1>0, <3>1 DEF WindowInv
    <3> QED BY <1>0, <1>1, <1>3, <2>1, <3>1, <3>2 DEF Counter
  <2>4. \A k \in Counter : k + 2 <= Raw(pos)' => \E d \in Frames : Unclaimed(d)' /\ Offset(d)' = k
    <3> TAKE k \in Counter
    <3> HAVE k + 2 <= Raw(pos)'
    <3>1. k + 2 < Raw(pos) /\ k + 2 <= Raw(pos) /\ Raw(pos) # 1
      BY <1>0, <1>1 DEF Counter
    <3>2. PICK d \in Frames : Unclaimed(d) /\ Offset(d) = k
      BY <3>1 DEF WindowInv
    <3>3. d # depth
      BY <1>0, <1>6, <3>1, <3>2 DEF Counter
    <3> QED BY <1>3, <1>5, <3>2, <3>3
  <2>5. \A d, e \in Frames : d < e /\ Unclaimed(d)' /\ Unclaimed(e)' => Offset(d)' < Offset(e)'
    BY <1>3, <1>5 DEF WindowInv
  <2>6. \A d, e \in Frames : d < e /\ Unclaimed(d)' /\ Open(e)' => Unclaimed(e)'
    BY <1>4, <1>5 DEF WindowInv
  <2> QED BY <2>2, <2>3, <2>4, <2>5, <2>6 DEF WindowInv
<1>12. ClaimsInv'
  <2> SUFFICES ASSUME NEW t \in Thieves, tpc[t] \in {"read", "clear", "run"}
               PROVE  frame'[Claim(t)] \in {"left", "join", "sub", "wait"}
    BY <1>1, <1>3 DEF ClaimsInv
  <2>1. /\ Claim(t) \in Frames
        /\ frame[Claim(t)] \in {"left", "join", "sub", "wait"}
    BY DEF ClaimsInv, DequeTypeOK
  <2>2. Claim(t) = depth => Raw(pos) = 1
    BY <1>6 DEF Unclaimed
  <2> QED BY <1>0, <1>1, <2>1, <2>2
<1>13. WaitersAreServed'
  <2> SUFFICES ASSUME NEW d \in 1..depth, frame'[d] = "wait"
               PROVE  d \in job_done \/ \E t \in Thieves : Claim(t) = d
    BY <1>1, <1>3 DEF WaitersAreServed
  <2>1. CASE d = depth
    BY <1>0, <1>1, <1>6, <2>1 DEF Unclaimed
  <2>2. CASE d # depth
    <3>1. d \in Frames
      BY <1>0 DEF Frames
    <3> QED BY <1>1, <2>2, <3>1 DEF WaitersAreServed
  <2> QED BY <2>1, <2>2
<1> QED BY <1>2, <1>7, <1>8, <1>9, <1>10, <1>11, <1>12, <1>13

LEMMA PopClearInv ==
  ASSUME DequeInvariant, PopClear
  PROVE  DequeInvariant'
<1> USE DEF DequeInvariant
<1> DEFINE s == Physic(Wrap(op.tail - 2))
<1>0. /\ depth \in Frames /\ frame \in [Frames -> FramePhases]
      /\ queued \subseteq Frames /\ frame[depth] = "clear"
      /\ deq \in [Slots -> 0..MaxDepth] /\ deq[s] = depth
      /\ at \in [Frames -> Counter] /\ MaxDepth \in Nat /\ depth \in Int
      /\ \A t \in Thieves : Claim(t) # depth
  BY DequeAssumption DEF DequeTypeOK, PopClear, PopInv, Frames
<1>1. /\ UNCHANGED <<pos, depth, at, queued, job_done, tpc, tp, tjob>>
      /\ deq' = [deq EXCEPT ![s] = NoJob]
      /\ frame' = [frame EXCEPT ![depth] = "right"]
  BY DEF PopClear, GoOnTo, thief
<1>2. DequeTypeOK'
  BY OwnerType DEF ParallelDo, PopBottom
<1>3. \A t \in Thieves :
        /\ TopSlot(t)' = TopSlot(t)
        /\ tpc[t] \in {"read", "clear"} => TopSlot(t) \in Slots /\ TopSlot(t) # s
  <2> TAKE t \in Thieves
  <2>1. TopSlot(t)' = TopSlot(t) /\ TopSlot(t) \in Slots
    BY <1>1, PhysicType DEF TopSlot, DequeTypeOK, PosType
  <2>2. tpc[t] \in {"read", "clear"} => deq[TopSlot(t)] # depth
    BY <1>0 DEF ClaimsInv
  <2> QED BY <1>0, <2>1, <2>2
<1>4. \A t \in Thieves : Claim(t)' = Claim(t)
  BY <1>0, <1>1, <1>3 DEF Claim
<1>5. \A d \in Frames :
        /\ Unclaimed(d)' <=> Unclaimed(d)
        /\ Open(d)' <=> Open(d)
        /\ Offset(d)' = Offset(d)
        /\ Unclaimed(d) => d # depth
  BY <1>0, <1>1, <1>4 DEF Unclaimed, Open, Offset
<1>6. CountersInv'
  BY <1>1 DEF CountersInv, Raw
<1>7. StackInv'
  BY <1>0, <1>1 DEF StackInv
<1>8. PushInv'
  BY <1>0, <1>1 DEF PushInv
<1>9. PopInv'
  BY <1>0, <1>1 DEF PopInv
<1>10. WindowInv'
  <2>1. \A d \in Frames : Unclaimed(d) => deq'[Physic(at[d])] = d
    BY <1>0, <1>1, <1>5, PhysicType DEF WindowInv
  <2>2. Raw(pos)' = Raw(pos)
    BY <1>1 DEF Raw
  <2> QED BY <1>1, <1>5, <2>1, <2>2 DEF WindowInv
<1>11. ClaimsInv'
  BY <1>0, <1>1, <1>3, <1>4 DEF ClaimsInv
<1>12. WaitersAreServed'
  BY <1>0, <1>1, <1>4 DEF WaitersAreServed, Frames
<1> QED BY <1>2, <1>6, <1>7, <1>8, <1>9, <1>10, <1>11, <1>12

(* parallel_do returns: its job has been popped, refused or finished. *)
LEMMA ReturnInv ==
  ASSUME DequeInvariant, ReturnFromDo
  PROVE  DequeInvariant'
<1> USE DEF DequeInvariant
<1>0. /\ depth \in Frames /\ frame \in [Frames -> FramePhases]
      /\ queued \subseteq Frames /\ frame[depth] = "return"
      /\ at \in [Frames -> Counter] /\ MaxDepth \in Nat /\ depth \in Int
      /\ \A t \in Thieves : Claim(t) # depth
  <2>1. /\ depth \in Frames /\ MaxDepth \in Nat /\ frame[depth] = "return"
    BY DequeAssumption DEF DequeTypeOK, ReturnFromDo, Frames
  <2>2. \A t \in Thieves : Claim(t) # depth
    BY <2>1, UnclaimingThief DEF ClaimsInv
  <2> QED BY <2>1, <2>2 DEF DequeTypeOK, Frames
<1>1. /\ UNCHANGED <<pos, deq, op, tpc, tp, tjob>>
      /\ depth' = depth - 1
      /\ queued' = queued \ {depth}
      /\ job_done' = job_done \ {depth}
      /\ at' = [at EXCEPT ![depth] = 0]
      /\ frame' = [frame EXCEPT ![depth] = "none"]
  BY DEF ReturnFromDo, GoOnTo, thief
<1>2. DequeTypeOK'
  BY OwnerType DEF ParallelDo
<1>3. \A t \in Thieves : Claim(t)' = Claim(t) /\ TopSlot(t)' = TopSlot(t)
  BY <1>1 DEF Claim, TopSlot
<1>4. \A d \in Frames :
        /\ Unclaimed(d)' <=> Unclaimed(d)
        /\ Open(d)' <=> Open(d)
        /\ d # depth => Offset(d)' = Offset(d) /\ at'[d] = at[d]
        /\ Unclaimed(d) => d # depth
  BY <1>0, <1>1, <1>3 DEF Unclaimed, Open, Offset
<1>5. CountersInv'
  BY <1>1 DEF CountersInv, Raw
<1>6. StackInv'
  BY <1>0, <1>1 DEF StackInv, Frames
<1>7. depth > 1 => frame'[depth - 1] \in {"left", "right", "wait"}
  BY <1>0, <1>1 DEF StackInv, Frames
<1>8. PushInv' /\ PopInv'
  BY <1>0, <1>1, <1>7 DEF PushInv, PopInv, Frames
<1>9. WindowInv'
  <2>1. Raw(pos)' = Raw(pos)
    BY <1>1 DEF Raw
  <2> QED BY <1>1, <1>4, <2>1 DEF WindowInv
<1>10. ClaimsInv'
  BY <1>0, <1>1, <1>3 DEF ClaimsInv
<1>11. WaitersAreServed'
  BY <1>0, <1>1, <1>3 DEF WaitersAreServed, Frames
<1> QED BY <1>2, <1>5, <1>6, <1>8, <1>9, <1>10, <1>11

-----------------------------------------------------------------------------
(***************************************************************************)
(* A thief that wins its compare_exchange claims the oldest unclaimed job; *)
(* equality of the whole word rules out that the window moved meanwhile,   *)
(* and if the counters came back to the same values it is the same window. *)
(***************************************************************************)
LEMMA TopLoadInv ==
  ASSUME DequeInvariant, NEW t \in Thieves, TopLoad(t)
  PROVE  DequeInvariant'
<1> USE DEF DequeInvariant
<1>1. /\ UNCHANGED <<pos, deq, depth, frame, queued, job_done, op, at, tjob>>
      /\ tp' = [tp EXCEPT ![t] = pos]
      /\ tpc' = [tpc EXCEPT ![t] = "cas"]
      /\ tpc[t] = "idle" /\ length(pos) > 1
  BY DEF TopLoad, owner
<1>2. DequeTypeOK'
  BY ThiefType DEF PopTop
<1>3. tp \in [Thieves -> PosType] /\ tpc \in [Thieves -> ThiefPhases]
  BY DEF DequeTypeOK
<1>4. \A u \in Thieves : Claim(u)' = Claim(u) /\ (u # t => TopSlot(u)' = TopSlot(u))
  BY <1>1, <1>3 DEF Claim, TopSlot
<1>5. \A d \in Frames : /\ Unclaimed(d)' <=> Unclaimed(d)
                        /\ Open(d)' <=> Open(d)
                        /\ Offset(d)' = Offset(d)
  BY <1>1, <1>4 DEF Unclaimed, Open, Offset
<1>6. CountersInv'
  <2>1. Raw(pos) >= 2 /\ Raw(pos) < Capacity
    BY <1>1, LengthIsRaw DEF CountersInv, DequeTypeOK, Counter
  <2> QED BY <1>1, <1>3, <2>1 DEF CountersInv, Raw
<1>7. StackInv' /\ PushInv' /\ PopInv'
  BY <1>1, <1>4 DEF StackInv, PushInv, PopInv, Raw, Target, length
<1>8. WindowInv'
  BY <1>1, <1>5 DEF WindowInv, Raw
<1>9. ClaimsInv'
  BY <1>1, <1>3, <1>4 DEF ClaimsInv
<1>10. WaitersAreServed'
  BY <1>1, <1>4 DEF WaitersAreServed
<1> QED BY <1>2, <1>6, <1>7, <1>8, <1>9, <1>10

LEMMA TopCasInv ==
  ASSUME DequeInvariant, NEW t \in Thieves, TopCas(t)
  PROVE  DequeInvariant'
<1> USE DEF DequeInvariant
<1>0. /\ tp \in [Thieves -> PosType] /\ tpc \in [Thieves -> ThiefPhases]
      /\ tpc[t] = "cas" /\ pos \in PosType /\ pos.head \in Counter /\ pos.tail \in Counter
      /\ at \in [Frames -> Counter] /\ Raw(pos) \in Counter
      /\ Modulus \in Nat /\ Modulus >= 3 /\ Capacity \in Nat
      /\ UNCHANGED <<deq, depth, frame, queued, job_done, op, at, tjob>>
  BY LengthIsRaw, DequeAssumption DEF DequeTypeOK, PosType, TopCas, owner
<1>1. DequeTypeOK'
  BY ThiefType DEF PopTop
<1>2. CASE pos # tp[t]
  <2>1. /\ pos' = pos
        /\ tpc' = [tpc EXCEPT ![t] = "idle"]
        /\ tp' = [tp EXCEPT ![t] = Unread]
    BY <1>2 DEF TopCas
  <2>2. \A u \in Thieves : Claim(u)' = Claim(u) /\ (u # t => TopSlot(u)' = TopSlot(u))
    BY <1>0, <2>1 DEF Claim, TopSlot
  <2>3. \A d \in Frames : /\ Unclaimed(d)' <=> Unclaimed(d)
                          /\ Open(d)' <=> Open(d)
                          /\ Offset(d)' = Offset(d)
    BY <1>0, <2>1, <2>2 DEF Unclaimed, Open, Offset
  <2>4. CountersInv'
    BY <1>0, <2>1 DEF CountersInv, Raw
  <2>5. StackInv' /\ PushInv' /\ PopInv'
    BY <1>0, <2>1, <2>2 DEF StackInv, PushInv, PopInv, Raw, Target, length
  <2>6. WindowInv'
    BY <1>0, <2>1, <2>3 DEF WindowInv, Raw
  <2>7. ClaimsInv'
    BY <1>0, <2>1, <2>2 DEF ClaimsInv
  <2>8. WaitersAreServed'
    BY <1>0, <2>2 DEF WaitersAreServed
  <2> QED BY <1>1, <2>4, <2>5, <2>6, <2>7, <2>8
<1>3. CASE pos = tp[t]
  <2>1. /\ pos' = [pos EXCEPT !.head = Wrap(@ + 1)]
        /\ tpc' = [tpc EXCEPT ![t] = "read"]
        /\ tp' = tp
        /\ Raw(pos) >= 2
        /\ Raw(pos)' = Raw(pos) - 1
    BY <1>0, <1>3, Distances DEF TopCas, CountersInv, Raw, PosType
  <2>2. PICK j \in Frames : Unclaimed(j) /\ Offset(j) = 0
    BY <1>0, <2>1 DEF WindowInv, Counter
  <2>3. at[j] = pos.head /\ deq[TopSlot(t)] = j
    BY <1>0, <1>3, <2>2, Distances DEF WindowInv, Offset, TopSlot
  <2>4. \A u \in Thieves :
          /\ TopSlot(u)' = TopSlot(u)
          /\ Claim(u)' = IF u = t THEN j ELSE Claim(u)
          /\ Claim(u) # j
    BY <1>0, <2>1, <2>2, <2>3 DEF Claim, TopSlot, Unclaimed
  <2>5. \A d \in Frames : /\ Unclaimed(d)' <=> Unclaimed(d) /\ d # j
                          /\ Open(d)' <=> Open(d)
    <3>1. \A d \in Frames : Claim(t) # d
      BY <1>0, UnclaimingThief
    <3>2. \A d \in Frames :
            (\E u \in Thieves : Claim(u)' = d) <=> d = j \/ \E u \in Thieves : Claim(u) = d
      BY <2>4, <3>1
    <3> QED BY <1>0, <2>2, <3>2 DEF Unclaimed, Open
  <2>6. \A d \in Frames : Unclaimed(d) /\ d # j =>
          /\ Offset(d) \in Counter /\ Offset(d) # 0
          /\ Offset(d)' = Offset(d) - 1
          /\ j < d
    <3> TAKE d \in Frames
    <3> HAVE Unclaimed(d) /\ d # j
    <3>1. Offset(d) \in Counter /\ j \in Int /\ d \in Int /\ at[d] \in Counter
      BY <1>0, OffsetType DEF Frames
    <3>2. (d < j => Offset(d) < 0) /\ (j < d => 0 < Offset(d))
      BY <2>2, <3>1 DEF WindowInv
    <3>3. j < d /\ Offset(d) # 0
      BY <3>1, <3>2 DEF Counter
    <3>4. Offset(d)' = Offset(d) - 1
      BY <1>0, <2>1, <3>1, <3>3, Distances DEF Offset, PosType
    <3> QED BY <3>1, <3>3, <3>4
  <2>7. CountersInv'
    <3>1. \A u \in Thieves : Raw(tp[u])' = Raw(tp[u])
      BY <2>1 DEF Raw
    <3> QED BY <1>0, <2>1, <3>1 DEF CountersInv, Counter
  <2>8. StackInv'
    BY <1>0 DEF StackInv
  <2>9. PushInv'
    <3>1. Raw(op)' = Raw(op) /\ Target(op)' = Target(op) /\ pos'.tail = pos.tail
      BY <1>0, <2>1 DEF Raw, Target, length, PosType
    <3>2. depth > 0 /\ frame[depth] \in {"store", "publish"} => Raw(op) # 0
      BY <1>0, <2>1 DEF PushInv
    <3>3. Raw(op) \in Counter
      BY LengthIsRaw DEF DequeTypeOK
    <3> QED BY <1>0, <2>1, <3>1, <3>2, <3>3 DEF PushInv, Counter
  <2>10. PopInv'
    <3>1. depth > 0 /\ frame[depth] = "clear" => depth # j
      BY <2>2 DEF Unclaimed
    <3> QED BY <1>0, <2>1, <2>4, <3>1 DEF PopInv, Counter
  <2>11. WindowInv'
    <3>1. \A d \in Frames : Unclaimed(d)' =>
            deq'[Physic(at'[d])] = d /\ Offset(d)' + 2 <= Raw(pos)'
      BY <1>0, <2>1, <2>5, <2>6 DEF WindowInv, Counter
    <3>2. \A k \in Counter : k + 2 <= Raw(pos)' => \E d \in Frames : Unclaimed(d)' /\ Offset(d)' = k
      <4> TAKE k \in Counter
      <4> HAVE k + 2 <= Raw(pos)'
      <4>1. (k + 1) \in Counter /\ (k + 1) + 2 <= Raw(pos)
        BY <1>0, <2>1 DEF Counter
      <4>2. PICK d \in Frames : Unclaimed(d) /\ Offset(d) = k + 1
        BY <4>1 DEF WindowInv
      <4>3. d # j
        BY <2>2, <4>2 DEF Counter
      <4> QED BY <2>5, <2>6, <4>2, <4>3 DEF Counter
    <3>3. \A d, e \in Frames : d < e /\ Unclaimed(d)' /\ Unclaimed(e)' => Offset(d)' < Offset(e)'
      BY <2>5, <2>6 DEF WindowInv, Counter
    <3>4. \A d, e \in Frames : d < e /\ Unclaimed(d)' /\ Open(e)' => Unclaimed(e)'
      BY <2>5, <2>6 DEF WindowInv, Frames
    <3> QED BY <3>1, <3>2, <3>3, <3>4 DEF WindowInv
  <2>12. ClaimsInv'
    <3>1. j \in queued \ job_done /\ frame[j] \in {"left", "join", "sub"}
      BY <2>2 DEF Unclaimed
    <3> QED BY <1>0, <2>1, <2>3, <2>4, <3>1 DEF ClaimsInv
  <2>13. WaitersAreServed'
    <3>1. \A d \in 1..depth : Claim(t) # d
      <4>1. 1..depth \subseteq Frames
        BY DequeAssumption DEF DequeTypeOK, Frames
      <4>2. \A d \in Frames : Claim(t) # d
        BY <1>0, UnclaimingThief
      <4> QED BY <4>1, <4>2
    <3> QED BY <1>0, <2>4, <3>1 DEF WaitersAreServed
  <2> QED BY <1>1, <2>7, <2>8, <2>9, <2>10, <2>11, <2>12, <2>13
<1> QED BY <1>2, <1>3

LEMMA TopReadInv ==
  ASSUME DequeInvariant, NEW t \in Thieves, TopRead(t)
  PROVE  DequeInvariant'
<1> USE DEF DequeInvariant
<1>0. /\ tpc \in [Thieves -> ThiefPhases] /\ tjob \in [Thieves -> 0..MaxDepth]
      /\ tpc[t] = "read"
      /\ UNCHANGED <<pos, deq, depth, frame, queued, job_done, op, at, tp>>
      /\ tpc' = [tpc EXCEPT ![t] = "clear"]
      /\ tjob' = [tjob EXCEPT ![t] = deq[TopSlot(t)]]
  BY DEF DequeTypeOK, TopRead, owner
<1>1. DequeTypeOK'
  BY ThiefType DEF PopTop
<1>2. \A u \in Thieves : Claim(u)' = Claim(u) /\ TopSlot(u)' = TopSlot(u)
  BY <1>0 DEF Claim, TopSlot
<1>3. CountersInv'
  BY <1>0 DEF CountersInv, Raw
<1>4. StackInv' /\ PushInv' /\ PopInv'
  BY <1>0, <1>2 DEF StackInv, PushInv, PopInv, Raw, Target, length
<1>5. WindowInv'
  BY <1>0, <1>2 DEF WindowInv, Unclaimed, Open, Offset, Raw
<1>6. ClaimsInv'
  BY <1>0, <1>2 DEF ClaimsInv
<1>7. WaitersAreServed'
  BY <1>0, <1>2 DEF WaitersAreServed
<1> QED BY <1>1, <1>3, <1>4, <1>5, <1>6, <1>7

(* pop_top empties the slot of its own job and of no other. *)
LEMMA TopClearInv ==
  ASSUME DequeInvariant, NEW t \in Thieves, TopClear(t)
  PROVE  DequeInvariant'
<1> USE DEF DequeInvariant
<1> DEFINE s == TopSlot(t)
<1>0. /\ tpc \in [Thieves -> ThiefPhases] /\ tp \in [Thieves -> PosType]
      /\ deq \in [Slots -> 0..MaxDepth] /\ at \in [Frames -> Counter]
      /\ tpc[t] = "clear" /\ Claim(t) = tjob[t]
      /\ Claim(t) \in queued /\ queued \subseteq Frames /\ deq[s] = Claim(t)
      /\ Claim(t) # NoJob
  BY DequeAssumption DEF DequeTypeOK, TopClear, ClaimsInv, Claim, Frames, NoJob
<1>1. /\ UNCHANGED <<pos, depth, frame, queued, job_done, op, at, tjob>>
      /\ deq' = [deq EXCEPT ![s] = NoJob]
      /\ tp' = [tp EXCEPT ![t] = Unread]
      /\ tpc' = [tpc EXCEPT ![t] = "run"]
  BY <1>0 DEF TopClear, owner
<1>2. DequeTypeOK'
  BY ThiefType DEF PopTop
<1>3. \A u \in Thieves \ {t} :
        /\ TopSlot(u)' = TopSlot(u)
        /\ tpc[u] \in {"read", "clear"} => TopSlot(u) \in Slots /\ TopSlot(u) # s
  <2> TAKE u \in Thieves \ {t}
  <2>1. TopSlot(u)' = TopSlot(u) /\ TopSlot(u) \in Slots
    BY <1>0, <1>1, PhysicType DEF TopSlot, PosType
  <2>2. tpc[u] \in {"read", "clear"} => deq[TopSlot(u)] # Claim(t)
    BY <1>0 DEF ClaimsInv
  <2> QED BY <1>0, <2>1, <2>2
<1>4. \A u \in Thieves : Claim(u)' = Claim(u)
  BY <1>0, <1>1, <1>3 DEF Claim
<1>5. \A d \in Frames : /\ Unclaimed(d)' <=> Unclaimed(d)
                        /\ Open(d)' <=> Open(d)
                        /\ Offset(d)' = Offset(d)
                        /\ Unclaimed(d) => d # Claim(t)
  BY <1>1, <1>4 DEF Unclaimed, Open, Offset
<1>6. CountersInv'
  BY <1>0, <1>1 DEF CountersInv, Raw
<1>7. StackInv'
  BY <1>1 DEF StackInv
<1>8. PushInv'
  <2> SUFFICES ASSUME depth > 0, frame[depth] = "publish"
               PROVE  deq'[Physic(Target(op))] = depth
    BY <1>1 DEF PushInv, Raw, Target, length
  <2>1. deq[Physic(Target(op))] = depth /\ depth \notin queued
    BY DEF PushInv, StackInv
  <2>2. Physic(Target(op)) \in Slots
    BY TargetType, PhysicType DEF DequeTypeOK
  <2> QED BY <1>0, <1>1, <2>1, <2>2
<1>9. PopInv'
  <2> SUFFICES ASSUME depth > 0, frame[depth] = "clear"
               PROVE  deq'[Physic(Wrap(op.tail - 2))] = depth
    BY <1>1, <1>4 DEF PopInv, Raw
  <2>1. deq[Physic(Wrap(op.tail - 2))] = depth /\ depth # Claim(t)
    BY DEF PopInv
  <2>2. Physic(Wrap(op.tail - 2)) \in Slots
    BY Distances, PhysicType DEF DequeTypeOK, PosType
  <2> QED BY <1>0, <1>1, <2>1, <2>2
<1>10. WindowInv'
  <2>1. \A d \in Frames : Unclaimed(d) => deq'[Physic(at[d])] = d
    BY <1>0, <1>1, <1>5, PhysicType DEF WindowInv
  <2>2. Raw(pos)' = Raw(pos)
    BY <1>1 DEF Raw
  <2> QED BY <1>1, <1>5, <2>1, <2>2 DEF WindowInv
<1>11. ClaimsInv'
  BY <1>0, <1>1, <1>3, <1>4 DEF ClaimsInv
<1>12. WaitersAreServed'
  BY <1>1, <1>4 DEF WaitersAreServed
<1> QED BY <1>2, <1>6, <1>7, <1>8, <1>9, <1>10, <1>11, <1>12

LEMMA ExecuteInv ==
  ASSUME DequeInvariant, NEW t \in Thieves, Execute(t)
  PROVE  DequeInvariant'
<1> USE DEF DequeInvariant
<1>0. /\ tpc \in [Thieves -> ThiefPhases] /\ tjob \in [Thieves -> 0..MaxDepth]
      /\ tpc[t] = "run" /\ Claim(t) = tjob[t]
      /\ Claim(t) \in queued /\ queued \subseteq Frames
      /\ frame[Claim(t)] \in {"left", "join", "sub", "wait"}
      /\ \A u \in Thieves \ {t} : Claim(u) # Claim(t)
      /\ UNCHANGED <<pos, deq, depth, frame, queued, op, at, tp>>
      /\ job_done' = job_done \cup {Claim(t)}
      /\ tpc' = [tpc EXCEPT ![t] = "idle"]
      /\ tjob' = [tjob EXCEPT ![t] = NoJob]
  BY DEF DequeTypeOK, Execute, ClaimsInv, Claim
<1>1. DequeTypeOK'
  BY ThiefType
<1>2. \A u \in Thieves : /\ TopSlot(u)' = TopSlot(u)
                         /\ Claim(u)' = IF u = t THEN NoJob ELSE Claim(u)
  BY <1>0 DEF Claim, TopSlot
<1>3. \A d \in Frames : /\ Unclaimed(d)' <=> Unclaimed(d)
                        /\ Open(d)' <=> Open(d)
                        /\ Offset(d)' = Offset(d)
  <2>1. \A d \in Frames : d # NoJob
    BY DequeAssumption DEF Frames, NoJob
  <2> QED BY <1>0, <1>2, <2>1 DEF Unclaimed, Open, Offset
<1>4. CountersInv'
  BY <1>0 DEF CountersInv, Raw
<1>5. StackInv'
  BY <1>0 DEF StackInv
<1>6. PushInv'
  BY <1>0 DEF PushInv, Raw, Target, length
<1>7. PopInv'
  <2>1. depth > 0 /\ frame[depth] = "clear" => depth # Claim(t) /\ depth # NoJob
    BY <1>0 DEF NoJob
  <2> QED BY <1>0, <1>2, <2>1 DEF PopInv, Raw
<1>8. WindowInv'
  BY <1>0, <1>3 DEF WindowInv, Raw
<1>9. ClaimsInv'
  BY <1>0, <1>2, DequeAssumption DEF ClaimsInv, NoJob, Frames
<1>10. WaitersAreServed'
  BY <1>0, <1>2 DEF WaitersAreServed
<1> QED BY <1>1, <1>4, <1>5, <1>6, <1>7, <1>8, <1>9, <1>10

-----------------------------------------------------------------------------
LEMMA InitInv == DequeInit => DequeInvariant
<1> SUFFICES ASSUME DequeInit PROVE DequeInvariant
  OBVIOUS
<1>1. DequeTypeOK
  BY InitType
<1>2. pos = Unread /\ Raw(pos) = 0 /\ pos.head \in Counter
  <2>1. 0 \in Counter
    BY DequeAssumption DEF Counter
  <2>2. Wrap(0 - 0) = 0
    BY <2>1, Distances
  <2> QED BY <2>1, <2>2 DEF DequeInit, Unread, Raw
<1>3. CountersInv /\ StackInv /\ PushInv /\ PopInv /\ ClaimsInv /\ WaitersAreServed
  BY <1>2, DequeAssumption
     DEF DequeInit, CountersInv, StackInv, PushInv, PopInv, ClaimsInv, WaitersAreServed, Frames
<1>4. WindowInv
  BY <1>2, DequeAssumption DEF DequeInit, WindowInv, Unclaimed, Open, Counter
<1> QED BY <1>1, <1>3, <1>4 DEF DequeInvariant

LEMMA NextInv == DequeInvariant /\ [DequeNext]_deque_vars => DequeInvariant'
<1> SUFFICES ASSUME DequeInvariant, [DequeNext]_deque_vars PROVE DequeInvariant'
  OBVIOUS
<1>1. CASE LocalStep
  BY <1>1, LocalStepInv
<1>2. CASE PushStore
  BY <1>2, PushStoreInv
<1>3. CASE PushPublish
  BY <1>3, PushPublishInv
<1>4. CASE PopSub
  BY <1>4, PopSubInv
<1>5. CASE PopClear
  BY <1>5, PopClearInv
<1>6. CASE ReturnFromDo
  BY <1>6, ReturnInv
<1>7. ASSUME NEW t \in Thieves, PopTop(t) PROVE DequeInvariant'
  BY <1>7, TopLoadInv, TopCasInv, TopReadInv, TopClearInv DEF PopTop
<1>8. ASSUME NEW t \in Thieves, Execute(t) PROVE DequeInvariant'
  BY <1>8, ExecuteInv
<1>9. CASE UNCHANGED deque_vars
  BY <1>9 DEF deque_vars, DequeInvariant, DequeTypeOK, CountersInv, StackInv, PushInv,
     PopInv, WindowInv, ClaimsInv, WaitersAreServed, Raw, Target, length,
     Unclaimed, Open, Offset, Claim, TopSlot
<1> QED
  BY <1>1, <1>2, <1>3, <1>4, <1>5, <1>6, <1>7, <1>8, <1>9
     DEF DequeNext, ParallelDo, PushBottom, PopBottom, LocalStep

(***************************************************************************)
(* The inductive invariant holds in every state of the deque, for every    *)
(* number of slots and counter width, nesting depth and set of thieves.    *)
(***************************************************************************)
THEOREM DequeIsRight == DequeSpec => []DequeInvariant
BY InitInv, NextInv, PTL DEF DequeSpec

(* Type correctness, which needs the claims: a thief runs no null job. *)
THEOREM DequeTypesAreRight == DequeSpec => []DequeTypeOK
<1>1. DequeInvariant => DequeTypeOK
  BY DEF DequeInvariant
<1> QED BY <1>1, DequeIsRight, PTL

(* A successful pop_top gives the thief a live job no one else has or had. *)
THEOREM StealsAreRight == DequeSpec => []StealsAreExclusive
<1>1. DequeInvariant => StealsAreExclusive
  <2> SUFFICES ASSUME DequeInvariant, NEW t \in Thieves, tpc[t] \in {"read", "clear", "run"}
               PROVE  /\ Claim(t) \in 1..depth
                      /\ frame[Claim(t)] \in {"left", "join", "sub", "wait"}
                      /\ Claim(t) \notin job_done
                      /\ \A u \in Thieves \ {t} : Claim(u) # Claim(t)
    BY DEF StealsAreExclusive
  <2>1. Claim(t) \in Frames /\ Claim(t) \in queued
    BY DEF DequeInvariant, ClaimsInv, DequeTypeOK
  <2>2. Claim(t) \in 1..depth
    BY <2>1, DequeAssumption DEF DequeInvariant, StackInv, DequeTypeOK, Frames
  <2> QED BY <2>2 DEF DequeInvariant, ClaimsInv
<1> QED BY <1>1, DequeIsRight, PTL

(* An owner that waits for its job waits for a thief that has it. *)
THEOREM WaitersAreRight == DequeSpec => []WaitersAreServed
<1>1. DequeInvariant => WaitersAreServed
  BY DEF DequeInvariant
<1> QED BY <1>1, DequeIsRight, PTL

(* A queued job stays in its slot, in order, until claimed or popped. *)
THEOREM JobsAreHeld == DequeSpec => []QueuedJobsAreHeld
<1>1. DequeInvariant => QueuedJobsAreHeld
  <2> SUFFICES ASSUME DequeInvariant PROVE QueuedJobsAreHeld
    OBVIOUS
  <2>1. 1..depth \subseteq Frames
    BY DequeAssumption DEF DequeInvariant, DequeTypeOK, Frames
  <2>2. Raw(pos) \in Counter /\ length(pos) = Raw(pos)
    BY LengthIsRaw DEF DequeInvariant, DequeTypeOK, CountersInv
  <2>3. \A d \in Frames : Unclaimed(d) => deq[Physic(at[d])] = d /\ Offset(d) < length(pos) - 1
    <3> TAKE d \in Frames
    <3> HAVE Unclaimed(d)
    <3>1. Offset(d) \in Counter
      BY OffsetType DEF DequeInvariant
    <3> QED BY <2>2, <3>1 DEF DequeInvariant, WindowInv, Counter
  <2> QED BY <2>1, <2>3 DEF QueuedJobsAreHeld, DequeInvariant, WindowInv
<1> QED BY <1>1, DequeIsRight, PTL

-----------------------------------------------------------------------------
(* The owner runs a right-hand function only where no thief has run it. *)

LEMMA RightStep ==
  ASSUME DequeInvariant, RightInv, DequeNext
  PROVE  RightInv'
<1> USE DEF DequeInvariant
<1>0. /\ frame \in [Frames -> FramePhases] /\ queued \subseteq Frames
      /\ job_done \subseteq queued /\ job_done \subseteq Frames
      /\ depth > 0 => depth \in Frames
  BY DequeAssumption DEF DequeTypeOK, StackInv, Frames
<1>1. CASE Fork
  <2>1. \A d \in Frames : d # depth + 1 => frame'[d] = frame[d]
    BY <1>0, <1>1 DEF Fork
  <2>2. job_done' = job_done /\ depth + 1 \notin job_done /\ depth + 1 \in Frames
    BY <1>0, <1>1, DequeAssumption DEF Fork, StackInv, DequeTypeOK, Frames
  <2>3. frame'[depth + 1] = "load"
    BY <1>0, <1>1, <2>2 DEF Fork
  <2> QED BY <1>0, <2>1, <2>2, <2>3 DEF RightInv
<1>2. CASE PushBottom
  BY <1>0, <1>2
     DEF PushBottom, PushLoad, PushRefused, PushStore, PushPublish, GoOnTo,
         RightInv, StackInv
<1>3. CASE LeftReturns
  BY <1>0, <1>3 DEF LeftReturns, GoOnTo, RightInv
<1>4. CASE PopLoad \/ PopSub
  <2>1. /\ job_done' = job_done /\ depth \in Frames
        /\ frame[depth] \in {"join", "sub"}
        /\ \A d \in Frames : d # depth => frame'[d] = frame[d]
    BY <1>0, <1>4 DEF PopLoad, PopSub, GoOnTo
  <2>2. CASE PopLoad
    BY <1>0, <2>1, <2>2 DEF PopLoad, GoOnTo, RightInv
  <2>3. CASE PopSub
    <3>1. frame'[depth] = "wait" \/ (frame'[depth] = "clear" /\ depth \notin job_done)
      <4>1. PopInv'
        BY <2>3, PopSubInv
      <4>2. frame'[depth] \in {"wait", "clear"} /\ depth' = depth /\ depth > 0
        BY <1>0, <2>3 DEF PopSub, GoOnTo
      <4> QED BY <2>1, <4>1, <4>2 DEF PopInv
    <3> QED BY <1>0, <2>1, <3>1 DEF RightInv
  <2> QED BY <1>4, <2>2, <2>3
<1>5. CASE PopClear
  BY <1>0, <1>5 DEF PopClear, GoOnTo, RightInv, PopInv
<1>6. CASE RightReturns
  BY <1>0, <1>6 DEF RightReturns, GoOnTo, RightInv
<1>7. CASE WaitDone \/ ReturnFromDo
  BY <1>0, <1>7 DEF WaitDone, ReturnFromDo, GoOnTo, RightInv
<1>8. ASSUME NEW t \in Thieves, PopTop(t) PROVE RightInv'
  BY <1>8 DEF PopTop, TopLoad, TopCas, TopRead, TopClear, owner, RightInv
<1>9. ASSUME NEW t \in Thieves, Execute(t) PROVE RightInv'
  BY <1>9 DEF Execute, RightInv, ClaimsInv, Claim
<1> QED BY <1>1, <1>2, <1>3, <1>4, <1>5, <1>6, <1>7, <1>8, <1>9
           DEF DequeNext, ParallelDo, PopBottom

-----------------------------------------------------------------------------
(***************************************************************************)
(* Every step of the deque is a step of ForkJoin or changes nothing there. *)
(***************************************************************************)
Phase   == [d \in Frames |-> PhaseOf(d)]
Runners == [d \in Frames |-> RunnersOf(d)]

(* A step that keeps the phase and runners of all calls is a stutter. *)
LEMMA SamePhases ==
  ASSUME depth' = depth,
         \A d \in Frames : PhaseOf(d)' = PhaseOf(d) /\ RunnersOf(d)' = RunnersOf(d)
  PROVE  UNCHANGED FJ!vars
BY DEF FJ!vars

(* Only an unfinished job that its call has left to a thief has a runner. *)
LEMMA RunnersFacts ==
  ASSUME DequeInvariant, NEW d \in Frames
  PROVE  /\ frame[d] \in {"none", "load", "store", "publish", "clear", "return"}
              => RunnersOf(d) = {}
         /\ frame[d] = "right" => RunnersOf(d) = {Owner}
         /\ d \in job_done /\ frame[d] # "right" => RunnersOf(d) = {}
         /\ d \notin queued /\ frame[d] # "right" => RunnersOf(d) = {}
<1>1. \A t \in Thieves : tpc[t] = "run" /\ tjob[t] = d =>
        /\ d \in queued \ job_done
        /\ frame[d] \in {"left", "join", "sub", "wait"}
  BY DEF DequeInvariant, ClaimsInv, Claim
<1> QED BY <1>1 DEF RunnersOf

LEMMA PhaseOfDone ==
  ASSUME DequeInvariant, RightInv, NEW d \in job_done
  PROVE  PhaseOf(d) = "done" /\ RunnersOf(d) = {}
BY RunnersFacts DEF RightInv, PhaseOf, DequeInvariant, DequeTypeOK

(* Moving the innermost call between phases that look alike is a stutter. *)
LEMMA OwnerStutter ==
  ASSUME DequeInvariant, depth \in Frames, NEW f, GoOnTo(f), depth' = depth,
         UNCHANGED <<job_done, tpc, tjob>>,
         frame[depth] \notin {"none", "right", "return"},
         f \notin {"none", "right", "return"}
  PROVE  UNCHANGED FJ!vars
<1>0. frame \in [Frames -> FramePhases]
  BY DEF DequeInvariant, DequeTypeOK
<1>1. ASSUME NEW d \in Frames
      PROVE  PhaseOf(d)' = PhaseOf(d) /\ RunnersOf(d)' = RunnersOf(d)
  <2>1. RunnersOf(d)' = RunnersOf(d)
    BY <1>0, <1>1 DEF RunnersOf, GoOnTo
  <2> QED BY <1>0, <1>1, <2>1 DEF PhaseOf, GoOnTo
<1> QED BY <1>1, SamePhases

LEMMA RefineFork ==
  ASSUME DequeInvariant, Fork
  PROVE  FJ!Fork
<1> DEFINE n == depth + 1
<1>0. /\ n \in Frames /\ frame \in [Frames -> FramePhases] /\ depth < MaxDepth
      /\ n \notin queued /\ n \notin job_done
  BY DequeAssumption DEF Fork, DequeInvariant, DequeTypeOK, StackInv, Frames
<1>1. /\ depth' = n /\ UNCHANGED <<job_done, tpc, tjob>>
      /\ frame' = [frame EXCEPT ![n] = "load"]
  BY DEF Fork, thief
<1>2. RunnersOf(n) = {}
  <2>1. frame[n] = "none"
    BY <1>0, DequeAssumption DEF DequeInvariant, StackInv, DequeTypeOK
  <2> QED BY <1>0, <2>1, RunnersFacts
<1>3. \A d \in Frames : RunnersOf(d)' = RunnersOf(d)
  <2>1. frame[n] # "right" /\ frame'[n] # "right"
    BY <1>0, <1>1 DEF DequeInvariant, StackInv, DequeTypeOK
  <2> QED BY <1>0, <1>1, <2>1 DEF RunnersOf
<1>4. \A d \in Frames : PhaseOf(d)' = IF d = n THEN "forked" ELSE PhaseOf(d)
  BY <1>0, <1>1, <1>2, <1>3 DEF PhaseOf
<1> QED BY <1>0, <1>1, <1>3, <1>4 DEF FJ!Fork, FJ!Frames, Frames

(* The owner enters the right-hand function of its innermost call. *)
LEMMA RefineOwnerStart ==
  ASSUME DequeInvariant, depth \in Frames, GoOnTo("right"), depth' = depth,
         UNCHANGED <<job_done, tpc, tjob>>, depth \notin job_done,
         frame[depth] = "clear" \/ (frame[depth] = "left" /\ depth \notin queued)
  PROVE  FJ!Start(depth, Owner)
<1>0. frame \in [Frames -> FramePhases] /\ frame' = [frame EXCEPT ![depth] = "right"]
  BY DEF DequeInvariant, DequeTypeOK, GoOnTo
<1>1. RunnersOf(depth) = {} /\ frame[depth] # "right" /\ frame[depth] # "none"
  BY RunnersFacts
<1>2. \A d \in Frames : RunnersOf(d)' = IF d = depth THEN {Owner} ELSE RunnersOf(d)
  BY <1>0, <1>1 DEF RunnersOf
<1>3. \A d \in Frames : PhaseOf(d)' = IF d = depth THEN "running" ELSE PhaseOf(d)
  BY <1>0, <1>2 DEF PhaseOf
<1>4. PhaseOf(depth) = "forked"
  BY <1>1 DEF PhaseOf
<1> QED BY <1>2, <1>3, <1>4 DEF FJ!Start

LEMMA RefineRightReturns ==
  ASSUME DequeInvariant, RightInv, RightReturns
  PROVE  FJ!Finish(depth)
<1>0. /\ frame \in [Frames -> FramePhases] /\ depth \in Frames
      /\ frame' = [frame EXCEPT ![depth] = "return"] /\ frame[depth] = "right"
      /\ depth' = depth /\ UNCHANGED <<job_done, tpc, tjob>> /\ depth \notin job_done
  BY DEF DequeInvariant, DequeTypeOK, RightReturns, GoOnTo, thief, Frames, RightInv
<1>1. RunnersOf(depth) = {Owner}
  BY <1>0, RunnersFacts
<1>2. \A t \in Thieves : ~ (tpc[t] = "run" /\ tjob[t] = depth)
  BY <1>0 DEF DequeInvariant, ClaimsInv, Claim
<1>3. \A d \in Frames : RunnersOf(d)' = IF d = depth THEN {} ELSE RunnersOf(d)
  BY <1>0, <1>2 DEF RunnersOf
<1>4. \A d \in Frames : PhaseOf(d)' = IF d = depth THEN "done" ELSE PhaseOf(d)
  BY <1>0, <1>3 DEF PhaseOf
<1>5. PhaseOf(depth) = "running"
  BY <1>0, <1>1 DEF PhaseOf
<1> QED BY <1>0, <1>3, <1>4, <1>5 DEF FJ!Finish

LEMMA RefineWaitDone ==
  ASSUME DequeInvariant, RightInv, WaitDone
  PROVE  UNCHANGED FJ!vars
<1>0. /\ frame \in [Frames -> FramePhases] /\ depth \in Frames
      /\ frame' = [frame EXCEPT ![depth] = "return"] /\ frame[depth] = "wait"
      /\ depth' = depth /\ UNCHANGED <<job_done, tpc, tjob>> /\ depth \in job_done
  BY DEF DequeInvariant, DequeTypeOK, WaitDone, GoOnTo, thief, Frames
<1>1. \A d \in Frames : RunnersOf(d)' = RunnersOf(d)
  BY <1>0 DEF RunnersOf
<1>2. PhaseOf(depth) = "done"
  BY <1>0, PhaseOfDone
<1>3. \A d \in Frames : PhaseOf(d)' = PhaseOf(d)
  BY <1>0, <1>1, <1>2 DEF PhaseOf
<1> QED BY <1>0, <1>1, <1>3, SamePhases

LEMMA RefineReturn ==
  ASSUME DequeInvariant, RightInv, ReturnFromDo
  PROVE  FJ!Join
<1>0. /\ frame \in [Frames -> FramePhases] /\ depth \in Frames /\ depth > 0
      /\ frame' = [frame EXCEPT ![depth] = "none"] /\ frame[depth] = "return"
      /\ depth' = depth - 1 /\ job_done' = job_done \ {depth} /\ UNCHANGED <<tpc, tjob>>
  BY DEF DequeInvariant, DequeTypeOK, ReturnFromDo, GoOnTo, thief, Frames
<1>1. \A d \in Frames : RunnersOf(d)' = RunnersOf(d)
  BY <1>0 DEF RunnersOf
<1>2. PhaseOf(depth) = "done"
  BY <1>0 DEF PhaseOf
<1>3. \A d \in Frames : PhaseOf(d)' = IF d = depth THEN "none" ELSE PhaseOf(d)
  BY <1>0, <1>1 DEF PhaseOf
<1> QED BY <1>0, <1>1, <1>2, <1>3 DEF FJ!Join

LEMMA RefineTopClear ==
  ASSUME DequeInvariant, NEW t \in Thieves, TopClear(t)
  PROVE  FJ!Start(tjob[t], t)
<1>j. PICK j \in Frames : j = tjob[t]
  BY DEF DequeInvariant, DequeTypeOK, ClaimsInv, Claim, TopClear
<1>0. /\ tpc \in [Thieves -> ThiefPhases] /\ Claim(t) = j
      /\ j \in Frames /\ j \notin job_done /\ j \in queued
      /\ frame[j] \in {"left", "join", "sub", "wait"}
      /\ \A u \in Thieves \ {t} : Claim(u) # j
  BY <1>j DEF DequeInvariant, DequeTypeOK, ClaimsInv, Claim, TopClear
<1>1. /\ UNCHANGED <<depth, frame, job_done, tjob>>
      /\ tpc' = [tpc EXCEPT ![t] = "run"] /\ tpc[t] = "clear"
  <2>1. j # NoJob
    BY <1>0, DequeAssumption DEF Frames, NoJob
  <2> QED BY <1>j, <2>1 DEF TopClear, owner
<1>2. RunnersOf(j) = {}
  BY <1>j, <1>0, <1>1 DEF RunnersOf, Claim
<1>3. \A d \in Frames : RunnersOf(d)' = IF d = j THEN {t} ELSE RunnersOf(d)
  <2>1. \A d \in Frames : d # j => RunnersOf(d)' = RunnersOf(d)
    BY <1>j, <1>0, <1>1 DEF RunnersOf
  <2>2. \A u \in Thieves : tpc'[u] = "run" /\ tjob'[u] = j <=> u = t
    BY <1>j, <1>0, <1>1 DEF Claim
  <2>3. RunnersOf(j)' = {t}
    BY <1>0, <1>1, <2>2 DEF RunnersOf
  <2> QED BY <2>1, <2>3
<1>4. \A d \in Frames : PhaseOf(d)' = IF d = j THEN "running" ELSE PhaseOf(d)
  BY <1>0, <1>1, <1>3 DEF PhaseOf
<1>5. PhaseOf(j) = "forked"
  BY <1>0, <1>2 DEF PhaseOf
<1> QED BY <1>j, <1>0, <1>1, <1>3, <1>4, <1>5 DEF FJ!Start

LEMMA RefineExecute ==
  ASSUME DequeInvariant, NEW t \in Thieves, Execute(t)
  PROVE  FJ!Finish(tjob[t])
<1>j. PICK j \in Frames : j = tjob[t]
  BY DEF DequeInvariant, DequeTypeOK, ClaimsInv, Claim, Execute
<1>0. /\ tpc \in [Thieves -> ThiefPhases] /\ tjob \in [Thieves -> 0..MaxDepth]
      /\ Claim(t) = j /\ tpc[t] = "run"
      /\ j \in Frames /\ j \notin job_done
      /\ frame[j] \in {"left", "join", "sub", "wait"}
      /\ \A u \in Thieves \ {t} : Claim(u) # j
  BY <1>j DEF DequeInvariant, DequeTypeOK, ClaimsInv, Claim, Execute
<1>1. /\ UNCHANGED <<depth, frame>>
      /\ job_done' = job_done \cup {j}
      /\ tpc' = [tpc EXCEPT ![t] = "idle"]
      /\ tjob' = [tjob EXCEPT ![t] = NoJob]
  BY <1>j DEF Execute
<1>2. t \in RunnersOf(j)
  BY <1>j, <1>0 DEF RunnersOf
<1>3. \A d \in Frames : RunnersOf(d)' = IF d = j THEN {} ELSE RunnersOf(d)
  <2>1. \A d \in Frames : d # j => RunnersOf(d)' = RunnersOf(d)
    BY <1>j, <1>0, <1>1 DEF RunnersOf
  <2>2. \A u \in Thieves : ~ (tpc'[u] = "run" /\ tjob'[u] = j)
    BY <1>j, <1>0, <1>1 DEF Claim
  <2>3. RunnersOf(j)' = {}
    BY <1>0, <1>1, <2>2 DEF RunnersOf
  <2> QED BY <2>1, <2>3
<1>4. \A d \in Frames : PhaseOf(d)' = IF d = j THEN "done" ELSE PhaseOf(d)
  BY <1>0, <1>1, <1>3 DEF PhaseOf
<1>5. PhaseOf(j) = "running"
  BY <1>0, <1>2 DEF PhaseOf
<1> QED BY <1>j, <1>0, <1>1, <1>3, <1>4, <1>5 DEF FJ!Finish

LEMMA InitRefines == DequeInit => FJ!Init
BY DEF DequeInit, FJ!Init, FJ!Frames, Frames, PhaseOf, RunnersOf

LEMMA NextRefines == DequeInvariant /\ RightInv /\ [DequeNext]_deque_vars => [FJ!Next]_(FJ!vars)
<1> SUFFICES ASSUME DequeInvariant, RightInv, [DequeNext]_deque_vars PROVE [FJ!Next]_(FJ!vars)
  OBVIOUS
<1>0. /\ depth > 0 => depth \in Frames /\ depth \in FJ!Frames
      /\ job_done \subseteq queued /\ frame \in [Frames -> FramePhases]
  BY DequeAssumption DEF DequeInvariant, DequeTypeOK, StackInv, Frames, FJ!Frames
<1>1. CASE Fork
  BY <1>1, RefineFork DEF FJ!Next
<1>2. CASE PushBottom
  <2>1. PICK f \in {"left", "store", "publish"} : GoOnTo(f)
    BY <1>2 DEF PushBottom, PushLoad, PushRefused, PushStore, PushPublish
  <2>2. /\ depth \in Frames /\ depth' = depth /\ UNCHANGED <<job_done, tpc, tjob>>
        /\ frame[depth] \notin {"none", "right", "return"}
    BY <1>0, <1>2 DEF PushBottom, PushLoad, PushRefused, PushStore, PushPublish, thief
  <2> QED BY <2>1, <2>2, OwnerStutter
<1>3. CASE LeftReturns
  <2>1. /\ depth \in Frames /\ depth' = depth /\ UNCHANGED <<job_done, tpc, tjob>>
        /\ frame[depth] = "left"
    BY <1>0, <1>3 DEF LeftReturns, thief
  <2>2. CASE depth \in queued
    BY <1>3, <2>1, <2>2, OwnerStutter DEF LeftReturns
  <2>3. CASE depth \notin queued
    <3>1. FJ!Start(depth, Owner)
      BY <1>0, <1>3, <2>1, <2>3, RefineOwnerStart DEF LeftReturns
    <3> QED BY <1>0, <2>1, <3>1 DEF FJ!Next, Frames
  <2> QED BY <2>2, <2>3
<1>4. CASE PopLoad \/ PopSub
  <2>1. PICK f \in {"wait", "sub", "clear"} : GoOnTo(f)
    BY <1>4 DEF PopLoad, PopSub
  <2>2. /\ depth \in Frames /\ depth' = depth /\ UNCHANGED <<job_done, tpc, tjob>>
        /\ frame[depth] \notin {"none", "right", "return"}
    BY <1>0, <1>4 DEF PopLoad, PopSub, thief
  <2> QED BY <2>1, <2>2, OwnerStutter
<1>5. CASE PopClear
  <2>1. /\ depth \in Frames /\ depth' = depth /\ UNCHANGED <<job_done, tpc, tjob>>
        /\ frame[depth] = "clear" /\ depth \notin job_done /\ GoOnTo("right")
    BY <1>0, <1>5 DEF PopClear, thief, DequeInvariant, PopInv
  <2>2. FJ!Start(depth, Owner)
    BY <2>1, RefineOwnerStart
  <2> QED BY <1>0, <2>1, <2>2 DEF FJ!Next, Frames
<1>6. CASE RightReturns
  BY <1>0, <1>6, RefineRightReturns DEF RightReturns, FJ!Next
<1>7. CASE WaitDone
  BY <1>7, RefineWaitDone
<1>8. CASE ReturnFromDo
  BY <1>8, RefineReturn DEF FJ!Next
<1>9. ASSUME NEW t \in Thieves, TopLoad(t) \/ TopCas(t) \/ TopRead(t)
      PROVE  UNCHANGED FJ!vars
  <2>1. UNCHANGED <<depth, frame, job_done>>
    BY <1>9 DEF TopLoad, TopCas, TopRead, owner
  <2>2. \A d \in Frames : RunnersOf(d)' = RunnersOf(d)
    BY <1>9, <2>1 DEF TopLoad, TopCas, TopRead, owner, RunnersOf, DequeInvariant, DequeTypeOK
  <2> QED BY <2>1, <2>2, SamePhases DEF PhaseOf
<1>10. ASSUME NEW t \in Thieves, TopClear(t) PROVE FJ!Next
  <2>1. tjob[t] \in FJ!Frames
    BY <1>10 DEF TopClear, DequeInvariant, ClaimsInv, Claim, DequeTypeOK, Frames, FJ!Frames
  <2>2. FJ!Start(tjob[t], t)
    BY <1>10, RefineTopClear
  <2> QED BY <2>1, <2>2 DEF FJ!Next
<1>11. ASSUME NEW t \in Thieves, Execute(t) PROVE FJ!Next
  <2>1. tjob[t] \in FJ!Frames
    BY <1>11 DEF Execute, DequeInvariant, ClaimsInv, Claim, DequeTypeOK, Frames, FJ!Frames
  <2>2. FJ!Finish(tjob[t])
    BY <1>11, RefineExecute
  <2> QED BY <2>1, <2>2 DEF FJ!Next
<1>12. CASE UNCHANGED deque_vars
  BY <1>12, SamePhases DEF deque_vars, PhaseOf, RunnersOf
<1> QED
  BY <1>1, <1>2, <1>3, <1>4, <1>5, <1>6, <1>7, <1>8, <1>9, <1>10, <1>11, <1>12
     DEF DequeNext, ParallelDo, PopBottom, PopTop

(* The owner never runs a right-hand function that a thief has run. *)
THEOREM RightIsRight == DequeSpec => []RightInv
<1>1. DequeInit => RightInv
  BY DEF DequeInit, RightInv
<1>2. DequeInvariant /\ RightInv /\ [DequeNext]_deque_vars => RightInv'
  <2>1. DequeInvariant /\ RightInv /\ DequeNext => RightInv'
    BY RightStep
  <2>2. RightInv /\ UNCHANGED deque_vars => RightInv'
    BY DEF RightInv, deque_vars
  <2> QED BY <2>1, <2>2
<1> QED BY <1>1, <1>2, DequeIsRight, PTL DEF DequeSpec

(***************************************************************************)
(* The deque with its thieves implements fork and join: every right-hand   *)
(* function runs exactly once, and parallel_do returns only after it has.  *)
(***************************************************************************)
THEOREM DequeForksAndJoins == DequeSpec => ImplementsForkJoin
BY InitRefines, NextRefines, DequeIsRight, RightIsRight, PTL
   DEF DequeSpec, FJ!Spec, ImplementsForkJoin

=============================================================================
