------------------------ MODULE ContractStateProofs ------------------------
(***************************************************************************)
(* Proofs about ContractState.  The first part is about sequences and what *)
(* the recursive functions in the model compute; the second types the      *)
(* state for any number of goroutines.                                     *)
(* The last part is about handlers that take turns, with any failed write  *)
(* and any stop of the process: only then does what is staged belong to    *)
(* the handler that runs, and what is committed to its blocks (SerialInv). *)
(***************************************************************************)
EXTENDS ContractState, SequenceTheorems, WellFoundedInduction, TLAPS

-----------------------------------------------------------------------------
(* Recursive functions.                                                    *)

\* A non-empty set of naturals has a least member.
LEMMA LeastMember ==
  ASSUME NEW T, T \subseteq Nat, T # {}
  PROVE  \E x \in T : \A y \in T : x <= y
<1>1. PICK x \in T : \A y \in T : ~ (<<y, x>> \in OpToRel(<, Nat))
  BY NatLessThanWellFounded, WFMin
<1>2. ASSUME NEW y \in T PROVE x <= y
  <2>1. x \in Nat /\ y \in Nat /\ <<y, x>> \in Nat \X Nat
    OBVIOUS
  <2>2. y < x => <<y, x>> \in OpToRel(<, Nat)
    BY <2>1 DEF OpToRel
  <2>3. ~(y < x)
    BY <1>1, <2>2, Zenon
  <2> QED
    BY <2>1, <2>3
<1> QED
  BY <1>2

\* A set of numbers that contains 0 and the successors of its members
\* contains every number.
LEMMA CountUp ==
  ASSUME NEW N \in Nat, NEW P, 0 \in P, \A n \in 0..(N - 1) : n \in P => n + 1 \in P
  PROVE  0..N \subseteq P
<1> DEFINE Missing == (0..N) \ P
<1>1. SUFFICES ASSUME Missing # {} PROVE FALSE
  OBVIOUS
<1>2. PICK m \in Missing : \A n \in Missing : m <= n
  <2>1. Missing \subseteq Nat
    OBVIOUS
  <2> HIDE DEF Missing
  <2> QED
    BY <1>1, <2>1, LeastMember
<1>3. m # 0 /\ m \in 0..N
  BY <1>2
<1>4. m - 1 \in 0..(N - 1)
  BY <1>3
<1>5. m - 1 \notin P
  <2>1. m = (m - 1) + 1 /\ m \notin P
    BY <1>2, <1>3
  <2> QED
    BY <1>4, <2>1
<1>6. m - 1 \in Missing
  BY <1>4, <1>5
<1> QED
  BY <1>2, <1>3, <1>6

\* f starts from v and takes the given steps.
Steps(f, N, v, step) == f[0] = v /\ \A i \in 1..N : f[i] = step[<<i, f[i - 1]>>]

\* There is a function that starts from v and takes the given steps.
LEMMA Iterates ==
  ASSUME NEW N \in Nat, NEW V, NEW v \in V, NEW step \in [(1..N) \X V -> V]
  PROVE  \E f \in [0..N -> V] : Steps(f, N, v, step)
<1> DEFINE Good(n, f) == f[0] = v /\ \A i \in 1..n : f[i] = step[<<i, f[i - 1]>>]
           P == {n \in 0..N : \E f \in [0..n -> V] : Good(n, f)}
<1>1. 0 \in P
  <2> DEFINE g == [i \in 0..0 |-> v]
  <2>1. g \in [0..0 -> V] /\ g[0] = v /\ 1..0 = {}
    OBVIOUS
  <2>2. Good(0, g)
    BY <2>1
  <2> HIDE DEF g, Good
  <2>3. \E f \in [0..0 -> V] : Good(0, f)
    BY <2>1, <2>2
  <2> QED
    BY <2>3
<1>2. ASSUME NEW n \in 0..(N - 1), n \in P PROVE n + 1 \in P
  <2>1. PICK f \in [0..n -> V] : Good(n, f)
    BY <1>2
  <2> DEFINE g == [i \in 0..(n + 1) |-> IF i = n + 1 THEN step[<<n + 1, f[n]>>] ELSE f[i]]
  <2>2. step[<<n + 1, f[n]>>] \in V
    BY <2>1
  <2>3. g \in [0..(n + 1) -> V]
    BY <2>1, <2>2
  <2>4. g[0] = v /\ \A i \in 0..n : g[i] = f[i]
    BY <2>1
  <2>5. g[n + 1] = step[<<n + 1, f[n]>>] /\ f[n] = g[(n + 1) - 1]
    OBVIOUS
  <2>6. ASSUME NEW i \in 1..(n + 1) PROVE g[i] = step[<<i, g[i - 1]>>]
    <3>1. CASE i = n + 1
      BY <3>1, <2>5
    <3>2. CASE i # n + 1
      <4>1. i \in 1..n /\ i - 1 \in 0..n /\ i \in 0..n
        BY <3>2
      <4> HIDE DEF g
      <4> QED
        BY <4>1, <2>1, <2>4
    <3> QED
      BY <3>1, <3>2
  <2>7. Good(n + 1, g)
    BY <2>4, <2>6
  <2>8. \E h \in [0..(n + 1) -> V] : Good(n + 1, h)
    BY <2>3, <2>7
  <2> QED
    BY <2>8
<1>3. N \in P
  <2>1. \A n \in 0..(N - 1) : n \in P => n + 1 \in P
    BY <1>2
  <2>2. N \in 0..N
    OBVIOUS
  <2> HIDE DEF P
  <2> QED
    BY <1>1, <2>1, <2>2, CountUp
<1> QED
  BY <1>3 DEF Steps

\* f selects the members of s that are in S, one after the other.
Selects(f, s, S) ==
    /\ f[0] = <<>>
    /\ \A n \in 1..Len(s) : f[n] = IF s[n] \in S THEN Append(f[n - 1], s[n]) ELSE f[n - 1]

\* Select takes such steps.
LEMMA SelectSteps ==
  ASSUME NEW T, NEW s \in Seq(T), NEW S
  PROVE  \E f \in [0..Len(s) -> Seq(T)] : Selects(f, s, S) /\ Select(s, S) = f[Len(s)]
<1> DEFINE N == Len(s)
           IsSelection(f) == f = [n \in 0..N |->
                                IF n = 0 THEN <<>>
                                ELSE IF s[n] \in S THEN Append(f[n - 1], s[n]) ELSE f[n - 1]]
           step == [p \in (1..N) \X Seq(T) |->
                      IF s[p[1]] \in S THEN Append(p[2], s[p[1]]) ELSE p[2]]
           F == CHOOSE f : IsSelection(f)
<1>1. N \in Nat /\ \A n \in 1..N : s[n] \in T
  BY ElementOfSeq
<1>2. step \in [(1..N) \X Seq(T) -> Seq(T)] /\ <<>> \in Seq(T)
  BY <1>1
<1>3. PICK f \in [0..N -> Seq(T)] : f[0] = <<>> /\ \A n \in 1..N : f[n] = step[<<n, f[n - 1]>>]
  <2> HIDE DEF step, N
  <2>1. \E f \in [0..N -> Seq(T)] : Steps(f, N, <<>>, step)
    BY <1>1, <1>2, Iterates
  <2> QED
    BY <2>1 DEF Steps
<1>4. ASSUME NEW n \in 1..N
      PROVE  f[n] = IF s[n] \in S THEN Append(f[n - 1], s[n]) ELSE f[n - 1]
  <2>1. n - 1 \in 0..N /\ f[n - 1] \in Seq(T)
    BY <1>1, <1>3
  <2>2. f[n] = step[<<n, f[n - 1]>>]
    BY <1>3
  <2> QED
    BY <2>1, <2>2
<1>5. IsSelection(f)
  <2>1. \A n \in 0..N : n # 0 => n \in 1..N
    BY <1>1
  <2> HIDE DEF N, step
  <2> QED
    BY <1>3, <1>4, <2>1
<1>6. IsSelection(F)
  <2> HIDE DEF IsSelection
  <2> QED
    BY <1>5
<1>7. Select(s, S) = F[N]
  BY DEF Select
<1>8. \A n \in 0..N : F[n] = IF n = 0 THEN <<>>
                              ELSE IF s[n] \in S THEN Append(F[n - 1], s[n]) ELSE F[n - 1]
  <2> HIDE DEF F, N
  <2> QED
    BY <1>6
<1>9. F \in [0..N -> Seq(T)]
  <2> DEFINE P == {n \in 0..N : F[n] \in Seq(T)}
  <2>1. 0 \in P
    <3>1. 0 \in 0..N
      BY <1>1
    <3>2. F[0] = <<>>
      <4> HIDE DEF F, N
      <4> QED
        BY <1>8, <3>1
    <3> HIDE DEF F, N
    <3> QED
      BY <1>2, <3>1, <3>2
  <2>2. ASSUME NEW n \in 0..(N - 1), n \in P PROVE n + 1 \in P
    <3>1. n + 1 \in 1..N /\ n + 1 \in 0..N /\ (n + 1) - 1 = n /\ n + 1 # 0
      BY <1>1
    <3>2. s[n + 1] \in T
      BY <1>1, <3>1
    <3>3. F[n + 1] = IF s[n + 1] \in S THEN Append(F[n], s[n + 1]) ELSE F[n]
      <4> HIDE DEF F, N
      <4> QED
        BY <1>8, <3>1
    <3>4. F[n] \in Seq(T)
      BY <2>2
    <3> HIDE DEF F, N
    <3>5. Append(F[n], s[n + 1]) \in Seq(T)
      BY <3>2, <3>4, AppendProperties
    <3>6. F[n + 1] \in Seq(T)
      BY <3>3, <3>4, <3>5
    <3> QED
      BY <3>1, <3>6
  <2>3. 0..N \subseteq P
    <3>1. \A n \in 0..(N - 1) : n \in P => n + 1 \in P
      BY <2>2
    <3> HIDE DEF P, N
    <3> QED
      BY <1>1, <2>1, <3>1, CountUp
  <2>4. F = [n \in 0..N |-> F[n]]
    <3> HIDE DEF F, N
    <3> QED
      BY <1>6
  <2> HIDE DEF F, N
  <2> QED
    BY <2>3, <2>4
<1>10. F[0] = <<>>
  <2>1. 0 \in 0..N
    BY <1>1
  <2> HIDE DEF F, N
  <2> QED
    BY <1>8, <2>1
<1>11. \A n \in 1..N : F[n] = IF s[n] \in S THEN Append(F[n - 1], s[n]) ELSE F[n - 1]
  <2>1. \A n \in 1..N : n \in 0..N /\ n # 0
    BY <1>1
  <2> HIDE DEF F, N
  <2> QED
    BY <1>8, <2>1
<1>12. Selects(F, s, S)
  BY <1>10, <1>11 DEF Selects
<1> HIDE DEF F
<1> QED
  BY <1>7, <1>9, <1>12

\* Nothing is selected from an empty sequence.
LEMMA SelectEmpty ==
  ASSUME NEW S
  PROVE  Select(<<>>, S) = <<>>
<1>1. <<>> \in Seq({}) /\ Len(<<>>) = 0
  OBVIOUS
<1>2. \E f \in [0..Len(<<>>) -> Seq({})] : Selects(f, <<>>, S) /\ Select(<<>>, S) = f[Len(<<>>)]
  BY <1>1, SelectSteps
<1> QED
  BY <1>1, <1>2 DEF Selects

\* Select looks at one member after the other.
LEMMA SelectAppend ==
  ASSUME NEW T, NEW s \in Seq(T), NEW x \in T, NEW S
  PROVE  /\ Select(s, S) \in Seq(T)
         /\ Select(Append(s, x), S) = IF x \in S THEN Append(Select(s, S), x) ELSE Select(s, S)
<1> DEFINE N == Len(s)
           t == Append(s, x)
<1>1. N \in Nat /\ t \in Seq(T) /\ Len(t) = N + 1 /\ t[N + 1] = x /\ \A n \in 1..N : t[n] = s[n]
  BY AppendProperties
<1>2. PICK f \in [0..N -> Seq(T)] : Selects(f, s, S) /\ Select(s, S) = f[N]
  BY SelectSteps
<1> HIDE DEF t
<1>3. PICK g \in [0..Len(t) -> Seq(T)] : Selects(g, t, S) /\ Select(t, S) = g[Len(t)]
  BY <1>1, SelectSteps
<1> HIDE DEF N
<1> DEFINE P == {n \in 0..N : g[n] = f[n]}
<1>4. 0 \in P
  BY <1>1, <1>2, <1>3 DEF Selects
<1>5. ASSUME NEW n \in 0..(N - 1), n \in P PROVE n + 1 \in P
  <2>1. /\ n + 1 \in 1..N /\ n + 1 \in 0..N /\ n + 1 \in 1..Len(t) /\ (n + 1) - 1 = n
        /\ g[n] = f[n] /\ t[n + 1] = s[n + 1]
    BY <1>1, <1>5
  <2>2. f[n + 1] = IF s[n + 1] \in S THEN Append(f[n], s[n + 1]) ELSE f[n]
    BY <1>2, <2>1 DEF Selects, N
  <2>3. g[n + 1] = IF t[n + 1] \in S THEN Append(g[n], t[n + 1]) ELSE g[n]
    BY <1>3, <2>1 DEF Selects
  <2>4. g[n + 1] = IF s[n + 1] \in S THEN Append(f[n], s[n + 1]) ELSE f[n]
    BY <2>1, <2>3, Zenon
  <2>5. g[n + 1] = f[n + 1]
    BY <2>2, <2>4
  <2> QED
    BY <2>1, <2>5
<1>6. 0..N \subseteq P
  <2>1. \A n \in 0..(N - 1) : n \in P => n + 1 \in P
    BY <1>5
  <2> HIDE DEF P
  <2> QED
    BY <1>1, <1>4, <2>1, CountUp
<1>7. N \in 0..N /\ N + 1 \in 1..Len(t) /\ (N + 1) - 1 = N
  BY <1>1
<1>8. g[N] = Select(s, S) /\ Select(s, S) \in Seq(T)
  BY <1>2, <1>6, <1>7
<1>9. g[N + 1] = IF x \in S THEN Append(g[N], x) ELSE g[N]
  BY <1>1, <1>3, <1>7 DEF Selects
<1> QED
  BY <1>1, <1>3, <1>8, <1>9 DEF t

\* Flattening sequences over T gives a sequence over T that contains what
\* they contain.
LEMMA FlattenFacts ==
  ASSUME NEW T, NEW s \in Seq(Seq(T))
  PROVE  /\ FlattenSeq(s) \in Seq(T)
         /\ \A i \in 1..Len(s) : \A j \in 1..Len(s[i]) : Contains(FlattenSeq(s), s[i][j])
<1> DEFINE N == Len(s)
           Flattens(f) == f = [n \in 1..N |-> IF n = 1 THEN s[n] ELSE f[n - 1] \o s[n]]
           step == [p \in (1..N) \X Seq(T) |-> IF p[1] = 1 THEN s[1] ELSE p[2] \o s[p[1]]]
           F == CHOOSE f : Flattens(f)
<1>1. N \in Nat /\ \A n \in 1..N : s[n] \in Seq(T)
  BY ElementOfSeq
<1>2. CASE N = 0
  <2>1. s = <<>> /\ FlattenSeq(s) = <<>>
    BY <1>2, EmptySeq DEF FlattenSeq
  <2>2. FlattenSeq(s) \in Seq(T)
    BY <2>1, EmptySeq
  <2>3. 1..Len(s) = {}
    BY <1>2
  <2> QED
    BY <2>2, <2>3, Zenon
<1>3. CASE N # 0
  <2>1. 1 \in 1..N /\ N \in 1..N
    BY <1>1, <1>3
  <2>2. step \in [(1..N) \X Seq(T) -> Seq(T)] /\ <<>> \in Seq(T)
    <3>1. ASSUME NEW p \in (1..N) \X Seq(T)
          PROVE  (IF p[1] = 1 THEN s[1] ELSE p[2] \o s[p[1]]) \in Seq(T)
      <4>1. p[1] \in 1..N /\ p[2] \in Seq(T) /\ s[p[1]] \in Seq(T) /\ s[1] \in Seq(T)
        BY <1>1, <2>1
      <4> QED
        BY <4>1, ConcatProperties
    <3> QED
      BY <3>1, EmptySeq
  <2>3. PICK f \in [0..N -> Seq(T)] : Steps(f, N, <<>>, step)
    <3> HIDE DEF step, N
    <3> QED
      BY <1>1, <2>2, Iterates
  <2> DEFINE h == [n \in 1..N |-> f[n]]
  <2>4. ASSUME NEW n \in 1..N
        PROVE  h[n] = IF n = 1 THEN s[n] ELSE h[n - 1] \o s[n]
    <3>1. n - 1 \in 0..N /\ f[n - 1] \in Seq(T) /\ (n # 1 => n - 1 \in 1..N)
      <4>1. n - 1 \in 0..N /\ (n # 1 => n - 1 \in 1..N)
        BY <1>1
      <4> HIDE DEF N
      <4> QED
        BY <4>1, <2>3
    <3>2. f[n] = step[<<n, f[n - 1]>>]
      BY <2>3 DEF Steps
    <3> QED
      BY <3>1, <3>2
  <2>5. Flattens(h)
    <3>1. h = [n \in 1..N |-> h[n]]
      OBVIOUS
    <3> HIDE DEF h, N
    <3> QED
      BY <2>4, <3>1
  <2>6. Flattens(F)
    <3> HIDE DEF Flattens, h
    <3> QED
      BY <2>5
  <2>7. FlattenSeq(s) = F[N]
    BY <1>3 DEF FlattenSeq
  <2>8. \A n \in 1..N : F[n] = IF n = 1 THEN s[n] ELSE F[n - 1] \o s[n]
    <3> HIDE DEF F, N
    <3> QED
      BY <2>6
  <2> DEFINE Whole(n) == /\ F[n] \in Seq(T)
                         /\ \A i \in 1..n : \A j \in 1..Len(s[i]) : Contains(F[n], s[i][j])
             P == {n \in 0..N : n # 0 => Whole(n)}
  <2> HIDE DEF F, N
  <2>9. 0 \in P
    BY <1>1
  <2>10. ASSUME NEW n \in 0..(N - 1), n \in P PROVE n + 1 \in P
    <3>1. n + 1 \in 1..N /\ n + 1 \in 0..N /\ s[n + 1] \in Seq(T) /\ (n + 1) - 1 = n
      BY <1>1
    <3>2. CASE n = 0
      <4>1. F[1] = s[1]
        BY <2>1, <2>8
      <4>2. Whole(1)
        BY <1>1, <2>1, <4>1 DEF Contains
      <4> QED
        BY <3>1, <3>2, <4>2
    <3>3. CASE n # 0
      <4>1. Whole(n)
        BY <2>10, <3>3
      <4>2. F[n + 1] = F[n] \o s[n + 1]
        <5>1. n + 1 # 1
          BY <3>3
        <5> QED
          BY <2>8, <3>1, <5>1
      <4> DEFINE u == F[n]
                 v == s[n + 1]
      <4>3. u \in Seq(T) /\ v \in Seq(T) /\ F[n + 1] = u \o v
        BY <3>1, <4>1, <4>2
      <4> HIDE DEF u, v
      <4>4. /\ u \o v \in Seq(T) /\ Len(u \o v) = Len(u) + Len(v)
            /\ Len(u) \in Nat /\ Len(v) \in Nat
            /\ \A m \in 1..Len(u) : (u \o v)[m] = u[m]
            /\ \A m \in 1..Len(v) : (u \o v)[Len(u) + m] = v[m]
        BY <4>3
      <4>5. ASSUME NEW i \in 1..(n + 1), NEW j \in 1..Len(s[i])
            PROVE  Contains(u \o v, s[i][j])
        <5>1. CASE i = n + 1
          <6>1. j \in 1..Len(v) /\ (u \o v)[Len(u) + j] = s[i][j]
            BY <4>4, <5>1 DEF v
          <6>2. Len(u) + j \in 1..Len(u \o v)
            BY <4>4, <6>1
          <6> QED
            BY <6>1, <6>2 DEF Contains
        <5>2. CASE i # n + 1
          <6>1. i \in 1..n
            BY <5>2
          <6>2. PICK m \in 1..Len(u) : u[m] = s[i][j]
            BY <4>1, <6>1 DEF Contains, u
          <6>3. m \in 1..Len(u \o v) /\ (u \o v)[m] = s[i][j]
            BY <4>4, <6>2
          <6> QED
            BY <6>3 DEF Contains
        <5> QED
          BY <5>1, <5>2
      <4>6. Whole(n + 1)
        BY <4>3, <4>4, <4>5
      <4> HIDE DEF Whole
      <4> QED
        BY <3>1, <4>6
    <3> QED
      BY <3>2, <3>3
  <2>11. 0..N \subseteq P
    <3>1. \A n \in 0..(N - 1) : n \in P => n + 1 \in P
      BY <2>10
    <3> HIDE DEF P
    <3> QED
      BY <1>1, <2>9, <3>1, CountUp
  <2>12. Whole(N)
    <3>1. N \in 0..N
      BY <1>1
    <3> HIDE DEF Whole
    <3> QED
      BY <1>3, <2>11, <3>1
  <2> QED
    BY <2>7, <2>12 DEF N
<1> QED
  BY <1>2, <1>3

-----------------------------------------------------------------------------
(* Types, for any number of goroutines.                                    *)

Filled == Block \ {<<>>}
Stagings == UNION {[K -> Value] : K \in SUBSET Keys}
Label == {"run", "check", "call", "put", "commit", "add"}
Job == [at : Label, handler : Handler, txs : Payload, adds : Seq(Filled),
        read : Value, puts : Stagings, before : [Keys -> Value]]

\* what the steps of a handler rely on where they take a head or a first block
JobFits(j) ==
    /\ j.handler # "execute" => j.adds # <<>>
    /\ j.at \in {"check", "call", "put"} => j.txs # <<>>
    /\ j.handler = "execute" /\ j.at = "add" => \E tx \in Txs : j.adds = <<<<<<tx>>>>>>

TaskTyped ==
    /\ task \in [Threads -> {Idle} \cup Job]
    /\ \A t \in Threads : task[t] # Idle => JobFits(task[t])

TypeInv ==
    /\ db \in [Keys -> Value]
    /\ blocks \in UNION {[S -> Handler] : S \in SUBSET Block}
    /\ chain \in Block
    /\ staging \in Stagings
    /\ caller \in Permissions \cup {Unknown}
    /\ pool \in Payload
    /\ TaskTyped

\* A job is not idle.
LEMMA JobIsBusy ==
  ASSUME NEW j \in Job
  PROVE  j # Idle
BY DEF Job, Idle, Label

\* A thread that is not idle runs a job.
LEMMA Busy ==
  ASSUME TaskTyped, NEW t \in Threads, task[t].at # "idle"
  PROVE  task[t] \in Job /\ JobFits(task[t])
<1>1. task[t] # Idle
  BY DEF Idle
<1> QED
  BY <1>1 DEF TaskTyped

\* What a job is typed as.
LEMMA JobFields ==
  ASSUME NEW j \in Job
  PROVE  /\ j.at \in Label /\ j.handler \in Handler /\ j.txs \in Payload
         /\ j.adds \in Seq(Filled) /\ j.read \in Value /\ j.puts \in Stagings
         /\ j.before \in [Keys -> Value]
BY DEF Job

\* A step that gives t a fitting job, or ends its job, keeps the types.
LEMMA TaskSet ==
  ASSUME TaskTyped, NEW t \in Threads, NEW j, task' = [task EXCEPT ![t] = j],
         j = Idle \/ (j \in Job /\ JobFits(j))
  PROVE  TaskTyped'
<1>1. task \in [Threads -> {Idle} \cup Job] /\ j \in {Idle} \cup Job
  BY DEF TaskTyped
<1>2. task' \in [Threads -> {Idle} \cup Job] /\ task'[t] = j
  BY <1>1
<1>3. ASSUME NEW u \in Threads, task'[u] # Idle PROVE JobFits(task'[u])
  <2>1. CASE u = t
    BY <1>2, <1>3, <2>1
  <2>2. CASE u # t
    <3>1. task'[u] = task[u]
      BY <1>1, <2>2
    <3> QED
      BY <1>3, <3>1 DEF TaskTyped
  <2> QED
    BY <2>1, <2>2
<1> QED
  BY <1>2, <1>3 DEF TaskTyped

\* What Goto does to the job.
LEMMA GotoJob ==
  ASSUME TaskTyped, NEW t \in Threads, task[t] \in Job, NEW l \in Label, Goto(t, l)
  PROVE  \E j \in Job :
           /\ task' = [task EXCEPT ![t] = j]
           /\ j.at = l /\ j.handler = task[t].handler /\ j.txs = task[t].txs
           /\ j.adds = task[t].adds /\ j.read = task[t].read /\ j.puts = task[t].puts
           /\ j.before = task[t].before
<1> DEFINE i == task[t]
           j == [at |-> l, handler |-> i.handler, txs |-> i.txs, adds |-> i.adds,
                 read |-> i.read, puts |-> i.puts, before |-> i.before]
<1>1. j \in Job
  BY JobFields DEF Job
<1>2. task' = [task EXCEPT ![t] = j]
  <2>1. [i EXCEPT !.at = l] = j
    BY DEF Job
  <2>2. task' = [task EXCEPT ![t] = [i EXCEPT !.at = l]]
    BY DEF Goto
  <2> HIDE DEF j, i
  <2> QED
    BY <2>1, <2>2
<1> QED
  BY <1>1, <1>2

\* What begins a handler.
LEMMA BeginJob ==
  ASSUME TypeInv, NEW t \in Threads, NEW h \in Handler, NEW txs \in Payload,
         NEW adds \in Seq(Filled), h # "execute" => adds # <<>>, Begin(t, h, txs, adds)
  PROVE  \E j \in Job :
           /\ task' = [task EXCEPT ![t] = j] /\ JobFits(j)
           /\ j.at = "run" /\ j.handler = h /\ j.txs = txs /\ j.adds = adds /\ j.before = db
<1> DEFINE j == [at |-> "run", handler |-> h, txs |-> txs, adds |-> adds,
                 read |-> <<>>, puts |-> Nothing, before |-> db]
<1>1. Nothing \in Stagings
  <2>1. Nothing \in [{} -> Value] /\ {} \in SUBSET Keys
    BY DEF Nothing
  <2> QED
    BY <2>1 DEF Stagings
<1>2. <<>> \in Value /\ db \in [Keys -> Value]
  BY EmptySeq DEF Value, TypeInv
<1>3. j \in Job
  BY <1>1, <1>2 DEF Job, Label
<1>4. task' = [task EXCEPT ![t] = j]
  BY DEF Begin
<1>5. JobFits(j)
  BY DEF JobFits
<1> QED
  BY <1>3, <1>4, <1>5

\* a job whose transaction is through
NextTx(i, txs, at, adds) == [i EXCEPT !.txs = txs, !.read = <<>>, !.at = at, !.adds = adds]

\* The fields of such a job.
LEMMA NextTxJob ==
  ASSUME NEW i \in Job, NEW txs \in Payload, NEW at \in Label, NEW adds \in Seq(Filled)
  PROVE  LET j == NextTx(i, txs, at, adds) IN
           /\ j \in Job
           /\ j.at = at /\ j.handler = i.handler /\ j.txs = txs /\ j.adds = adds
           /\ j.puts = i.puts /\ j.before = i.before
<1> DEFINE empty == <<>>
           j == [i EXCEPT !.txs = txs, !.read = empty, !.at = at, !.adds = adds]
<1>1. empty \in Value
  BY EmptySeq DEF Value
<1> HIDE DEF empty
<1>2. j \in Job
  BY <1>1 DEF Job
<1>3. /\ j.at = at /\ j.handler = i.handler /\ j.txs = txs /\ j.adds = adds
      /\ j.puts = i.puts /\ j.before = i.before
  BY DEF Job
<1> HIDE DEF j
<1>4. /\ j \in Job
      /\ j.at = at /\ j.handler = i.handler /\ j.txs = txs /\ j.adds = adds
      /\ j.puts = i.puts /\ j.before = i.before
  BY <1>2, <1>3
<1> QED
  BY <1>4 DEF j, empty, NextTx

\* What Executed does to the job.
LEMMA ExecutedJob ==
  ASSUME TaskTyped, NEW t \in Threads, task[t] \in Job, JobFits(task[t]),
         task[t].txs # <<>>, Executed(t)
  PROVE  \E j \in Job :
           /\ task' = [task EXCEPT ![t] = j] /\ JobFits(j)
           /\ j.handler = task[t].handler /\ j.txs = Tail(task[t].txs)
           /\ j.puts = task[t].puts /\ j.before = task[t].before
           /\ j.handler # "execute" => j.at = "run" /\ j.adds = task[t].adds
           /\ j.handler = "execute" => j.at = "add"
<1> DEFINE i == task[t]
           x == Head(i.txs)
           rest == Tail(i.txs)
           adds == IF i.handler = "execute" THEN <<<<<<x>>>>>> ELSE i.adds
           at == IF i.handler = "execute" THEN "add" ELSE "run"
           j == NextTx(i, rest, at, adds)
<1>1. x \in Txs /\ rest \in Payload
  BY JobFields DEF Payload
<1>2. <<<<<<x>>>>>> \in Seq(Filled)
  <2> HIDE DEF x
  <2>1. <<x>> \in Payload
    BY <1>1 DEF Payload
  <2>2. <<<<x>>>> \in Filled
    BY <2>1 DEF Filled, Block
  <2> QED
    BY <2>2
<1>3. adds \in Seq(Filled) /\ at \in Label
  BY <1>2, JobFields DEF Label
<1>4. task' = [task EXCEPT ![t] = j]
  BY DEF Executed, Runs, TaskTyped, NextTx
<1>5. /\ i.handler # "execute" => at = "run" /\ adds = i.adds
      /\ i.handler = "execute" => at = "add" /\ adds = <<<<<<x>>>>>>
  OBVIOUS
<1>6. i \in Job /\ JobFits(i)
  OBVIOUS
<1> HIDE DEF i, rest, adds, at, x
<1>7. /\ j \in Job
      /\ j.at = at /\ j.handler = i.handler /\ j.txs = rest /\ j.adds = adds
      /\ j.puts = i.puts /\ j.before = i.before
  BY <1>1, <1>3, <1>6, NextTxJob
<1> HIDE DEF j
<1>8. JobFits(j)
  BY <1>1, <1>5, <1>6, <1>7 DEF JobFits
<1> QED
  BY <1>4, <1>5, <1>7, <1>8 DEF i, rest

-----------------------------------------------------------------------------
(* Blocks and their transactions.                                          *)

\* What is selected from a sequence over T is over T.
LEMMA SelectType ==
  ASSUME NEW T, NEW s \in Seq(T), NEW S
  PROVE  Select(s, S) \in Seq(T)
<1>1. PICK f \in [0..Len(s) -> Seq(T)] : Selects(f, s, S) /\ Select(s, S) = f[Len(s)]
  BY SelectSteps
<1>2. Len(s) \in 0..Len(s)
  OBVIOUS
<1> QED
  BY <1>1, <1>2

\* A block that is not the genesis block has a parent and a payload.
LEMMA BlockParts ==
  ASSUME NEW b \in Filled
  PROVE  b \in Block /\ Last(b) \in Payload
<1>1. b \in Seq(Payload) /\ Len(b) \in Nat \ {0}
  BY EmptySeq DEF Filled, Block
<1>2. Len(b) \in 1..Len(b)
  BY <1>1
<1> QED
  BY <1>1, <1>2, ElementOfSeq DEF Last, Block

\* The transactions of a batch contain those of each of its blocks.
LEMMA TxsOfBatch ==
  ASSUME NEW bs \in Seq(Filled)
  PROVE  /\ TxsOf(bs) \in Payload
         /\ \A i \in DOMAIN bs : \A j \in DOMAIN Last(bs[i]) :
              Contains(TxsOf(bs), Last(bs[i])[j])
<1> DEFINE s == [i \in DOMAIN bs |-> Last(bs[i])]
<1>1. \A i \in DOMAIN bs : Last(bs[i]) \in Seq(Txs)
  BY BlockParts, ElementOfSeq DEF Payload
<1>2. s \in Seq(Seq(Txs)) /\ Len(s) = Len(bs) /\ DOMAIN bs = 1..Len(s)
  BY <1>1
<1>3. \A i \in DOMAIN bs : s[i] = Last(bs[i]) /\ DOMAIN Last(bs[i]) = 1..Len(s[i])
  BY <1>1
<1>4. TxsOf(bs) = FlattenSeq(s)
  BY DEF TxsOf
<1> HIDE DEF s
<1>5. /\ FlattenSeq(s) \in Seq(Txs)
      /\ \A i \in 1..Len(s) : \A j \in 1..Len(s[i]) : Contains(FlattenSeq(s), s[i][j])
  BY <1>2, FlattenFacts
<1> QED
  BY <1>2, <1>3, <1>4, <1>5 DEF Payload

\* The blocks before the first broken link are blocks of the batch.
LEMMA LinkedType ==
  ASSUME NEW bs \in Seq(Filled)
  PROVE  Linked(bs) \in Seq(Filled)
<1> DEFINE S == BrokenLinks(bs)
<1>1. CASE S = {}
  BY <1>1 DEF Linked
<1>2. CASE S # {}
  <2>1. S \subseteq Nat /\ \A i \in S : i \in 2..Len(bs)
    BY DEF BrokenLinks
  <2> DEFINE n == Min(S) - 1
  <2>2. Linked(bs) = SubSeq(bs, 1, n)
    BY <1>2 DEF Linked
  <2> HIDE DEF S
  <2>3. Min(S) \in S
    BY <1>2, <2>1, LeastMember DEF Min
  <2>4. n \in 1..Len(bs)
    <3>1. PICK m \in S : m = Min(S)
      BY <2>3
    <3>2. m \in 2..Len(bs) /\ n = m - 1
      BY <2>1, <3>1
    <3> QED
      BY <3>2
  <2> HIDE DEF n
  <2>5. \A i \in 1..n : bs[i] \in Filled
    BY <2>4
  <2> QED
    BY <2>2, <2>4, <2>5, SubSeqProperties
<1> QED
  BY <1>1, <1>2

-----------------------------------------------------------------------------
(* The types are inductive.                                                *)

\* What Get does to the job.
LEMMA GetJob ==
  ASSUME NEW i \in Job, NEW v \in Value
  PROVE  LET j == [i EXCEPT !.at = "put", !.read = v] IN
           /\ j \in Job
           /\ j.at = "put" /\ j.handler = i.handler /\ j.txs = i.txs /\ j.adds = i.adds
           /\ j.read = v /\ j.puts = i.puts /\ j.before = i.before
BY DEF Job, Label

\* What the start of a Commit does to the job.
LEMMA CommitJob ==
  ASSUME NEW i \in Job, NEW p \in Stagings
  PROVE  LET j == [i EXCEPT !.at = "commit", !.puts = p] IN
           /\ j \in Job
           /\ j.at = "commit" /\ j.handler = i.handler /\ j.txs = i.txs /\ j.adds = i.adds
           /\ j.puts = p /\ j.before = i.before
BY DEF Job, Label

\* What a SetData of Commit does to the job.
LEMMA PutJob ==
  ASSUME NEW i \in Job, NEW p \in Stagings
  PROVE  LET j == [i EXCEPT !.puts = p] IN
           /\ j \in Job
           /\ j.at = i.at /\ j.handler = i.handler /\ j.txs = i.txs /\ j.adds = i.adds
           /\ j.puts = p /\ j.before = i.before
BY DEF Job

\* A member of Stagings has keys and values.
LEMMA StagingParts ==
  ASSUME NEW f \in Stagings
  PROVE  /\ DOMAIN f \subseteq Keys
         /\ \A k \in DOMAIN f : f[k] \in Value
         /\ f = [k \in DOMAIN f |-> f[k]]
BY DEF Stagings

\* And whatever has them is one.
LEMMA StagingMade ==
  ASSUME NEW K, K \subseteq Keys, NEW f \in [K -> Value]
  PROVE  f \in Stagings
BY DEF Stagings

\* GetState returns a value.
LEMMA GetStateType ==
  ASSUME TypeInv, NEW k \in Keys
  PROVE  GetState(k) \in Value
BY StagingParts DEF TypeInv, GetState

\* Storing blocks keeps the blocks typed.
LEMMA PutTyped ==
  ASSUME TypeInv, NEW h \in Handler, NEW bs \in Seq(Block)
  PROVE  Put(h, bs) \in UNION {[S -> Handler] : S \in SUBSET Block}
<1>1. PICK S \in SUBSET Block : blocks \in [S -> Handler]
  BY DEF TypeInv
<1>2. Range(bs) \subseteq Block
  BY RangeOfSeq
<1>3. Put(h, bs) \in [(S \cup Range(bs)) -> Handler]
  <2>1. \A b \in S : blocks[b] \in Handler
    BY <1>1
  <2> QED
    BY <1>1, <2>1 DEF Put, Stored
<1> QED
  BY <1>1, <1>2, <1>3

\* The steps that begin a handler keep the types.
LEMMA StartTypes ==
  ASSUME TypeInv, NEW t \in Threads,
         \/ \E tx \in Local : ExecuteStart(t, tx)
         \/ \E b \in Offered : NewBlockStart(t, b)
         \/ \E batch \in Batches : SendChainStart(t, batch)
  PROVE  TypeInv'
<1>1. TaskTyped
  BY DEF TypeInv
<1>2. CASE \E tx \in Local : ExecuteStart(t, tx)
  <2>1. PICK tx \in Local : ExecuteStart(t, tx)
    BY <1>2
  <2>2. <<tx>> \in Payload /\ <<>> \in Seq(Filled)
    BY StateAssumption DEF Payload
  <2>3. Begin(t, "execute", <<tx>>, <<>>) /\ "execute" \in Handler
    BY <2>1 DEF ExecuteStart, Handler
  <2>4. PICK j \in Job : task' = [task EXCEPT ![t] = j] /\ JobFits(j)
    BY <2>2, <2>3, BeginJob
  <2>5. TaskTyped'
    BY <1>1, <2>4, TaskSet
  <2> QED
    BY <2>1, <2>5 DEF TypeInv, ExecuteStart, store
<1>3. CASE \E b \in Offered : NewBlockStart(t, b)
  <2>1. PICK b \in Offered : NewBlockStart(t, b)
    BY <1>3
  <2>2. b \in Filled /\ Last(b) \in Payload
    BY StateAssumption, BlockParts DEF Filled
  <2>3. <<b>> \in Seq(Filled) /\ <<b>> # <<>>
    BY <2>2
  <2>4. Begin(t, "newBlock", Last(b), <<b>>) /\ "newBlock" \in Handler
    BY <2>1 DEF NewBlockStart, Handler
  <2>5. PICK j \in Job : task' = [task EXCEPT ![t] = j] /\ JobFits(j)
    BY <2>2, <2>3, <2>4, BeginJob
  <2>6. TaskTyped'
    BY <1>1, <2>5, TaskSet
  <2>7. staging' \in Stagings
    <3>1. Nothing \in [{} -> Value] /\ {} \subseteq Keys
      BY DEF Nothing
    <3> QED
      BY <2>1, <3>1, StagingMade DEF NewBlockStart
  <2> QED
    BY <2>1, <2>6, <2>7 DEF TypeInv, NewBlockStart, store
<1>4. CASE \E batch \in Batches : SendChainStart(t, batch)
  <2>1. PICK batch \in Batches : SendChainStart(t, batch)
    BY <1>4
  <2>2. batch \in Seq(Filled) /\ batch # <<>>
    BY <2>1, StateAssumption DEF Filled, SendChainStart
  <2>3. TxsOf(Linked(batch)) \in Payload
    BY <2>2, LinkedType, TxsOfBatch
  <2>4. Begin(t, "sendChain", TxsOf(Linked(batch)), batch) /\ "sendChain" \in Handler
    BY <2>1 DEF SendChainStart, Handler
  <2>5. PICK j \in Job : task' = [task EXCEPT ![t] = j] /\ JobFits(j)
    BY <2>2, <2>3, <2>4, BeginJob
  <2>6. TaskTyped'
    BY <1>1, <2>5, TaskSet
  <2> QED
    BY <2>1, <2>6 DEF TypeInv, SendChainStart, store
<1> QED
  BY <1>2, <1>3, <1>4

\* The steps that execute a transaction keep the types.
LEMMA ExecuteTypes ==
  ASSUME TypeInv, NEW t \in Threads,
         SetCaller(t) \/ Refuse(t) \/ CallMethod(t) \/ Get(t) \/ Save(t)
  PROVE  TypeInv'
<1>1. TaskTyped
  BY DEF TypeInv
<1>2. CASE SetCaller(t)
  <2>1. task[t] \in Job /\ JobFits(task[t]) /\ task[t].txs # <<>>
    BY <1>1, <1>2, Busy DEF SetCaller, At
  <2>2. Goto(t, "check") /\ "check" \in Label
    BY <1>2 DEF SetCaller, Label
  <2>3. PICK j \in Job :
           /\ task' = [task EXCEPT ![t] = j]
           /\ j.at = "check" /\ j.handler = task[t].handler /\ j.txs = task[t].txs
           /\ j.adds = task[t].adds
    BY <1>1, <2>1, <2>2, GotoJob
  <2>4. JobFits(j)
    BY <2>1, <2>3 DEF JobFits
  <2>5. TaskTyped'
    BY <1>1, <2>3, <2>4, TaskSet
  <2>6. caller' \in Permissions \cup {Unknown}
    <3>1. Head(task[t].txs) \in Txs
      BY <2>1, JobFields DEF Payload
    <3> QED
      BY <1>2, <3>1, StateAssumption DEF SetCaller
  <2> QED
    BY <1>2, <2>5, <2>6 DEF TypeInv, SetCaller, store
<1>3. CASE Refuse(t)
  <2>1. TaskTyped'
    BY <1>1, <1>3, TaskSet DEF Refuse, Return
  <2> QED
    BY <1>3, <2>1 DEF TypeInv, Refuse, store
<1>4. CASE CallMethod(t)
  <2>1. task[t] \in Job /\ JobFits(task[t]) /\ task[t].txs # <<>>
    BY <1>1, <1>4, Busy DEF CallMethod, At, JobFits
  <2>2. CASE Goto(t, "call")
    <3>1. PICK j \in Job :
             /\ task' = [task EXCEPT ![t] = j]
             /\ j.at = "call" /\ j.handler = task[t].handler /\ j.txs = task[t].txs
             /\ j.adds = task[t].adds
      BY <1>1, <2>1, <2>2, GotoJob DEF Label
    <3>2. JobFits(j)
      BY <2>1, <3>1 DEF JobFits
    <3> QED
      BY <1>1, <1>4, <3>1, <3>2, TaskSet DEF TypeInv, CallMethod, store
  <2>3. CASE Executed(t)
    <3>1. PICK j \in Job : task' = [task EXCEPT ![t] = j] /\ JobFits(j)
      BY <1>1, <2>1, <2>3, ExecutedJob
    <3> QED
      BY <1>1, <1>4, <3>1, TaskSet DEF TypeInv, CallMethod, store
  <2> QED
    BY <1>4, <2>2, <2>3 DEF CallMethod
<1>5. CASE Get(t)
  <2>1. task[t] \in Job /\ JobFits(task[t]) /\ task[t].txs # <<>>
    BY <1>1, <1>5, Busy DEF Get, At, JobFits
  <2> DEFINE v == GetState(KeyOf[Head(task[t].txs)])
             j == [task[t] EXCEPT !.at = "put", !.read = v]
  <2>2. v \in Value
    <3>1. Head(task[t].txs) \in Txs
      BY <2>1, JobFields DEF Payload
    <3>2. KeyOf[Head(task[t].txs)] \in Keys
      BY <3>1, StateAssumption
    <3> QED
      BY <3>2, GetStateType
  <2>3. task' = [task EXCEPT ![t] = j]
    BY <1>5, <1>1 DEF Get, TaskTyped
  <2> HIDE DEF v
  <2>4. j \in Job /\ j.at = "put" /\ j.handler = task[t].handler /\ j.txs = task[t].txs
        /\ j.adds = task[t].adds
    BY <2>1, <2>2, GetJob
  <2> HIDE DEF j
  <2>5. JobFits(j)
    BY <2>1, <2>4 DEF JobFits
  <2> QED
    BY <1>1, <1>5, <2>3, <2>4, <2>5, TaskSet DEF TypeInv, Get, store
<1>6. CASE Save(t)
  <2>1. task[t] \in Job /\ JobFits(task[t]) /\ task[t].txs # <<>>
    BY <1>1, <1>6, Busy DEF Save, At, JobFits
  <2>2. PICK j \in Job : task' = [task EXCEPT ![t] = j] /\ JobFits(j)
    BY <1>1, <1>6, <2>1, ExecutedJob DEF Save
  <2>3. staging' \in Stagings
    <3> DEFINE tx == Head(task[t].txs)
               k == KeyOf[tx]
               v == Append(task[t].read, tx)
    <3>1. tx \in Txs
      BY <2>1, JobFields DEF Payload
    <3>2. k \in Keys /\ v \in Value
      BY <2>1, <3>1, StateAssumption, JobFields, AppendProperties DEF Value
    <3>3. staging' = [l \in DOMAIN staging \cup {k} |-> IF l = k THEN v ELSE staging[l]]
      BY <1>6 DEF Save, PutState
    <3> HIDE DEF k, v
    <3>4. DOMAIN staging \subseteq Keys /\ \A l \in DOMAIN staging : staging[l] \in Value
      BY StagingParts DEF TypeInv
    <3>5. staging' \in [(DOMAIN staging \cup {k}) -> Value]
      BY <3>2, <3>3, <3>4
    <3> QED
      BY <3>2, <3>4, <3>5, StagingMade
  <2> QED
    BY <1>1, <1>6, <2>2, <2>3, TaskSet DEF TypeInv, Save, store
<1> QED
  BY <1>2, <1>3, <1>4, <1>5, <1>6

\* The steps of RunEnd and Commit keep the types.
LEMMA CommitTypes ==
  ASSUME TypeInv, NEW t \in Threads, RunEnd(t) \/ CommitKey(t) \/ CommitEnd(t)
  PROVE  TypeInv'
<1>1. TaskTyped /\ staging \in Stagings
  BY DEF TypeInv
<1>2. CASE RunEnd(t)
  <2>1. task[t] \in Job /\ JobFits(task[t])
    BY <1>1, <1>2, Busy DEF RunEnd, At
  <2> DEFINE i == task[t]
             j == [i EXCEPT !.at = "commit", !.puts = staging]
  <2>2. CASE Runs(t, "newBlock") /\ task' = [task EXCEPT ![t] = j]
    <3>1. /\ j \in Job
          /\ j.at = "commit" /\ j.handler = i.handler /\ j.txs = i.txs /\ j.adds = i.adds
      BY <1>1, <2>1, CommitJob
    <3> HIDE DEF j
    <3>2. JobFits(j)
      BY <2>1, <3>1 DEF JobFits
    <3> QED
      BY <1>1, <1>2, <2>2, <3>1, <3>2, TaskSet DEF TypeInv, RunEnd, store
  <2>3. CASE Runs(t, "sendChain") /\ Goto(t, "add")
    <3>1. PICK a \in Job :
             /\ task' = [task EXCEPT ![t] = a]
             /\ a.at = "add" /\ a.handler = task[t].handler /\ a.adds = task[t].adds
      BY <1>1, <2>1, <2>3, GotoJob DEF Label
    <3>2. JobFits(a)
      BY <2>1, <2>3, <3>1 DEF JobFits, Runs
    <3> QED
      BY <1>1, <1>2, <3>1, <3>2, TaskSet DEF TypeInv, RunEnd, store
  <2>4. CASE Return(t)
    BY <1>1, <1>2, <2>4, TaskSet DEF TypeInv, RunEnd, store, Return
  <2>5. \/ Runs(t, "newBlock") /\ task' = [task EXCEPT ![t] = j]
        \/ Runs(t, "sendChain") /\ Goto(t, "add")
        \/ Return(t)
    BY <1>1, <1>2 DEF RunEnd, TaskTyped
  <2> QED
    BY <2>2, <2>3, <2>4, <2>5
<1>3. CASE CommitKey(t)
  <2>1. task[t] \in Job /\ JobFits(task[t])
    BY <1>1, <1>3, Busy DEF CommitKey, At
  <2>2. PICK k \in Uncommitted(t) :
           \/ /\ db' = [db EXCEPT ![k] = task[t].puts[k]]
              /\ task' = [task EXCEPT ![t].puts =
                             [l \in Uncommitted(t) \ {k} |-> task[t].puts[l]]]
           \/ Return(t) /\ UNCHANGED db
    BY <1>3 DEF CommitKey
  <2> DEFINE i == task[t]
             rest == [l \in Uncommitted(t) \ {k} |-> i.puts[l]]
             j == [i EXCEPT !.puts = rest]
  <2>3. DOMAIN i.puts \subseteq Keys /\ \A l \in DOMAIN i.puts : i.puts[l] \in Value
    BY <2>1, JobFields, StagingParts
  <2>4. CASE db' = [db EXCEPT ![k] = i.puts[k]] /\ task' = [task EXCEPT ![t] = j]
    <3>1. rest \in Stagings
      <4>1. rest \in [(Uncommitted(t) \ {k}) -> Value] /\ Uncommitted(t) \ {k} \subseteq Keys
        BY <2>3 DEF Uncommitted
      <4> HIDE DEF rest
      <4> QED
        BY <4>1, StagingMade
    <3>2. db' \in [Keys -> Value]
      BY <2>3, <2>4 DEF TypeInv, Uncommitted
    <3> HIDE DEF rest
    <3>3. /\ j \in Job
          /\ j.at = i.at /\ j.handler = i.handler /\ j.txs = i.txs /\ j.adds = i.adds
      BY <2>1, <3>1, PutJob
    <3> HIDE DEF j
    <3>4. JobFits(j)
      BY <2>1, <3>3 DEF JobFits
    <3>5. TaskTyped'
      BY <1>1, <2>4, <3>3, <3>4, TaskSet
    <3> QED
      BY <1>3, <3>2, <3>5 DEF TypeInv, CommitKey, store
  <2>5. CASE Return(t) /\ UNCHANGED db
    BY <1>1, <1>3, <2>5, TaskSet DEF TypeInv, CommitKey, store, Return
  <2>6. \/ db' = [db EXCEPT ![k] = i.puts[k]] /\ task' = [task EXCEPT ![t] = j]
        \/ Return(t) /\ UNCHANGED db
    BY <1>1, <2>2 DEF TaskTyped
  <2> QED
    BY <2>4, <2>5, <2>6
<1>4. CASE CommitEnd(t)
  <2>1. task[t] \in Job /\ JobFits(task[t])
    BY <1>1, <1>4, Busy DEF CommitEnd, At
  <2>2. staging' \in Stagings
    <3>1. Nothing \in [{} -> Value] /\ {} \subseteq Keys
      BY DEF Nothing
    <3> QED
      BY <1>4, <3>1, StagingMade DEF CommitEnd
  <2>3. CASE Runs(t, "newBlock") /\ Goto(t, "add") /\ UNCHANGED pool
    <3>1. PICK j \in Job :
             /\ task' = [task EXCEPT ![t] = j]
             /\ j.at = "add" /\ j.handler = task[t].handler /\ j.adds = task[t].adds
      BY <1>1, <2>1, <2>3, GotoJob DEF Label
    <3>2. JobFits(j)
      BY <2>1, <2>3, <3>1 DEF JobFits, Runs
    <3>3. TaskTyped'
      BY <1>1, <3>1, <3>2, TaskSet
    <3> QED
      BY <1>4, <2>2, <2>3, <3>3 DEF TypeInv, CommitEnd, store
  <2>4. CASE Return(t) /\ RemoveIncluded(task[t].adds)
    <3>1. pool' \in Payload
      BY <2>4, SelectType DEF RemoveIncluded, Payload, TypeInv
    <3>2. TaskTyped'
      BY <1>1, <2>4, TaskSet DEF Return
    <3> QED
      BY <1>4, <2>2, <3>1, <3>2 DEF TypeInv, CommitEnd, store
  <2> QED
    BY <1>4, <2>3, <2>4 DEF CommitEnd
<1> QED
  BY <1>2, <1>3, <1>4

\* What a pool releases, or keeps, is typed.
LEMMA AddTxTypes ==
  ASSUME TypeInv, NEW tx \in Txs, AddTx(tx)
  PROVE  /\ pool' \in Payload /\ chain' \in Block
         /\ blocks' \in UNION {[S -> Handler] : S \in SUBSET Block}
<1>1. pool \in Payload /\ chain \in Block
  BY DEF TypeInv
<1>2. Append(pool, tx) \in Payload
  BY <1>1, AppendProperties DEF Payload
<1>3. CASE pool' = Append(pool, tx) /\ UNCHANGED store
  BY <1>2, <1>3 DEF TypeInv, store
<1>4. CASE pool' # Append(pool, tx) \/ ~ UNCHANGED store
  <2> DEFINE b == Append(chain, Append(pool, tx))
  <2>1. /\ blocks' = Put("execute", <<b>>) /\ chain' = b /\ pool' = <<>>
    BY <1>4 DEF AddTx
  <2>2. b \in Block
    BY <1>1, <1>2, AppendProperties DEF Block
  <2> HIDE DEF b
  <2>3. <<b>> \in Seq(Block) /\ "execute" \in Handler
    BY <2>2 DEF Handler
  <2>4. Put("execute", <<b>>) \in UNION {[S -> Handler] : S \in SUBSET Block}
    BY <2>3, PutTyped
  <2>5. <<>> \in Payload
    BY EmptySeq DEF Payload
  <2> QED
    BY <2>1, <2>2, <2>4, <2>5
<1> QED
  BY <1>3, <1>4

\* The steps that extend the chain keep the types.
LEMMA AddTypes ==
  ASSUME TypeInv, NEW t \in Threads,
         \/ AddBlock(t) \/ AddBlocks(t) \/ AddExecuted(t)
         \/ \E tx \in Gossiped : Transaction(t, tx)
  PROVE  TypeInv'
<1>1. TaskTyped /\ staging \in Stagings
  BY DEF TypeInv
<1>2. CASE AddBlock(t)
  <2>1. task[t] \in Job /\ JobFits(task[t]) /\ task[t].adds # <<>>
    BY <1>1, <1>2, Busy DEF AddBlock, At, Runs, JobFits
  <2> DEFINE b == task[t].adds[1]
  <2>2. b \in Filled /\ b \in Block
    <3>1. task[t].adds \in Seq(Filled) /\ 1 \in 1..Len(task[t].adds)
      BY <2>1, JobFields, EmptySeq
    <3> QED
      BY <3>1, ElementOfSeq DEF Filled
  <2>3. \/ RemoveIncluded(<<b>>) /\ UNCHANGED store
        \/ blocks' = Put("newBlock", <<b>>) /\ chain' = b /\ RemoveIncluded(<<b>>)
        \/ UNCHANGED <<store, pool>>
    BY <1>2 DEF AddBlock
  <2> HIDE DEF b
  <2>4. Put("newBlock", <<b>>) \in UNION {[S -> Handler] : S \in SUBSET Block}
    <3>1. <<b>> \in Seq(Block) /\ "newBlock" \in Handler
      BY <2>2 DEF Handler
    <3> QED
      BY <3>1, PutTyped
  <2>5. Select(pool, Txs \ ToSet(TxsOf(<<b>>))) \in Payload
    BY SelectType DEF TypeInv, Payload
  <2>6. /\ pool' \in Payload /\ chain' \in Block
        /\ blocks' \in UNION {[S -> Handler] : S \in SUBSET Block}
    BY <2>2, <2>3, <2>4, <2>5 DEF RemoveIncluded, store, TypeInv
  <2>7. TaskTyped'
    BY <1>1, <1>2, TaskSet DEF AddBlock, Return
  <2> QED
    BY <1>2, <2>6, <2>7 DEF TypeInv, AddBlock
<1>3. CASE AddBlocks(t)
  <2>1. task[t] \in Job /\ JobFits(task[t]) /\ task[t].adds # <<>>
    BY <1>1, <1>3, Busy DEF AddBlocks, At, Runs, JobFits
  <2> DEFINE i == task[t]
             bs == i.adds
             j == [i EXCEPT !.at = "commit", !.puts = staging]
  <2>2. \/ /\ blocks' = Put("sendChain", bs)
           /\ chain' = IF Len(Last(bs)) > Len(chain) THEN Last(bs) ELSE chain
           /\ task' = [task EXCEPT ![t] = j]
        \/ UNCHANGED store /\ Return(t)
    BY <1>1, <1>3 DEF AddBlocks, TaskTyped
  <2>3. CASE UNCHANGED store /\ Return(t)
    <3>1. TaskTyped'
      BY <1>1, <2>3, TaskSet DEF Return
    <3> QED
      BY <1>3, <2>3, <3>1 DEF TypeInv, AddBlocks, store
  <2>4. CASE /\ blocks' = Put("sendChain", bs)
             /\ chain' = IF Len(Last(bs)) > Len(chain) THEN Last(bs) ELSE chain
             /\ task' = [task EXCEPT ![t] = j]
    <3>1. /\ j \in Job
          /\ j.at = "commit" /\ j.handler = i.handler /\ j.txs = i.txs /\ j.adds = i.adds
      BY <1>1, <2>1, CommitJob
    <3>2. bs \in Seq(Filled) /\ bs # <<>>
      BY <2>1, JobFields
    <3> HIDE DEF j
    <3>3. JobFits(j)
      BY <2>1, <3>1 DEF JobFits
    <3>4. TaskTyped'
      BY <1>1, <2>4, <3>1, <3>3, TaskSet
    <3> HIDE DEF bs
    <3>5. Last(bs) \in Block /\ bs \in Seq(Block)
      <4>1. Filled \subseteq Block
        BY DEF Filled
      <4>2. bs \in Seq(Block) /\ Len(bs) \in 1..Len(bs)
        BY <3>2, <4>1, SeqMonotonic, EmptySeq
      <4> QED
        BY <4>2, ElementOfSeq DEF Last
    <3>6. Put("sendChain", bs) \in UNION {[S -> Handler] : S \in SUBSET Block}
      BY <3>5, PutTyped DEF Handler
    <3>7. chain' \in Block
      BY <2>4, <3>5 DEF TypeInv
    <3> QED
      BY <1>3, <2>4, <3>4, <3>6, <3>7 DEF TypeInv, AddBlocks
  <2> QED
    BY <2>2, <2>3, <2>4
<1>4. CASE AddExecuted(t)
  <2>1. task[t] \in Job /\ JobFits(task[t])
    BY <1>1, <1>4, Busy DEF AddExecuted, At
  <2>2. PICK tx \in Txs : task[t].adds = <<<<<<tx>>>>>>
    BY <1>4, <2>1 DEF AddExecuted, At, Runs, JobFits
  <2>3. AddTx(tx)
    BY <1>4, <2>2 DEF AddExecuted
  <2>4. /\ pool' \in Payload /\ chain' \in Block
        /\ blocks' \in UNION {[S -> Handler] : S \in SUBSET Block}
    BY <2>3, AddTxTypes
  <2>5. TaskTyped'
    BY <1>1, <1>4, TaskSet DEF AddExecuted, Return
  <2> QED
    BY <1>4, <2>4, <2>5 DEF TypeInv, AddExecuted
<1>5. CASE \E tx \in Gossiped : Transaction(t, tx)
  <2>1. PICK tx \in Gossiped : Transaction(t, tx)
    BY <1>5
  <2>2. tx \in Txs /\ AddTx(tx)
    BY <2>1, StateAssumption DEF Transaction
  <2>3. /\ pool' \in Payload /\ chain' \in Block
        /\ blocks' \in UNION {[S -> Handler] : S \in SUBSET Block}
    BY <2>2, AddTxTypes
  <2> QED
    BY <2>1, <2>3 DEF TypeInv, TaskTyped, Transaction
<1> QED
  BY <1>2, <1>3, <1>4, <1>5

\* A restart leaves what is typed.
LEMMA RestartTypes ==
  ASSUME TypeInv, Restart
  PROVE  TypeInv'
<1>1. Nothing \in Stagings
  <2>1. Nothing \in [{} -> Value] /\ {} \subseteq Keys
    BY DEF Nothing
  <2> QED
    BY <2>1, StagingMade
<1>2. <<>> \in Payload
  BY EmptySeq DEF Payload
<1>3. TaskTyped'
  BY DEF Restart, TaskTyped
<1> QED
  BY <1>1, <1>2, <1>3 DEF TypeInv, Restart, store

\* The initial state is typed.
LEMMA InitTypes ==
  ASSUME Init
  PROVE  TypeInv
<1>1. Nothing \in Stagings
  <2>1. Nothing \in [{} -> Value] /\ {} \subseteq Keys
    BY DEF Nothing
  <2> QED
    BY <2>1, StagingMade
<1>2. <<>> \in Payload /\ <<>> \in Value /\ <<>> \in Block
  BY EmptySeq DEF Payload, Value, Block
<1>3. blocks \in UNION {[S -> Handler] : S \in SUBSET Block}
  <2>1. blocks \in [{<<>>} -> Handler]
    BY DEF Init, Handler
  <2> QED
    BY <1>2, <2>1
<1>4. TaskTyped
  BY DEF Init, TaskTyped
<1> QED
  BY <1>1, <1>2, <1>3, <1>4 DEF TypeInv, Init

\* Every step keeps the types.
LEMMA TypesKept ==
  ASSUME TypeInv, [Next]_vars
  PROVE  TypeInv'
<1>1. CASE Restart
  BY <1>1, RestartTypes
<1>2. ASSUME NEW t \in Threads, Start(t) \/ Proceed(t) PROVE TypeInv'
  <2>1. \/ ((\E tx \in Local : ExecuteStart(t, tx)) \/ (\E b \in Offered : NewBlockStart(t, b))
              \/ (\E batch \in Batches : SendChainStart(t, batch)))
        \/ (SetCaller(t) \/ Refuse(t) \/ CallMethod(t) \/ Get(t) \/ Save(t))
        \/ (RunEnd(t) \/ CommitKey(t) \/ CommitEnd(t))
        \/ (AddBlock(t) \/ AddBlocks(t) \/ AddExecuted(t)
              \/ (\E tx \in Gossiped : Transaction(t, tx)))
    BY <1>2 DEF Start, Proceed
  <2> QED
    BY <2>1, StartTypes, ExecuteTypes, CommitTypes, AddTypes, Zenon
<1>3. CASE UNCHANGED vars
  BY <1>3 DEF vars, TypeInv, TaskTyped
<1> QED
  BY <1>1, <1>2, <1>3 DEF Next

\* What the proofs call typed is what TypeOK says.
LEMMA TypeInvSays ==
  ASSUME TypeInv
  PROVE  TypeOK
<1>1. ASSUME NEW f \in Stagings PROVE IsStaging(f)
  BY StagingParts DEF IsStaging
<1>2. ASSUME NEW t \in Threads, task[t] # Idle PROVE IsTask(task[t])
  <2>1. task[t] \in Job
    BY <1>2 DEF TypeInv, TaskTyped
  <2>2. task[t].adds \in Seq(Block)
    <3>1. Filled \subseteq Block
      BY DEF Filled
    <3> QED
      BY <2>1, <3>1, JobFields, SeqMonotonic
  <2> QED
    BY <1>1, <2>1, <2>2, JobFields DEF IsTask, Label
<1>3. DOMAIN blocks \subseteq Block /\ \A b \in DOMAIN blocks : blocks[b] \in Handler
  BY DEF TypeInv
<1> QED
  BY <1>1, <1>2, <1>3 DEF TypeOK, TypeInv, TaskTyped

\* The variables keep their types, for any number of goroutines.
THEOREM StateTypeCorrect == Spec => []TypeOK
<1>1. Init => TypeInv
  BY InitTypes
<1>2. TypeInv /\ [Next]_vars => TypeInv'
  BY TypesKept
<1>3. TypeInv => TypeOK
  BY TypeInvSays
<1> QED
  BY <1>1, <1>2, <1>3, PTL DEF Spec

-----------------------------------------------------------------------------
(* Values and their prefixes.                                              *)

\* What a prefix is, position by position.
LEMMA PrefixMeans ==
  ASSUME NEW s \in Value, NEW u \in Value
  PROVE  IsPrefix(s, u) <=> Len(s) <= Len(u) /\ \A i \in 1..Len(s) : s[i] = u[i]
<1>1. SubSeq(s, 1, Len(s)) = s
  BY SubSeqFull DEF Value
<1>2. CASE Len(s) <= Len(u)
  <2> DEFINE v == SubSeq(u, 1, Len(s))
  <2>1. \A i \in 1..Len(s) : u[i] \in Txs
    BY <1>2, ElementOfSeq DEF Value
  <2>2. v \in Seq(Txs) /\ Len(v) = Len(s) /\ \A i \in 1..Len(s) : v[i] = u[i]
    BY <2>1, SubSeqProperties DEF Value
  <2> HIDE DEF v
  <2>3. v = s <=> \A i \in 1..Len(s) : s[i] = u[i]
    BY <2>2, SeqEqual DEF Value
  <2> QED
    BY <1>1, <1>2, <2>3 DEF v, IsPrefix
<1>3. CASE ~ (Len(s) <= Len(u))
  BY <1>3 DEF IsPrefix
<1> QED
  BY <1>2, <1>3

\* A value is a prefix of itself and of what extends it.
LEMMA PrefixGrows ==
  ASSUME NEW s \in Value, NEW u \in Value, NEW tx \in Txs, IsPrefix(s, u)
  PROVE  IsPrefix(s, s) /\ IsPrefix(s, Append(u, tx))
<1>1. /\ Append(u, tx) \in Value /\ Len(Append(u, tx)) = Len(u) + 1
      /\ \A i \in 1..Len(u) : Append(u, tx)[i] = u[i]
      /\ Len(s) \in Nat /\ Len(u) \in Nat
  BY AppendProperties DEF Value
<1>2. Len(s) <= Len(u) /\ \A i \in 1..Len(s) : s[i] = u[i]
  BY PrefixMeans
<1> HIDE DEF Value
<1>3. IsPrefix(s, s)
  BY <1>1, PrefixMeans
<1>4. \A i \in 1..Len(s) : s[i] = Append(u, tx)[i]
  BY <1>1, <1>2
<1>5. Len(s) <= Len(Append(u, tx))
  BY <1>1, <1>2
<1>6. IsPrefix(s, Append(u, tx))
  BY <1>1, <1>4, <1>5, PrefixMeans
<1> QED
  BY <1>3, <1>6

\* A value is a prefix of itself.
LEMMA PrefixSame ==
  ASSUME NEW s \in Value
  PROVE  IsPrefix(s, s)
<1>1. Len(s) \in Nat
  BY DEF Value
<1> QED
  BY <1>1, PrefixMeans

\* What a prefix contains, the value contains.
LEMMA PrefixContains ==
  ASSUME NEW s \in Value, NEW u \in Value, IsPrefix(s, u), NEW tx, Contains(s, tx)
  PROVE  Contains(u, tx)
<1>1. PICK i \in 1..Len(s) : s[i] = tx
  BY DEF Contains
<1>2. Len(s) <= Len(u) /\ s[i] = u[i] /\ Len(s) \in Nat /\ Len(u) \in Nat
  BY PrefixMeans DEF Value
<1>3. i \in 1..Len(u)
  BY <1>2
<1> QED
  BY <1>1, <1>2, <1>3 DEF Contains

\* A value with one more write contains this write and those before.
LEMMA AppendContains ==
  ASSUME NEW s \in Value, NEW tx \in Txs
  PROVE  /\ Contains(Append(s, tx), tx)
         /\ \A x : Contains(s, x) => Contains(Append(s, tx), x)
<1>1. /\ Append(s, tx) \in Value /\ Len(Append(s, tx)) = Len(s) + 1 /\ Len(s) \in Nat
      /\ Append(s, tx)[Len(s) + 1] = tx
      /\ \A i \in 1..Len(s) : Append(s, tx)[i] = s[i]
  BY AppendProperties DEF Value
<1>2. Contains(Append(s, tx), tx)
  <2>1. Len(s) + 1 \in 1..Len(Append(s, tx))
    BY <1>1
  <2> QED
    BY <1>1, <2>1 DEF Contains
<1>3. ASSUME NEW x, Contains(s, x) PROVE Contains(Append(s, tx), x)
  <2>1. PICK i \in 1..Len(s) : s[i] = x
    BY <1>3 DEF Contains
  <2>2. i \in 1..Len(Append(s, tx)) /\ Append(s, tx)[i] = x
    BY <1>1, <2>1
  <2> QED
    BY <2>2 DEF Contains
<1> QED
  BY <1>2, <1>3

\* Nothing writes nothing, and a further transaction adds its write, if it is
\* one.
LEMMA WritesNext ==
  ASSUME NEW done \in Payload, NEW tx \in Txs, NEW k \in Keys
  PROVE  /\ Writes(<<>>, k) = <<>>
         /\ Writes(done, k) \in Value
         /\ KeyOf[tx] = k /\ Accepted(tx) =>
              Writes(Append(done, tx), k) = Append(Writes(done, k), tx)
         /\ ~ (KeyOf[tx] = k /\ Accepted(tx)) =>
              Writes(Append(done, tx), k) = Writes(done, k)
<1> DEFINE S == {x \in Txs : KeyOf[x] = k /\ Accepted(x)}
<1>1. Writes(<<>>, k) = <<>>
  BY SelectEmpty DEF Writes
<1>2. tx \in S <=> KeyOf[tx] = k /\ Accepted(tx)
  OBVIOUS
<1>3. /\ Writes(done, k) = Select(done, S)
      /\ Writes(Append(done, tx), k) = Select(Append(done, tx), S)
  BY DEF Writes
<1> HIDE DEF S
<1>4. /\ Select(done, S) \in Seq(Txs)
      /\ Select(Append(done, tx), S) =
           IF tx \in S THEN Append(Select(done, S), tx) ELSE Select(done, S)
  BY SelectAppend DEF Payload
<1> QED
  BY <1>1, <1>2, <1>3, <1>4 DEF Value

\* The first of what is left moves to what is done.
LEMMA OneMoreDone ==
  ASSUME NEW done \in Payload, NEW txs \in Payload, txs # <<>>
  PROVE  /\ Head(txs) \in Txs /\ Tail(txs) \in Payload /\ Append(done, Head(txs)) \in Payload
         /\ done \o txs = Append(done, Head(txs)) \o Tail(txs)
<1> DEFINE h == Head(txs)
           r == Tail(txs)
<1>1. h \in Txs /\ r \in Seq(Txs) /\ txs = <<h>> \o r
  <2>1. /\ h \in Txs /\ r \in Seq(Txs) /\ Len(r) = Len(txs) - 1 /\ txs[1] = h
        /\ Len(txs) \in Nat \ {0}
        /\ \A i \in 1..Len(r) : r[i] = txs[i + 1]
    BY HeadTailProperties, EmptySeq DEF Payload
  <2> HIDE DEF h, r
  <2>2. /\ <<h>> \o r \in Seq(Txs) /\ Len(<<h>> \o r) = Len(txs)
        /\ \A i \in 1..Len(txs) : (<<h>> \o r)[i] = txs[i]
    <3>1. <<h>> \in Seq(Txs) /\ Len(<<h>>) = 1 /\ <<h>>[1] = h
      BY <2>1
    <3>2. <<h>> \o r \in Seq(Txs) /\ Len(<<h>> \o r) = Len(txs)
      BY <2>1, <3>1, ConcatProperties
    <3>3. ASSUME NEW i \in 1..Len(txs) PROVE (<<h>> \o r)[i] = txs[i]
      <4>1. CASE i = 1
        BY <2>1, <3>1, <4>1, ConcatProperties
      <4>2. CASE i # 1
        <5>1. i - 1 \in 1..Len(r) /\ (i - 1) + 1 = i
          BY <2>1, <4>2
        <5>2. r[i - 1] = txs[i]
          BY <2>1, <5>1
        <5>3. (<<h>> \o r)[i] = r[i - 1]
          BY <2>1, <3>1, <4>2, <5>1
        <5> QED
          BY <5>2, <5>3
      <4> QED
        BY <4>1, <4>2
    <3> QED
      BY <3>2, <3>3
  <2> QED
    BY <2>1, <2>2, SeqEqual DEF Payload
<1> HIDE DEF h, r
<1>2. Append(done, h) \in Seq(Txs) /\ Append(done, h) = done \o <<h>>
  BY <1>1, AppendProperties, AppendIsConcat DEF Payload
<1>3. (done \o <<h>>) \o r = done \o (<<h>> \o r)
  <2>1. <<h>> \in Seq(Txs)
    BY <1>1
  <2> QED
    BY <1>1, <2>1, ConcatAssociative DEF Payload
<1>4. h \in Txs /\ r \in Payload /\ Append(done, h) \in Payload
      /\ done \o txs = Append(done, h) \o r
  BY <1>1, <1>2, <1>3 DEF Payload
<1> QED
  BY <1>4 DEF h, r

-----------------------------------------------------------------------------
(* Handlers that take turns: one thread runs them all.  Shown is what a    *)
(* function would see; it changes when something is saved, and when what   *)
(* is staged is thrown away, but not when it is committed.                 *)

Serial(t) == Threads = {t}

\* the transactions a handler of blocks executes
Planned(j) == IF j.handler = "newBlock" THEN Last(j.adds[1]) ELSE TxsOf(Linked(j.adds))

Shown(tx) == ~ Accepted(tx) \/ Contains(GetState(KeyOf[tx]), tx)

\* what is done is shown, and of a NEW_BLOCK nothing else is
Progress(j) ==
    \E done \in Payload :
        /\ Planned(j) = done \o j.txs
        /\ \A i \in DOMAIN done : Shown(done[i])
        /\ j.handler = "newBlock" =>
             \A k \in Keys : GetState(k) = j.before[k] \o Writes(done, k)

\* what is committed already is what is staged
Committing(j) ==
    /\ j.handler # "execute"
    /\ DOMAIN j.puts \subseteq DOMAIN staging
    /\ \A k \in DOMAIN staging :
         IF k \in DOMAIN j.puts THEN j.puts[k] = staging[k] ELSE db[k] = staging[k]

SerialJob(j) ==
    /\ j.handler # "execute" => Progress(j)
    /\ j.at = "check" => caller = Permission[Head(j.txs)]
    /\ j.at \in {"call", "put"} => Accepted(Head(j.txs))
    /\ j.at = "put" => j.read = GetState(KeyOf[Head(j.txs)])
    /\ j.at \in {"commit", "add"} /\ j.handler # "execute" => j.txs = <<>>
    /\ j.at \in {"commit", "add"} /\ j.handler = "sendChain" => BrokenLinks(j.adds) = {}
    /\ j.at = "add" /\ j.handler = "newBlock" => staging = Nothing
    /\ j.at = "commit" => Committing(j)

\* what is staged builds on what is committed
StagedOnTop == \A k \in Keys : IsPrefix(db[k], GetState(k))

StateGood == StagedOnTop /\ NewBlockApplied

SerialInv(t) == TypeInv /\ StateGood /\ (task[t] # Idle => SerialJob(task[t]))

\* A step changes the database in CommitKey only, where what is staged goes
\* on top of it.
LEMMA DatabaseGrows ==
  ASSUME NEW t, Serial(t), SerialInv(t), [Next]_vars
  PROVE  \A k \in Keys : IsPrefix(db[k], db'[k])
<1>1. CASE UNCHANGED db
  <2>1. ASSUME NEW k \in Keys PROVE db[k] \in Value /\ db'[k] = db[k]
    BY <1>1 DEF SerialInv, TypeInv
  <2> QED
    BY <2>1, PrefixSame
<1>2. CASE CommitKey(t)
  <2>1. t \in Threads /\ TaskTyped /\ task[t].at = "commit"
    BY <1>2 DEF Serial, SerialInv, TypeInv, CommitKey, At
  <2>2. task[t] \in Job /\ Committing(task[t])
    <3>1. task[t] \in Job
      BY <2>1, Busy
    <3> QED
      BY <2>1, <3>1, JobIsBusy DEF SerialInv, SerialJob
  <2>3. PICK k \in Uncommitted(t) : db' = [db EXCEPT ![k] = task[t].puts[k]] \/ UNCHANGED db
    BY <1>2 DEF CommitKey
  <2>4. k \in DOMAIN staging /\ task[t].puts[k] = staging[k] /\ staging \in Stagings
    BY <2>2 DEF Committing, Uncommitted, SerialInv, TypeInv
  <2>5. k \in Keys /\ task[t].puts[k] = GetState(k)
    BY <2>4, StagingParts DEF GetState
  <2>6. ASSUME NEW l \in Keys, db' = [db EXCEPT ![k] = task[t].puts[k]]
        PROVE  IsPrefix(db[l], db'[l])
    <3>1. CASE l = k
      <4>1. db'[l] = GetState(l)
        BY <2>5, <2>6, <3>1 DEF SerialInv, TypeInv
      <4> QED
        BY <4>1 DEF SerialInv, StateGood, StagedOnTop
    <3>2. CASE l # k
      <4>1. db'[l] = db[l] /\ db[l] \in Value
        BY <2>6, <3>2 DEF SerialInv, TypeInv
      <4> QED
        BY <4>1, PrefixSame
    <3> QED
      BY <3>1, <3>2
  <2> QED
    BY <1>1, <2>3, <2>6
<1>3. CommitKey(t) \/ UNCHANGED db
  <2>1. CASE Restart
    BY <2>1 DEF Restart
  <2>2. CASE UNCHANGED vars
    BY <2>2 DEF vars
  <2>3. CASE Start(t) \/ Proceed(t)
    BY <2>3 DEF Start, Proceed, ExecuteStart, Transaction, NewBlockStart, SendChainStart,
                SetCaller, Refuse, CallMethod, Get, Save, RunEnd, CommitEnd, AddBlock,
                AddBlocks, AddExecuted
  <2> QED
    BY <2>1, <2>2, <2>3 DEF Next, Serial
<1> QED
  BY <1>1, <1>2, <1>3

\* What is applied stays applied.
LEMMA AppliedStays ==
  ASSUME TypeInv, TypeInv', \A k \in Keys : IsPrefix(db[k], db'[k]),
         NEW b \in Filled, AppliedAll(b)
  PROVE  AppliedAll(b)'
<1>1. ASSUME NEW tx \in Txs, Applied(tx) PROVE Applied(tx)'
  <2> DEFINE k == KeyOf[tx]
  <2>1. k \in Keys
    BY StateAssumption
  <2>2. db[k] \in Value /\ db'[k] \in Value /\ IsPrefix(db[k], db'[k])
    BY <2>1 DEF TypeInv
  <2>3. Contains(db[k], tx) => Contains(db'[k], tx)
    BY <2>2, PrefixContains
  <2> QED
    BY <1>1, <2>3 DEF Applied, Accepted
<1>2. \A i \in DOMAIN Last(b) : Last(b)[i] \in Txs
  BY BlockParts DEF Payload
<1> QED
  BY <1>1, <1>2 DEF AppliedAll

\* So only a block that NEW_BLOCK adds is a new obligation.
LEMMA NewBlockStays ==
  ASSUME TypeInv, TypeInv', \A k \in Keys : IsPrefix(db[k], db'[k]), NewBlockApplied,
         \A b \in DOMAIN blocks' \ {<<>>} :
            blocks'[b] = "newBlock" =>
               (b \in DOMAIN blocks /\ blocks[b] = "newBlock") \/ AppliedAll(b)'
  PROVE  NewBlockApplied'
<1>1. ASSUME NEW b \in DOMAIN blocks' \ {<<>>}, blocks'[b] = "newBlock" PROVE AppliedAll(b)'
  <2>1. CASE b \in DOMAIN blocks /\ blocks[b] = "newBlock"
    <3>1. b \in Filled
      BY <2>1 DEF TypeInv, Filled
    <3>2. AppliedAll(b)
      BY <2>1 DEF NewBlockApplied, Stored
    <3> QED
      BY <3>1, <3>2, AppliedStays
  <2> QED
    BY <1>1, <2>1
<1> QED
  BY <1>1 DEF NewBlockApplied, Stored

\* SerialInv after a step that gives t the job j, or ends its job.
LEMMA SerialSet ==
  ASSUME NEW t, Serial(t), SerialInv(t), TypeInv', StateGood', NEW j,
         task' = [task EXCEPT ![t] = j], j # Idle => SerialJob(j)'
  PROVE  SerialInv(t)'
<1>1. task'[t] = j
  BY DEF Serial, SerialInv, TypeInv, TaskTyped
<1>2. (task[t] # Idle)' => SerialJob(task[t])'
  BY <1>1
<1> QED
  BY <1>2 DEF SerialInv

\* What holds while the one thread runs.
LEMMA SerialFacts ==
  ASSUME NEW t, Serial(t), SerialInv(t)
  PROVE  /\ t \in Threads /\ TaskTyped /\ staging \in Stagings /\ db \in [Keys -> Value]
         /\ \A k \in Keys : GetState(k) \in Value
         /\ task[t].at # "idle" =>
              task[t] \in Job /\ JobFits(task[t]) /\ SerialJob(task[t])
<1>1. t \in Threads /\ TaskTyped /\ staging \in Stagings /\ db \in [Keys -> Value] /\ TypeInv
  BY DEF Serial, SerialInv, TypeInv
<1>2. \A k \in Keys : GetState(k) \in Value
  BY <1>1, GetStateType
<1>3. task[t].at # "idle" => task[t] \in Job /\ JobFits(task[t]) /\ SerialJob(task[t])
  BY <1>1, Busy, JobIsBusy DEF SerialInv
<1> QED
  BY <1>1, <1>2, <1>3

\* A step after which everything is seen as before, on top of the database.
LEMMA ViewKept ==
  ASSUME NEW t, Serial(t), SerialInv(t), [Next]_vars,
         \A k \in Keys : GetState(k)' = GetState(k) /\ IsPrefix(db'[k], GetState(k)),
         \A b \in DOMAIN blocks' \ {<<>>} :
            blocks'[b] = "newBlock" =>
               (b \in DOMAIN blocks /\ blocks[b] = "newBlock") \/ AppliedAll(b)'
  PROVE  StateGood'
<1>1. TypeInv /\ TypeInv' /\ NewBlockApplied
  BY TypesKept DEF SerialInv, StateGood
<1>2. NewBlockApplied'
  BY <1>1, DatabaseGrows, NewBlockStays
<1>3. StagedOnTop'
  <2>1. \A k \in Keys : IsPrefix(db'[k], GetState(k)')
    OBVIOUS
  <2> QED
    BY <2>1 DEF StagedOnTop
<1> QED
  BY <1>2, <1>3 DEF StateGood

\* Then what a handler has done stays done.
LEMMA ProgressKept ==
  ASSUME NEW i, NEW j, Progress(i), \A k \in Keys : GetState(k)' = GetState(k),
         j.handler = i.handler, j.txs = i.txs, j.before = i.before, j.adds = i.adds
  PROVE  Progress(j)'
<1>1. PICK done \in Payload :
        /\ Planned(i) = done \o i.txs
        /\ \A n \in DOMAIN done : Shown(done[n])
        /\ i.handler = "newBlock" =>
             \A k \in Keys : GetState(k) = i.before[k] \o Writes(done, k)
  BY DEF Progress
<1>2. Planned(j) = done \o j.txs
  BY <1>1 DEF Planned
<1>3. ASSUME NEW n \in DOMAIN done PROVE Shown(done[n])'
  <2>1. done[n] \in Txs /\ KeyOf[done[n]] \in Keys
    BY StateAssumption DEF Payload
  <2> QED
    BY <1>1, <2>1 DEF Shown, Accepted
<1>4. j.handler = "newBlock" =>
        \A k \in Keys : GetState(k)' = j.before[k] \o Writes(done, k)
  BY <1>1
<1> QED
  BY <1>2, <1>3, <1>4 DEF Progress, Writes, Planned, TxsOf

\* A step that sees everything as before and gives t the job j.
LEMMA SerialQuiet ==
  ASSUME NEW t, Serial(t), SerialInv(t), [Next]_vars, UNCHANGED <<db, staging>>,
         \A b \in DOMAIN blocks' \ {<<>>} :
            blocks'[b] = "newBlock" =>
               (b \in DOMAIN blocks /\ blocks[b] = "newBlock") \/ AppliedAll(b)',
         NEW j, task' = [task EXCEPT ![t] = j], j # Idle => SerialJob(j)'
  PROVE  SerialInv(t)'
<1>1. TypeInv'
  BY TypesKept DEF SerialInv
<1>2. \A k \in Keys : GetState(k)' = GetState(k) /\ IsPrefix(db'[k], GetState(k))
  <2>1. ASSUME NEW k \in Keys PROVE GetState(k)' = GetState(k) /\ db'[k] = db[k]
    BY DEF GetState
  <2> QED
    BY <2>1 DEF SerialInv, StateGood, StagedOnTop
<1>3. StateGood'
  BY <1>2, ViewKept
<1> QED
  BY <1>1, <1>3, SerialSet

\* EXECUTE and SEND_CHAIN begin with what is staged, NEW_BLOCK with nothing.
LEMMA SerialStart ==
  ASSUME NEW t, Serial(t), SerialInv(t), [Next]_vars,
         \/ \E tx \in Local : ExecuteStart(t, tx)
         \/ \E b \in Offered : NewBlockStart(t, b)
         \/ \E batch \in Batches : SendChainStart(t, batch)
  PROVE  SerialInv(t)'
<1>0. /\ TypeInv /\ TypeInv' /\ t \in Threads /\ db \in [Keys -> Value]
      /\ \A k \in Keys : GetState(k) \in Value
  BY SerialFacts, TypesKept DEF SerialInv
<1>1. /\ <<>> \in Payload /\ DOMAIN <<>> = {}
      /\ \A p \in Payload : <<>> \o p = p
      /\ \A k \in Keys : db[k] = db[k] \o Writes(<<>>, k)
  <2>1. \A k \in Keys : Writes(<<>>, k) = <<>>
    BY SelectEmpty DEF Writes
  <2>2. \A k \in Keys : db[k] \o <<>> = db[k]
    BY <1>0, ConcatEmptySeq DEF Value
  <2>3. \A k \in Keys : db[k] = db[k] \o Writes(<<>>, k)
    BY <2>1, <2>2
  <2>4. \A p \in Payload : <<>> \o p = p
    BY ConcatEmptySeq DEF Payload
  <2>5. <<>> \in Payload /\ DOMAIN <<>> = {}
    BY EmptySeq DEF Payload
  <2> QED
    BY <2>3, <2>4, <2>5
<1>2. CASE \E tx \in Local : ExecuteStart(t, tx)
  <2>1. PICK tx \in Local : ExecuteStart(t, tx)
    BY <1>2
  <2>2. <<tx>> \in Payload /\ <<>> \in Seq(Filled)
    BY StateAssumption DEF Payload
  <2>3. Begin(t, "execute", <<tx>>, <<>>) /\ "execute" \in Handler
    BY <2>1 DEF ExecuteStart, Handler
  <2>4. PICK j \in Job : /\ task' = [task EXCEPT ![t] = j]
                         /\ j.at = "run" /\ j.handler = "execute"
    <3> DEFINE txs == <<tx>>
               adds == <<>>
    <3>1. txs \in Payload /\ adds \in Seq(Filled) /\ Begin(t, "execute", txs, adds)
      BY <2>2, <2>3
    <3> HIDE DEF txs, adds
    <3> QED
      BY <1>0, <2>3, <3>1, BeginJob
  <2>5. SerialJob(j)'
    BY <2>4 DEF SerialJob
  <2> QED
    BY <2>1, <2>4, <2>5, SerialQuiet DEF ExecuteStart, store
<1>3. CASE \E batch \in Batches : SendChainStart(t, batch)
  <2>1. PICK batch \in Batches : SendChainStart(t, batch)
    BY <1>3
  <2>2. batch \in Seq(Filled) /\ batch # <<>>
    BY <2>1, StateAssumption DEF Filled, SendChainStart
  <2>3. TxsOf(Linked(batch)) \in Payload
    BY <2>2, LinkedType, TxsOfBatch
  <2>4. Begin(t, "sendChain", TxsOf(Linked(batch)), batch) /\ "sendChain" \in Handler
    BY <2>1 DEF SendChainStart, Handler
  <2>5. PICK j \in Job : /\ task' = [task EXCEPT ![t] = j]
                         /\ j.at = "run" /\ j.handler = "sendChain"
                         /\ j.txs = TxsOf(Linked(batch)) /\ j.adds = batch
    BY <1>0, <2>2, <2>3, <2>4, BeginJob
  <2>6. Progress(j)'
    <3>1. Planned(j) = <<>> \o j.txs
      BY <1>1, <2>3, <2>5 DEF Planned
    <3> QED
      BY <1>1, <2>5, <3>1 DEF Progress, Planned, TxsOf
  <2>7. SerialJob(j)'
    BY <2>5, <2>6 DEF SerialJob
  <2> QED
    BY <2>1, <2>5, <2>7, SerialQuiet DEF SendChainStart, store
<1>4. CASE \E b \in Offered : NewBlockStart(t, b)
  <2>1. PICK b \in Offered : NewBlockStart(t, b)
    BY <1>4
  <2>2. b \in Filled /\ Last(b) \in Payload
    BY StateAssumption, BlockParts DEF Filled
  <2>3. <<b>> \in Seq(Filled) /\ <<b>> # <<>>
    BY <2>2
  <2>4. Begin(t, "newBlock", Last(b), <<b>>) /\ "newBlock" \in Handler
    BY <2>1 DEF NewBlockStart, Handler
  <2>5. PICK j \in Job : /\ task' = [task EXCEPT ![t] = j]
                         /\ j.at = "run" /\ j.handler = "newBlock"
                         /\ j.txs = Last(b) /\ j.adds = <<b>> /\ j.before = db
    <3> DEFINE adds == <<b>>
    <3>1. adds \in Seq(Filled) /\ adds # <<>> /\ Begin(t, "newBlock", Last(b), adds)
      BY <2>3, <2>4
    <3> HIDE DEF adds
    <3>2. \E j \in Job : /\ task' = [task EXCEPT ![t] = j]
                         /\ j.at = "run" /\ j.handler = "newBlock"
                         /\ j.txs = Last(b) /\ j.adds = adds /\ j.before = db
      BY <1>0, <2>2, <2>4, <3>1, BeginJob
    <3> QED
      BY <3>2 DEF adds
  <2>6. \A k \in Keys : GetState(k)' = db[k] /\ db'[k] = db[k]
    <3>1. DOMAIN staging' = {} /\ db' = db
      BY <2>1 DEF NewBlockStart, Nothing
    <3> QED
      BY <3>1 DEF GetState
  <2>7. Progress(j)'
    <3>1. Planned(j) = <<>> \o j.txs
      <4>1. <<b>>[1] = b
        OBVIOUS
      <4> QED
        BY <1>1, <2>2, <2>5, <4>1 DEF Planned
    <3>2. \A k \in Keys : GetState(k)' = j.before[k] \o Writes(<<>>, k)
      BY <1>1, <2>5, <2>6
    <3> QED
      BY <1>1, <2>5, <3>1, <3>2 DEF Progress, Planned, TxsOf
  <2>8. SerialJob(j)'
    BY <2>5, <2>7 DEF SerialJob
  <2>9. StateGood'
    <3>1. StagedOnTop'
      BY <1>0, <2>6, PrefixSame DEF StagedOnTop
    <3>2. NewBlockApplied'
      BY <1>0, <2>1, DatabaseGrows, NewBlockStays DEF SerialInv, StateGood, NewBlockStart, store
    <3> QED
      BY <3>1, <3>2 DEF StateGood
  <2> QED
    BY <1>0, <2>5, <2>8, <2>9, SerialSet
<1> QED
  BY <1>2, <1>3, <1>4

\* A write goes behind those of the transactions before it.
LEMMA AppendToConcat ==
  ASSUME NEW s \in Value, NEW u \in Value, NEW tx \in Txs
  PROVE  s \o Append(u, tx) = Append(s \o u, tx)
<1>1. <<tx>> \in Seq(Txs) /\ s \o u \in Seq(Txs)
  BY ConcatProperties DEF Value
<1>2. Append(u, tx) = u \o <<tx>> /\ Append(s \o u, tx) = (s \o u) \o <<tx>>
  BY <1>1, AppendIsConcat DEF Value
<1>3. (s \o u) \o <<tx>> = s \o (u \o <<tx>>)
  BY <1>1, ConcatAssociative DEF Value
<1> QED
  BY <1>2, <1>3

\* A step that saves the next transaction's write, if it is permitted, and
\* nothing else, makes progress.
LEMMA ProgressNext ==
  ASSUME TypeInv, NEW i \in Job, NEW j, Progress(i), i.txs # <<>>,
         j.handler = i.handler, j.adds = i.adds, j.before = i.before, j.txs = Tail(i.txs),
         \A k \in Keys :
            GetState(k)' = IF KeyOf[Head(i.txs)] = k /\ Accepted(Head(i.txs))
                           THEN Append(GetState(k), Head(i.txs)) ELSE GetState(k)
  PROVE  Progress(j)'
<1> DEFINE h == Head(i.txs)
<1>1. PICK done \in Payload :
        /\ Planned(i) = done \o i.txs
        /\ \A n \in DOMAIN done : Shown(done[n])
        /\ i.handler = "newBlock" =>
             \A k \in Keys : GetState(k) = i.before[k] \o Writes(done, k)
  BY DEF Progress
<1> DEFINE now == Append(done, h)
<1>2. /\ h \in Txs /\ Tail(i.txs) \in Payload /\ now \in Payload
      /\ done \o i.txs = now \o Tail(i.txs)
  BY JobFields, OneMoreDone
<1>3. \A k \in Keys : GetState(k) \in Value
  BY GetStateType
<1>4. \A k \in Keys : GetState(k)' = IF KeyOf[h] = k /\ Accepted(h)
                                     THEN Append(GetState(k), h) ELSE GetState(k)
  OBVIOUS
<1>5. Planned(j) = now \o j.txs
  BY <1>1, <1>2 DEF Planned
<1> HIDE DEF h
<1>6. ASSUME NEW k \in Keys, NEW x, Contains(GetState(k), x) PROVE Contains(GetState(k)', x)
  <2>1. Contains(Append(GetState(k), h), x)
    BY <1>2, <1>3, <1>6, AppendContains
  <2> QED
    BY <1>4, <1>6, <2>1
<1>7. Accepted(h) => Contains(GetState(KeyOf[h])', h)
  <2>1. KeyOf[h] \in Keys
    BY <1>2, StateAssumption
  <2>2. Contains(Append(GetState(KeyOf[h]), h), h)
    BY <1>2, <1>3, <2>1, AppendContains
  <2> QED
    BY <1>4, <2>1, <2>2
<1>8. ASSUME NEW n \in DOMAIN now PROVE Shown(now[n])'
  <2>1. CASE n \in DOMAIN done
    <3>1. now[n] = done[n] /\ done[n] \in Txs /\ KeyOf[done[n]] \in Keys
      BY <1>2, <2>1, StateAssumption DEF Payload
    <3>2. Shown(done[n])
      BY <1>1, <2>1
    <3>3. ~ Accepted(done[n]) \/ Contains(GetState(KeyOf[done[n]])', done[n])
      BY <1>6, <3>1, <3>2 DEF Shown
    <3> HIDE DEF now
    <3> QED
      BY <3>1, <3>3 DEF Shown, Accepted
  <2>2. CASE n \notin DOMAIN done
    <3>1. now[n] = h
      BY <1>2, <2>2, AppendProperties DEF Payload
    <3> HIDE DEF now
    <3> QED
      BY <1>7, <3>1 DEF Shown, Accepted
  <2> QED
    BY <2>1, <2>2
<1>9. ASSUME j.handler = "newBlock", NEW k \in Keys
      PROVE  GetState(k)' = j.before[k] \o Writes(now, k)
  <2>1. GetState(k) = i.before[k] \o Writes(done, k) /\ i.before[k] \in Value
    BY <1>1, <1>9, JobFields
  <2>2. CASE KeyOf[h] = k /\ Accepted(h)
    <3>1. Writes(now, k) = Append(Writes(done, k), h) /\ Writes(done, k) \in Value
      BY <1>2, <2>2, WritesNext
    <3>2. i.before[k] \o Append(Writes(done, k), h) = Append(i.before[k] \o Writes(done, k), h)
      BY <1>2, <2>1, <3>1, AppendToConcat
    <3> QED
      BY <1>4, <2>1, <2>2, <3>1, <3>2
  <2>3. CASE ~ (KeyOf[h] = k /\ Accepted(h))
    <3>1. Writes(now, k) = Writes(done, k)
      BY <1>2, <2>3, WritesNext
    <3> QED
      BY <1>4, <2>1, <2>3, <3>1
  <2> QED
    BY <2>2, <2>3
<1> HIDE DEF now
<1>10. \A k \in Keys : Writes(now, k)' = Writes(now, k)
  BY DEF Writes, Accepted
<1> QED
  BY <1>2, <1>5, <1>8, <1>9, <1>10 DEF Progress, Planned, TxsOf

\* Executing a transaction makes progress with it, whether its function
\* accepts the sender or not.
LEMMA SerialExecute ==
  ASSUME NEW t, Serial(t), SerialInv(t), [Next]_vars,
         SetCaller(t) \/ Refuse(t) \/ CallMethod(t) \/ Get(t) \/ Save(t)
  PROVE  SerialInv(t)'
<1> DEFINE i == task[t]
           h == Head(i.txs)
<1>1. task[t].at # "idle"
  BY DEF SetCaller, Refuse, CallMethod, Get, Save, At
<1>2. /\ t \in Threads /\ TaskTyped /\ TypeInv /\ TypeInv' /\ staging \in Stagings
      /\ i \in Job /\ JobFits(i) /\ SerialJob(i) /\ \A k \in Keys : GetState(k) \in Value
  BY <1>1, SerialFacts, TypesKept DEF SerialInv
<1>3. i.txs # <<>> => h \in Txs /\ KeyOf[h] \in Keys
  BY <1>2, JobFields, StateAssumption DEF Payload
<1>4. CASE SetCaller(t)
  <2>1. Goto(t, "check") /\ caller' = Permission[h] /\ UNCHANGED <<db, staging, blocks>>
    BY <1>4 DEF SetCaller, store
  <2>2. PICK j \in Job :
           /\ task' = [task EXCEPT ![t] = j]
           /\ j.at = "check" /\ j.handler = i.handler /\ j.txs = i.txs
           /\ j.adds = i.adds /\ j.before = i.before
    BY <1>2, <2>1, GotoJob DEF Label
  <2>3. \A k \in Keys : GetState(k)' = GetState(k)
    BY <2>1 DEF GetState
  <2>4. j.handler # "execute" => Progress(j)'
    BY <1>2, <2>2, <2>3, ProgressKept DEF SerialJob
  <2>5. SerialJob(j)'
    BY <2>1, <2>2, <2>4 DEF SerialJob
  <2> QED
    BY <2>1, <2>2, <2>5, SerialQuiet
<1>5. CASE Refuse(t)
  BY <1>5, SerialQuiet DEF Refuse, Return, store
<1>6. CASE CallMethod(t)
  <2>1. /\ UNCHANGED <<db, staging, blocks>> /\ i.txs # <<>> /\ caller = Permission[h]
        /\ IF caller \in Required[h] THEN Goto(t, "call") ELSE Executed(t)
        /\ i.handler # "execute" => Progress(i)
    BY <1>2, <1>6 DEF CallMethod, At, store, SerialJob, JobFits
  <2>2. \A k \in Keys : GetState(k)' = GetState(k)
    BY <2>1 DEF GetState
  <2>3. CASE caller \in Required[h]
    <3>1. PICK j \in Job :
             /\ task' = [task EXCEPT ![t] = j]
             /\ j.at = "call" /\ j.handler = i.handler /\ j.txs = i.txs
             /\ j.adds = i.adds /\ j.before = i.before
      BY <1>2, <2>1, <2>3, GotoJob DEF Label
    <3>2. j.handler # "execute" => Progress(j)'
      BY <2>1, <2>2, <3>1, ProgressKept
    <3>3. Accepted(Head(j.txs))
      BY <2>1, <2>3, <3>1 DEF Accepted
    <3>4. SerialJob(j)'
      BY <3>1, <3>2, <3>3 DEF SerialJob, Accepted
    <3> QED
      BY <2>1, <3>1, <3>4, SerialQuiet
  <2>4. CASE caller \notin Required[h]
    <3>1. PICK j \in Job :
             /\ task' = [task EXCEPT ![t] = j]
             /\ j.handler = i.handler /\ j.txs = Tail(i.txs) /\ j.before = i.before
             /\ j.handler # "execute" => j.at = "run" /\ j.adds = i.adds
             /\ j.handler = "execute" => j.at = "add"
      BY <1>2, <2>1, <2>4, ExecutedJob
    <3>2. ~ Accepted(h)
      BY <2>1, <2>4 DEF Accepted
    <3>3. j.handler # "execute" => Progress(j)'
      BY <1>2, <2>1, <2>2, <3>1, <3>2, ProgressNext
    <3>4. SerialJob(j)'
      BY <3>1, <3>3 DEF SerialJob
    <3> QED
      BY <2>1, <3>1, <3>4, SerialQuiet
  <2> QED
    BY <2>3, <2>4
<1>7. CASE Get(t)
  <2> DEFINE v == GetState(KeyOf[h])
             j == [i EXCEPT !.at = "put", !.read = v]
  <2>1. /\ UNCHANGED <<db, staging, blocks>> /\ i.txs # <<>> /\ Accepted(h)
        /\ i.handler # "execute" => Progress(i)
    BY <1>2, <1>7 DEF Get, At, store, SerialJob, JobFits
  <2>2. task' = [task EXCEPT ![t] = j]
    BY <1>2, <1>7 DEF Get, TaskTyped
  <2>3. v \in Value
    BY <1>2, <1>3, <2>1
  <2> HIDE DEF v
  <2>4. /\ j.at = "put" /\ j.handler = i.handler /\ j.txs = i.txs
        /\ j.adds = i.adds /\ j.before = i.before /\ j.read = v
    BY <1>2, <2>3, GetJob
  <2> HIDE DEF j
  <2>5. \A k \in Keys : GetState(k)' = GetState(k)
    BY <2>1 DEF GetState
  <2>6. PICK jj : jj = j
    OBVIOUS
  <2>7. jj.handler # "execute" => Progress(jj)'
    BY <2>1, <2>4, <2>5, <2>6, ProgressKept
  <2>8. jj.read = GetState(KeyOf[Head(jj.txs)])'
    BY <1>3, <2>1, <2>4, <2>5, <2>6 DEF v
  <2>9. SerialJob(jj)'
    BY <2>1, <2>4, <2>6, <2>7, <2>8 DEF SerialJob, Accepted
  <2> QED
    BY <2>1, <2>2, <2>6, <2>9, SerialQuiet
<1>8. CASE Save(t)
  <2>1. /\ UNCHANGED <<db, blocks>> /\ i.txs # <<>> /\ Accepted(h)
        /\ i.handler # "execute" => Progress(i)
        /\ i.read = GetState(KeyOf[h]) /\ Executed(t)
        /\ PutState(KeyOf[h], Append(i.read, h))
    BY <1>2, <1>8 DEF Save, At, store, SerialJob, JobFits
  <2>2. PICK j \in Job :
           /\ task' = [task EXCEPT ![t] = j]
           /\ j.handler = i.handler /\ j.txs = Tail(i.txs) /\ j.before = i.before
           /\ j.handler # "execute" => j.at = "run" /\ j.adds = i.adds
           /\ j.handler = "execute" => j.at = "add"
    BY <1>2, <2>1, ExecutedJob
  <2>3. \A k \in Keys : GetState(k)' = IF KeyOf[h] = k /\ Accepted(h)
                                       THEN Append(GetState(k), h) ELSE GetState(k)
    <3> DEFINE x == KeyOf[h]
               v == Append(i.read, h)
    <3>1. staging' = [l \in DOMAIN staging \cup {x} |-> IF l = x THEN v ELSE staging[l]]
      BY <2>1 DEF PutState
    <3>2. v = Append(GetState(x), h)
      BY <2>1
    <3> HIDE DEF x, v, h
    <3>3. ASSUME NEW k \in Keys
          PROVE  GetState(k)' = IF x = k THEN v ELSE GetState(k)
      BY <2>1, <3>1 DEF GetState
    <3>4. \A k \in Keys : GetState(k)' = IF x = k THEN Append(GetState(k), h) ELSE GetState(k)
      BY <3>2, <3>3
    <3> QED
      BY <2>1, <3>4 DEF x
  <2>4. j.handler # "execute" => Progress(j)'
    BY <1>2, <2>1, <2>2, <2>3, ProgressNext
  <2>5. SerialJob(j)'
    BY <2>2, <2>4 DEF SerialJob
  <2>6. StateGood'
    <3> HIDE DEF h
    <3>1. StagedOnTop'
      <4>1. ASSUME NEW k \in Keys PROVE IsPrefix(db'[k], GetState(k)')
        <5>1. db'[k] = db[k] /\ db[k] \in Value /\ GetState(k) \in Value /\ h \in Txs
              /\ IsPrefix(db[k], GetState(k))
          BY <1>2, <1>3, <2>1 DEF TypeInv, SerialInv, StateGood, StagedOnTop
        <5>2. IsPrefix(db[k], Append(GetState(k), h))
          BY <5>1, PrefixGrows
        <5> QED
          BY <2>3, <5>1, <5>2
      <4> QED
        BY <4>1 DEF StagedOnTop
    <3>2. NewBlockApplied'
      BY <1>2, <2>1, DatabaseGrows, NewBlockStays DEF SerialInv, StateGood
    <3> QED
      BY <3>1, <3>2 DEF StateGood
  <2> QED
    BY <1>2, <2>2, <2>5, <2>6, SerialSet
<1> QED
  BY <1>4, <1>5, <1>6, <1>7, <1>8

\* Commit moves what is staged to the database: nothing is seen differently,
\* and at its end nothing is left to move.
LEMMA SerialCommit ==
  ASSUME NEW t, Serial(t), SerialInv(t), [Next]_vars,
         RunEnd(t) \/ CommitKey(t) \/ CommitEnd(t)
  PROVE  SerialInv(t)'
<1> DEFINE i == task[t]
<1>1. task[t].at # "idle"
  BY DEF RunEnd, CommitKey, CommitEnd, At
<1>2. /\ t \in Threads /\ TaskTyped /\ TypeInv /\ TypeInv' /\ staging \in Stagings
      /\ i \in Job /\ JobFits(i) /\ SerialJob(i)
  BY <1>1, SerialFacts, TypesKept DEF SerialInv
<1>3. i.handler # "execute" => Progress(i)
  BY <1>2 DEF SerialJob
<1>4. CASE RunEnd(t)
  <2> DEFINE j == [i EXCEPT !.at = "commit", !.puts = staging]
  <2>1. /\ UNCHANGED <<db, staging, blocks>> /\ i.txs = <<>>
        /\ \/ i.handler = "newBlock" /\ task' = [task EXCEPT ![t] = j]
           \/ i.handler = "sendChain" /\ BrokenLinks(i.adds) = {} /\ Goto(t, "add")
           \/ Return(t)
    BY <1>2, <1>4 DEF RunEnd, Runs, store, TaskTyped
  <2>2. \A k \in Keys : GetState(k)' = GetState(k)
    BY <2>1 DEF GetState
  <2>3. CASE i.handler = "newBlock" /\ task' = [task EXCEPT ![t] = j]
    <3>1. /\ j.at = "commit" /\ j.handler = i.handler /\ j.txs = i.txs
          /\ j.adds = i.adds /\ j.puts = staging /\ j.before = i.before
      BY <1>2, CommitJob
    <3> HIDE DEF j
    <3>2. PICK jj : jj = j
      OBVIOUS
    <3>3. Progress(jj)'
      BY <1>3, <2>2, <2>3, <3>1, <3>2, ProgressKept
    <3>4. Committing(jj)'
      BY <2>1, <2>3, <3>1, <3>2 DEF Committing
    <3>5. SerialJob(jj)'
      BY <2>1, <2>3, <3>1, <3>2, <3>3, <3>4 DEF SerialJob
    <3> QED
      BY <2>1, <2>3, <3>2, <3>5, SerialQuiet
  <2>4. CASE i.handler = "sendChain" /\ BrokenLinks(i.adds) = {} /\ Goto(t, "add")
    <3>1. PICK a \in Job :
             /\ task' = [task EXCEPT ![t] = a]
             /\ a.at = "add" /\ a.handler = i.handler /\ a.txs = i.txs
             /\ a.adds = i.adds /\ a.before = i.before
      BY <1>2, <2>4, GotoJob DEF Label
    <3>2. Progress(a)'
      BY <1>3, <2>2, <2>4, <3>1, ProgressKept
    <3>3. SerialJob(a)'
      BY <2>1, <2>4, <3>1, <3>2 DEF SerialJob, BrokenLinks
    <3> QED
      BY <2>1, <3>1, <3>3, SerialQuiet
  <2>5. CASE Return(t)
    BY <2>1, <2>5, SerialQuiet DEF Return
  <2> QED
    BY <2>1, <2>3, <2>4, <2>5
<1>5. CASE CommitKey(t)
  <2>1. UNCHANGED <<staging, blocks>> /\ i.at = "commit" /\ Committing(i)
    BY <1>2, <1>5 DEF CommitKey, At, store, SerialJob
  <2>2. PICK k \in Uncommitted(t) :
           \/ /\ db' = [db EXCEPT ![k] = task[t].puts[k]]
              /\ task' = [task EXCEPT ![t].puts =
                             [l \in Uncommitted(t) \ {k} |-> task[t].puts[l]]]
           \/ Return(t) /\ UNCHANGED db
    BY <1>5 DEF CommitKey
  <2> DEFINE rest == [l \in Uncommitted(t) \ {k} |-> i.puts[l]]
             j == [i EXCEPT !.puts = rest]
  <2>3. \/ db' = [db EXCEPT ![k] = i.puts[k]] /\ task' = [task EXCEPT ![t] = j]
        \/ Return(t) /\ UNCHANGED db
    BY <1>2, <2>2 DEF TaskTyped
  <2>4. CASE Return(t) /\ UNCHANGED db
    BY <2>1, <2>4, SerialQuiet DEF Return
  <2>5. CASE db' = [db EXCEPT ![k] = i.puts[k]] /\ task' = [task EXCEPT ![t] = j]
    <3>1. /\ k \in DOMAIN i.puts /\ DOMAIN i.puts \subseteq DOMAIN staging
          /\ DOMAIN staging \subseteq Keys /\ k \in Keys
          /\ i.puts[k] = staging[k] /\ i.handler # "execute"
      BY <1>2, <2>1, StagingParts DEF Committing, Uncommitted
    <3>2. rest \in Stagings /\ DOMAIN rest = DOMAIN i.puts \ {k}
          /\ \A l \in DOMAIN rest : rest[l] = i.puts[l]
      <4>1. \A l \in DOMAIN i.puts : i.puts[l] \in Value
        BY <1>2, JobFields, StagingParts
      <4>2. rest \in [(DOMAIN i.puts \ {k}) -> Value] /\ DOMAIN i.puts \ {k} \subseteq Keys
        BY <3>1, <4>1 DEF Uncommitted
      <4>3. \A l \in DOMAIN rest : rest[l] = i.puts[l]
        OBVIOUS
      <4> HIDE DEF rest
      <4> QED
        BY <4>2, <4>3, StagingMade
    <3> HIDE DEF rest
    <3>3. /\ j.at = i.at /\ j.handler = i.handler /\ j.txs = i.txs
          /\ j.adds = i.adds /\ j.puts = rest /\ j.before = i.before
      BY <1>2, <3>2, PutJob
    <3> HIDE DEF j
    <3>4. db'[k] = staging[k] /\ \A l \in Keys : l # k => db'[l] = db[l]
      BY <1>2, <2>5, <3>1 DEF TypeInv
    <3>5. \A l \in Keys : GetState(l)' = GetState(l)
      BY <2>1, <3>1, <3>4 DEF GetState
    <3>6. \A l \in Keys : IsPrefix(db'[l], GetState(l))
      <4>1. GetState(k) = staging[k] /\ GetState(k) \in Value
        BY <1>2, <3>1, GetStateType DEF GetState
      <4>2. IsPrefix(db'[k], GetState(k))
        BY <3>4, <4>1, PrefixSame
      <4>3. ASSUME NEW l \in Keys, l # k PROVE IsPrefix(db'[l], GetState(l))
        BY <3>4, <4>3 DEF SerialInv, StateGood, StagedOnTop
      <4> QED
        BY <4>2, <4>3
    <3>7. StateGood'
      BY <2>1, <3>5, <3>6, ViewKept
    <3>8. PICK jj : jj = j
      OBVIOUS
    <3>9. Progress(jj)'
      BY <1>3, <3>1, <3>3, <3>5, <3>8, ProgressKept
    <3>10. Committing(jj)'
      <4>1. jj.handler # "execute" /\ DOMAIN jj.puts \subseteq DOMAIN staging'
        BY <2>1, <3>1, <3>2, <3>3, <3>8
      <4>2. ASSUME NEW l \in DOMAIN staging
            PROVE  IF l \in DOMAIN rest THEN rest[l] = staging[l] ELSE db'[l] = staging[l]
        <5>1. CASE l = k
          BY <3>2, <3>4, <5>1
        <5>2. CASE l # k
          BY <2>1, <3>1, <3>2, <3>4, <5>2 DEF Committing
        <5> QED
          BY <5>1, <5>2
      <4> QED
        BY <2>1, <3>3, <3>8, <4>1, <4>2 DEF Committing
    <3>11. SerialJob(jj)'
      BY <1>2, <2>1, <3>3, <3>8, <3>9, <3>10 DEF SerialJob, BrokenLinks
    <3> QED
      BY <1>2, <2>5, <3>7, <3>8, <3>11, SerialSet
  <2> QED
    BY <2>3, <2>4, <2>5
<1>6. CASE CommitEnd(t)
  <2>1. /\ UNCHANGED <<db, blocks>> /\ i.at = "commit" /\ Committing(i)
        /\ DOMAIN i.puts = {} /\ staging' = Nothing
        /\ i.handler # "execute" /\ i.txs = <<>>
    BY <1>2, <1>6 DEF CommitEnd, At, store, SerialJob, Uncommitted, Committing
  <2>2. \A k \in Keys : GetState(k) = db[k] /\ GetState(k)' = GetState(k)
    <3>1. \A k \in DOMAIN staging : db[k] = staging[k]
      BY <2>1 DEF Committing
    <3>2. \A k \in Keys : GetState(k) = db[k]
      BY <3>1 DEF GetState
    <3>3. \A k \in Keys : GetState(k)' = db[k]
      BY <2>1 DEF GetState, Nothing
    <3> QED
      BY <3>2, <3>3
  <2>3. StateGood'
    <3>1. \A k \in Keys : db[k] \in Value /\ db'[k] = db[k]
      BY <1>2, <2>1 DEF TypeInv
    <3>2. \A k \in Keys : IsPrefix(db'[k], GetState(k))
      BY <2>2, <3>1, PrefixSame
    <3> QED
      BY <2>1, <2>2, <3>2, ViewKept
  <2>4. CASE Return(t)
    BY <1>2, <2>3, <2>4, SerialSet DEF Return
  <2>5. CASE i.handler = "newBlock" /\ Goto(t, "add")
    <3>1. PICK j \in Job :
             /\ task' = [task EXCEPT ![t] = j]
             /\ j.at = "add" /\ j.handler = i.handler /\ j.txs = i.txs
             /\ j.adds = i.adds /\ j.before = i.before
      BY <1>2, <2>5, GotoJob DEF Label
    <3>2. Progress(j)'
      BY <1>3, <2>1, <2>2, <3>1, ProgressKept
    <3>3. SerialJob(j)'
      BY <2>1, <2>5, <3>1, <3>2 DEF SerialJob, Nothing
    <3> QED
      BY <1>2, <2>3, <3>1, <3>3, SerialSet
  <2> QED
    BY <1>6, <2>4, <2>5 DEF CommitEnd, Runs
<1> QED
  BY <1>4, <1>5, <1>6

\* A handler with nothing left to execute has done what was planned.
LEMMA AllDone ==
  ASSUME NEW i, Progress(i), i.txs = <<>>
  PROVE  /\ \A n \in DOMAIN Planned(i) : Shown(Planned(i)[n])
         /\ i.handler = "newBlock" =>
              \A k \in Keys : GetState(k) = i.before[k] \o Writes(Planned(i), k)
<1>1. PICK done \in Payload :
        /\ Planned(i) = done \o i.txs
        /\ \A n \in DOMAIN done : Shown(done[n])
        /\ i.handler = "newBlock" =>
             \A k \in Keys : GetState(k) = i.before[k] \o Writes(done, k)
  BY DEF Progress
<1>2. Planned(i) = done
  BY <1>1, ConcatEmptySeq DEF Payload
<1> QED
  BY <1>1, <1>2

\* When NEW_BLOCK is about to add its block, the database shows what the
\* handler saw: the block's effects, and nothing else is new.
LEMMA BlockIsApplied ==
  ASSUME NEW t, Serial(t), SerialInv(t), task[t].at = "add", task[t].handler = "newBlock"
  PROVE  /\ AppliedAll(task[t].adds[1])
         /\ \A k \in Keys :
              db[k] = task[t].before[k] \o Writes(Last(task[t].adds[1]), k)
<1> DEFINE i == task[t]
           b == i.adds[1]
<1>1. /\ i \in Job /\ JobFits(i) /\ SerialJob(i) /\ TypeInv
  BY SerialFacts DEF SerialInv
<1>2. b \in Filled
  <2>1. i.adds \in Seq(Filled) /\ i.adds # <<>>
    BY <1>1, JobFields DEF JobFits
  <2>2. 1 \in 1..Len(i.adds)
    BY <2>1, EmptySeq
  <2> QED
    BY <2>1, <2>2, ElementOfSeq
<1>3. Progress(i) /\ i.txs = <<>> /\ staging = Nothing
  BY <1>1 DEF SerialJob
<1>4. Planned(i) = Last(b) /\ \A k \in Keys : GetState(k) = db[k]
  BY <1>3 DEF Planned, GetState, Nothing
<1>5. \A n \in DOMAIN Last(b) : Shown(Last(b)[n])
  BY <1>3, <1>4, AllDone
<1>6. \A k \in Keys : GetState(k) = i.before[k] \o Writes(Last(b), k)
  BY <1>3, <1>4, AllDone
<1>7. \A n \in DOMAIN Last(b) : Last(b)[n] \in Txs /\ KeyOf[Last(b)[n]] \in Keys
  BY <1>2, BlockParts, StateAssumption DEF Payload
<1> HIDE DEF b
<1>8. AppliedAll(b)
  BY <1>4, <1>5, <1>7 DEF AppliedAll, Applied, Shown
<1> QED
  BY <1>4, <1>6, <1>8 DEF b

\* A block that the pool releases is not one of NEW_BLOCK.
LEMMA AddTxAdds ==
  ASSUME NEW tx, AddTx(tx)
  PROVE  \A b \in DOMAIN blocks' \ {<<>>} :
            blocks'[b] = "newBlock" => b \in DOMAIN blocks /\ blocks[b] = "newBlock"
<1>1. CASE UNCHANGED store
  BY <1>1 DEF store
<1>2. CASE ~ UNCHANGED store
  <2>1. PICK b : blocks' = Put("execute", <<b>>)
    BY <1>2 DEF AddTx
  <2> QED
    BY <2>1 DEF Put, Stored
<1> QED
  BY <1>1, <1>2

\* What is added has its effects in the database already, or was not added by
\* NEW_BLOCK.
LEMMA SerialAdd ==
  ASSUME NEW t, Serial(t), SerialInv(t), [Next]_vars,
         \/ AddBlock(t) \/ AddBlocks(t) \/ AddExecuted(t)
         \/ \E tx \in Gossiped : Transaction(t, tx)
  PROVE  SerialInv(t)'
<1> DEFINE i == task[t]
<1>1. /\ t \in Threads /\ TaskTyped /\ TypeInv /\ TypeInv'
      /\ i.at # "idle" => i \in Job /\ JobFits(i) /\ SerialJob(i)
  BY SerialFacts, TypesKept DEF SerialInv
<1>2. CASE AddBlock(t)
  <2> DEFINE b == i.adds[1]
  <2>1. /\ i.at = "add" /\ i.handler = "newBlock" /\ UNCHANGED <<db, staging>> /\ Return(t)
        /\ blocks' = blocks \/ blocks' = Put("newBlock", <<b>>)
    BY <1>2 DEF AddBlock, At, Runs, store
  <2>2. AppliedAll(b)
    BY <2>1, BlockIsApplied
  <2> HIDE DEF b
  <2>3. PICK c : c = b
    OBVIOUS
  <2>4. AppliedAll(c)'
    BY <2>1, <2>2, <2>3 DEF AppliedAll, Applied, Accepted
  <2>5. ASSUME NEW a \in DOMAIN blocks' \ {<<>>}, blocks'[a] = "newBlock"
        PROVE  (a \in DOMAIN blocks /\ blocks[a] = "newBlock") \/ AppliedAll(a)'
    <3>1. CASE blocks' = blocks
      BY <2>5, <3>1
    <3>2. CASE blocks' = Put("newBlock", <<b>>)
      <4>1. Range(<<c>>) = {c}
        BY DEF Range
      <4>2. a \in DOMAIN blocks \/ a = c
        BY <2>3, <3>2, <4>1 DEF Put, Stored
      <4>3. a \in DOMAIN blocks => blocks'[a] = blocks[a]
        BY <3>2 DEF Put, Stored
      <4> QED
        BY <2>4, <2>5, <4>2, <4>3
    <3> QED
      BY <2>1, <3>1, <3>2
  <2> QED
    BY <2>1, <2>5, SerialQuiet DEF Return
<1>3. CASE AddBlocks(t)
  <2> DEFINE bs == i.adds
             j == [i EXCEPT !.at = "commit", !.puts = staging]
  <2>1. /\ i.at = "add" /\ i.handler = "sendChain" /\ UNCHANGED <<db, staging>>
        /\ \/ blocks' = Put("sendChain", bs) /\ task' = [task EXCEPT ![t] = j]
           \/ blocks' = blocks /\ Return(t)
    BY <1>1, <1>3 DEF AddBlocks, At, Runs, store, TaskTyped
  <2>2. CASE blocks' = blocks /\ Return(t)
    BY <2>1, <2>2, SerialQuiet DEF Return
  <2>3. CASE blocks' = Put("sendChain", bs) /\ task' = [task EXCEPT ![t] = j]
    <3>1. i \in Job /\ SerialJob(i) /\ staging \in Stagings
      BY <1>1, <2>1, SerialFacts
    <3>2. /\ j.at = "commit" /\ j.handler = i.handler /\ j.txs = i.txs
          /\ j.adds = i.adds /\ j.puts = staging /\ j.before = i.before
      BY <3>1, CommitJob
    <3> HIDE DEF j
    <3>3. PICK jj : jj = j
      OBVIOUS
    <3>4. Progress(jj)'
      <4>1. Progress(i) /\ \A k \in Keys : GetState(k)' = GetState(k)
        BY <2>1, <3>1 DEF SerialJob, GetState
      <4> QED
        BY <3>2, <3>3, <4>1, ProgressKept
    <3>5. Committing(jj)'
      BY <2>1, <3>2, <3>3 DEF Committing
    <3>6. SerialJob(jj)'
      BY <2>1, <3>1, <3>2, <3>3, <3>4, <3>5 DEF SerialJob, BrokenLinks
    <3>7. \A a \in DOMAIN blocks' \ {<<>>} :
            blocks'[a] = "newBlock" => a \in DOMAIN blocks /\ blocks[a] = "newBlock"
      BY <2>3 DEF Put, Stored
    <3> QED
      BY <2>1, <2>3, <3>3, <3>6, <3>7, SerialQuiet
  <2> QED
    BY <2>1, <2>2, <2>3
<1>4. CASE AddExecuted(t)
  <2>1. UNCHANGED <<db, staging>> /\ Return(t) /\ \E tx : AddTx(tx)
    BY <1>4 DEF AddExecuted
  <2> QED
    BY <2>1, AddTxAdds, SerialQuiet DEF Return
<1>5. CASE \E tx \in Gossiped : Transaction(t, tx)
  <2>1. UNCHANGED <<db, staging, task>> /\ i.at = "idle" /\ \E tx : AddTx(tx)
    BY <1>5 DEF Transaction, At
  <2>2. i = Idle
    BY <1>1, <2>1 DEF TaskTyped, Job, Label
  <2>3. task' = [task EXCEPT ![t] = Idle]
    BY <1>1, <2>1, <2>2 DEF TaskTyped
  <2> QED
    BY <2>1, <2>3, AddTxAdds, SerialQuiet
<1> QED
  BY <1>2, <1>3, <1>4, <1>5

\* A restart forgets what is staged.
LEMMA SerialRestart ==
  ASSUME NEW t, Serial(t), SerialInv(t), Restart
  PROVE  SerialInv(t)'
<1>1. TypeInv /\ TypeInv' /\ t \in Threads /\ [Next]_vars
  BY TypesKept DEF SerialInv, Serial, Next
<1>2. task'[t] = Idle /\ staging' = Nothing /\ db' = db /\ blocks' = blocks
  BY <1>1 DEF Restart, store
<1>3. \A k \in Keys : GetState(k)' = db[k] /\ db'[k] = db[k] /\ db[k] \in Value
  BY <1>1, <1>2 DEF GetState, Nothing, TypeInv
<1>4. StagedOnTop'
  BY <1>3, PrefixSame DEF StagedOnTop
<1>5. NewBlockApplied'
  BY <1>1, <1>2, DatabaseGrows, NewBlockStays DEF SerialInv, StateGood
<1> QED
  BY <1>1, <1>2, <1>4, <1>5 DEF SerialInv, StateGood

\* Nothing is staged, committed or running at first.
LEMMA SerialInit ==
  ASSUME NEW t, Serial(t), Init
  PROVE  SerialInv(t)
<1>1. TypeInv /\ task[t] = Idle
  BY InitTypes DEF Init, Serial
<1>2. \A k \in Keys : GetState(k) = <<>> /\ db[k] = <<>> /\ <<>> \in Value
  BY EmptySeq DEF Init, GetState, Nothing, Value
<1>3. StagedOnTop
  BY <1>2, PrefixSame DEF StagedOnTop
<1>4. NewBlockApplied
  BY DEF Init, NewBlockApplied, Stored
<1> QED
  BY <1>1, <1>3, <1>4 DEF SerialInv, StateGood

\* Every step of the one thread, and a restart, keeps the invariant.
LEMMA SerialKept ==
  ASSUME NEW t, Serial(t), SerialInv(t), [Next]_vars
  PROVE  SerialInv(t)'
<1>1. CASE Restart
  BY <1>1, SerialRestart
<1>2. CASE Start(t) \/ Proceed(t)
  <2>1. \/ ((\E tx \in Local : ExecuteStart(t, tx)) \/ (\E b \in Offered : NewBlockStart(t, b))
              \/ (\E batch \in Batches : SendChainStart(t, batch)))
        \/ (SetCaller(t) \/ Refuse(t) \/ CallMethod(t) \/ Get(t) \/ Save(t))
        \/ (RunEnd(t) \/ CommitKey(t) \/ CommitEnd(t))
        \/ (AddBlock(t) \/ AddBlocks(t) \/ AddExecuted(t)
              \/ (\E tx \in Gossiped : Transaction(t, tx)))
    BY <1>2 DEF Start, Proceed
  <2> QED
    BY <2>1, SerialStart, SerialExecute, SerialCommit, SerialAdd, Zenon
<1>3. CASE UNCHANGED vars
  <2>1. TypeInv' /\ UNCHANGED <<db, staging, blocks, caller, task>>
    BY <1>3, TypesKept DEF vars, store, SerialInv
  <2>2. \A k \in Keys : GetState(k)' = GetState(k) /\ IsPrefix(db'[k], GetState(k))
    BY <2>1 DEF GetState, SerialInv, StateGood, StagedOnTop
  <2>3. StateGood'
    BY <2>1, <2>2, ViewKept
  <2>4. PICK i : i = task[t]
    OBVIOUS
  <2>5. ASSUME i # Idle PROVE SerialJob(i)'
    <3>1. SerialJob(i)
      BY <2>4, <2>5 DEF SerialInv
    <3>2. t \in Threads /\ i \in Job
      BY <2>4, <2>5 DEF SerialInv, TypeInv, TaskTyped, Serial
    <3>3. i.handler # "execute" => Progress(i)'
      BY <2>2, <3>1, ProgressKept DEF SerialJob
    <3>4. i.at = "put" => i.read = GetState(KeyOf[Head(i.txs)])'
      BY <2>1, <3>1 DEF SerialJob, GetState
    <3>5. i.at = "commit" => Committing(i)'
      BY <2>1, <3>1 DEF SerialJob, Committing
    <3> QED
      BY <2>1, <3>1, <3>3, <3>4, <3>5 DEF SerialJob, Accepted, BrokenLinks
  <2>6. (task[t] # Idle => SerialJob(task[t]))'
    BY <2>1, <2>4, <2>5
  <2> QED
    BY <2>1, <2>3, <2>6 DEF SerialInv
<1> QED
  BY <1>1, <1>2, <1>3 DEF Next, Serial

\* Once the Commit of a SEND_CHAIN is through, the database shows what the
\* handler saw: the effects of all blocks of the batch.
LEMMA BatchIsApplied ==
  ASSUME NEW t, Serial(t), SerialInv(t)
  PROVE  SyncApplied
<1> DEFINE i == task[t]
<1>1. ASSUME i.at = "commit", i.handler = "sendChain", DOMAIN i.puts = {}
      PROVE  \A n \in DOMAIN i.adds : AppliedAll(i.adds[n])
  <2>1. i \in Job /\ SerialJob(i) /\ TypeInv /\ staging \in Stagings
    BY <1>1, SerialFacts DEF SerialInv
  <2>2. Progress(i) /\ i.txs = <<>> /\ BrokenLinks(i.adds) = {} /\ Committing(i)
    BY <1>1, <2>1 DEF SerialJob
  <2>3. \A k \in Keys : GetState(k) = db[k]
    BY <1>1, <2>2 DEF Committing, GetState
  <2>4. Planned(i) = TxsOf(i.adds)
    BY <1>1, <2>2 DEF Planned, Linked
  <2> DEFINE bs == i.adds
             all == TxsOf(bs)
  <2>5. bs \in Seq(Filled)
    BY <2>1, JobFields
  <2>6. \A m \in DOMAIN all : Shown(all[m])
    BY <2>2, <2>4, AllDone
  <2> HIDE DEF bs
  <2>7. /\ all \in Payload
        /\ \A n \in DOMAIN bs : \A m \in DOMAIN Last(bs[n]) : Contains(all, Last(bs[n])[m])
    BY <2>5, TxsOfBatch
  <2> HIDE DEF all
  <2>8. ASSUME NEW n \in DOMAIN bs, NEW m \in DOMAIN Last(bs[n])
        PROVE  Applied(Last(bs[n])[m])
    <3> DEFINE tx == Last(bs[n])[m]
    <3>1. Contains(all, tx)
      BY <2>7
    <3> HIDE DEF tx
    <3>2. PICK a \in 1..Len(all) : all[a] = tx
      BY <3>1 DEF Contains
    <3>3. a \in DOMAIN all /\ tx \in Txs /\ KeyOf[tx] \in Keys
      BY <2>7, <3>2, StateAssumption DEF Payload
    <3>4. Shown(tx)
      BY <2>6, <3>2, <3>3
    <3>5. Applied(tx)
      BY <2>3, <3>3, <3>4 DEF Applied, Shown
    <3> QED
      BY <3>5 DEF tx
  <2>9. \A n \in DOMAIN bs : AppliedAll(bs[n])
    BY <2>8 DEF AppliedAll
  <2> QED
    BY <2>9 DEF bs
<1> QED
  BY <1>1 DEF SyncApplied, Serial, At, Runs, Uncommitted

\* SerialInv implies what the runs check of one thread.
LEMMA SerialInvSays ==
  ASSUME NEW t, Serial(t), SerialInv(t)
  PROVE  NewBlockApplied /\ SyncApplied /\ CommitsItsBlock
<1>1. NewBlockApplied
  BY DEF SerialInv, StateGood
<1>2. SyncApplied
  BY BatchIsApplied
<1>3. CommitsItsBlock
  BY BlockIsApplied DEF CommitsItsBlock, Serial, At, Runs
<1> QED
  BY <1>1, <1>2, <1>3

\* The invariant of handlers that take turns, with any failed write and any
\* stop of the process.
LEMMA SerialInvariant ==
  ASSUME NEW t, Serial(t)
  PROVE  Spec => []SerialInv(t)
<1>1. Init => SerialInv(t)
  BY SerialInit
<1>2. SerialInv(t) /\ [Next]_vars => SerialInv(t)'
  BY SerialKept
<1> QED
  BY <1>1, <1>2, PTL DEF Spec

\* When handlers take turns, a block that NEW_BLOCK stored has its effects in
\* the database, whatever write failed and wherever the process stopped.
THEOREM SerialNewBlockApplied ==
  ASSUME NEW t, Serial(t)
  PROVE  Spec => []NewBlockApplied
<1>1. SerialInv(t) => NewBlockApplied
  BY SerialInvSays
<1> QED
  BY <1>1, SerialInvariant, PTL

\* When handlers take turns, a SEND_CHAIN whose Commit is through has the
\* effects of all its blocks in the database.
THEOREM SerialSyncApplied ==
  ASSUME NEW t, Serial(t)
  PROVE  Spec => []SyncApplied
<1>1. SerialInv(t) => SyncApplied
  BY SerialInvSays
<1> QED
  BY <1>1, SerialInvariant, PTL

\* When handlers take turns, NEW_BLOCK commits the effects of its block and
\* nothing that another handler left staged.
THEOREM SerialCommitsItsBlock ==
  ASSUME NEW t, Serial(t)
  PROVE  Spec => []CommitsItsBlock
<1>1. SerialInv(t) => CommitsItsBlock
  BY SerialInvSays
<1> QED
  BY <1>1, SerialInvariant, PTL

\* When handlers take turns, no step takes back a committed effect.
THEOREM SerialCommittedStays ==
  ASSUME NEW t, Serial(t)
  PROVE  Spec => CommittedStays
<1>1. SerialInv(t) /\ [Next]_vars => [\A k \in Keys : IsPrefix(db[k], db'[k])]_vars
  BY DatabaseGrows
<1> QED
  BY <1>1, SerialInvariant, PTL DEF Spec, CommittedStays
=============================================================================
