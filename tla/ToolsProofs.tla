----------------------------- MODULE ToolsProofs -----------------------------
(***************************************************************************)
(* Proofs about the tools around a node, for every value of the constants: *)
(* the commands that make and move its files (Artifacts), and the clients  *)
(* that send it commands (Console, at the end).  The two share no state.   *)
(*                                                                         *)
(* A command of Artifacts is a list of writes that is worked off one at a  *)
(* time, and may be cut short between any two.  What the proofs rest on is *)
(* what may be left on that list (Writable, Downloading, Sourced,          *)
(* Extracting: IInv), and that a file a build has generated is either      *)
(* there or still on the list (WholeInv).                                  *)
(***************************************************************************)
EXTENDS Artifacts, Console, SequenceTheorems, FiniteSetTheorems, WellFoundedInduction, TLAPS

-----------------------------------------------------------------------------
(* Sequences, and recursive functions.                                     *)

\* A non-empty set of naturals has a least member.
LEMMA LeastMember ==
  ASSUME NEW T, T \subseteq Nat, T # {}
  PROVE  \E x \in T : \A y \in T : x <= y
<1>1. PICK x \in T : \A y \in T : ~ (<<y, x>> \in OpToRel(<, Nat))
  BY NatLessThanWellFounded, WFMin
<1>2. ASSUME NEW y \in T PROVE x <= y
  <2>1. x \in Nat /\ y \in Nat /\ <<y, x>> \in Nat \X Nat
    OBVIOUS
  <2>2. y < x => <<y, x>> \in OpToRel(<, Nat)
    BY <2>1 DEF OpToRel
  <2>3. ~(y < x)
    BY <1>1, <2>2, Zenon
  <2> QED
    BY <2>1, <2>3
<1> QED
  BY <1>2

\* A set of numbers that contains 0 and the successors of its members
\* contains every number.
LEMMA CountUp ==
  ASSUME NEW N \in Nat, NEW P, 0 \in P, \A n \in 0..(N - 1) : n \in P => n + 1 \in P
  PROVE  0..N \subseteq P
<1> DEFINE Left == (0..N) \ P
<1>1. SUFFICES ASSUME Left # {} PROVE FALSE
  OBVIOUS
<1>2. PICK m \in Left : \A n \in Left : m <= n
  <2>1. Left \subseteq Nat
    OBVIOUS
  <2> HIDE DEF Left
  <2> QED
    BY <1>1, <2>1, LeastMember
<1>3. m # 0 /\ m \in 0..N
  BY <1>2
<1>4. m - 1 \in 0..(N - 1)
  BY <1>3
<1>5. m - 1 \notin P
  <2>1. m = (m - 1) + 1 /\ m \notin P
    BY <1>2, <1>3
  <2> QED
    BY <1>4, <2>1
<1>6. m - 1 \in Left
  BY <1>4, <1>5
<1> QED
  BY <1>2, <1>3, <1>6

\* f starts from v and takes the given steps.
Steps(f, N, v, step) == f[0] = v /\ \A i \in 1..N : f[i] = step[<<i, f[i - 1]>>]

\* There is a function that starts from v and takes the given steps.
LEMMA Iterates ==
  ASSUME NEW N \in Nat, NEW V, NEW v \in V, NEW step \in [(1..N) \X V -> V]
  PROVE  \E f \in [0..N -> V] : Steps(f, N, v, step)
<1> DEFINE Good(n, f) == f[0] = v /\ \A i \in 1..n : f[i] = step[<<i, f[i - 1]>>]
           P == {n \in 0..N : \E f \in [0..n -> V] : Good(n, f)}
<1>1. 0 \in P
  <2> DEFINE g == [i \in 0..0 |-> v]
  <2>1. g \in [0..0 -> V] /\ g[0] = v /\ 1..0 = {}
    OBVIOUS
  <2>2. Good(0, g)
    BY <2>1
  <2> HIDE DEF g, Good
  <2>3. \E f \in [0..0 -> V] : Good(0, f)
    BY <2>1, <2>2
  <2> QED
    BY <2>3
<1>2. ASSUME NEW n \in 0..(N - 1), n \in P PROVE n + 1 \in P
  <2>1. PICK f \in [0..n -> V] : Good(n, f)
    BY <1>2
  <2> DEFINE g == [i \in 0..(n + 1) |-> IF i = n + 1 THEN step[<<n + 1, f[n]>>] ELSE f[i]]
  <2>2. step[<<n + 1, f[n]>>] \in V
    BY <2>1
  <2>3. g \in [0..(n + 1) -> V]
    BY <2>1, <2>2
  <2>4. g[0] = v /\ \A i \in 0..n : g[i] = f[i]
    BY <2>1
  <2>5. g[n + 1] = step[<<n + 1, f[n]>>] /\ f[n] = g[(n + 1) - 1]
    OBVIOUS
  <2>6. ASSUME NEW i \in 1..(n + 1) PROVE g[i] = step[<<i, g[i - 1]>>]
    <3>1. CASE i = n + 1
      BY <3>1, <2>5
    <3>2. CASE i # n + 1
      <4>1. i \in 1..n /\ i - 1 \in 0..n /\ i \in 0..n
        BY <3>2
      <4> HIDE DEF g
      <4> QED
        BY <4>1, <2>1, <2>4
    <3> QED
      BY <3>1, <3>2
  <2>7. Good(n + 1, g)
    BY <2>4, <2>6
  <2>8. \E h \in [0..(n + 1) -> V] : Good(n + 1, h)
    BY <2>3, <2>7
  <2> QED
    BY <2>8
<1>3. N \in P
  <2>1. \A n \in 0..(N - 1) : n \in P => n + 1 \in P
    BY <1>2
  <2>2. N \in 0..N
    OBVIOUS
  <2> HIDE DEF P
  <2> QED
    BY <1>1, <2>1, <2>2, CountUp
<1> QED
  BY <1>3 DEF Steps

\* The sequences s[1], ..., s[N], put end to end, are in I[N] when I[0] has the
\* empty sequence, and a member of I[n] followed by s[n + 1] is in I[n + 1].
LEMMA FlattenInto ==
  ASSUME NEW N \in Nat, NEW T, NEW s \in [1..N -> Seq(T)],
         NEW I \in [0..N -> SUBSET Seq(T)], <<>> \in I[0],
         \A n \in 0..(N - 1) : \A u \in I[n] : u \o s[n + 1] \in I[n + 1]
  PROVE  FlattenSeq(s) \in I[N]
<1> DEFINE Flattens(f) == f = [n \in 1..N |-> IF n = 1 THEN s[n] ELSE f[n - 1] \o s[n]]
           step == [p \in (1..N) \X Seq(T) |-> IF p[1] = 1 THEN s[1] ELSE p[2] \o s[p[1]]]
           F == CHOOSE f : Flattens(f)
<1>1. s \in Seq(Seq(T)) /\ Len(s) = N
  OBVIOUS
<1>2. CASE N = 0
  <2>1. s = <<>> /\ FlattenSeq(s) = <<>>
    BY <1>1, <1>2, EmptySeq DEF FlattenSeq
  <2> QED
    BY <1>2, <2>1
<1>3. CASE N # 0
  <2>1. 1 \in 1..N /\ N \in 1..N
    BY <1>3
  <2>2. step \in [(1..N) \X Seq(T) -> Seq(T)] /\ <<>> \in Seq(T)
    <3>1. ASSUME NEW p \in (1..N) \X Seq(T)
          PROVE  (IF p[1] = 1 THEN s[1] ELSE p[2] \o s[p[1]]) \in Seq(T)
      <4>1. p[1] \in 1..N /\ p[2] \in Seq(T) /\ s[p[1]] \in Seq(T) /\ s[1] \in Seq(T)
        BY <2>1
      <4> QED
        BY <4>1, ConcatProperties
    <3> QED
      BY <3>1, EmptySeq
  <2>3. PICK f \in [0..N -> Seq(T)] : Steps(f, N, <<>>, step)
    <3> HIDE DEF step
    <3> QED
      BY <2>2, Iterates
  <2> DEFINE h == [n \in 1..N |-> f[n]]
  <2>4. ASSUME NEW n \in 1..N
        PROVE  h[n] = IF n = 1 THEN s[n] ELSE h[n - 1] \o s[n]
    <3>1. n - 1 \in 0..N /\ (n # 1 => n - 1 \in 1..N)
      OBVIOUS
    <3>3. f[n - 1] \in Seq(T)
      BY <2>3, <3>1
    <3>2. f[n] = step[<<n, f[n - 1]>>]
      BY <2>3 DEF Steps
    <3> QED
      BY <3>1, <3>2, <3>3
  <2>5. Flattens(h)
    <3>1. h = [n \in 1..N |-> h[n]]
      OBVIOUS
    <3> HIDE DEF h
    <3> QED
      BY <2>4, <3>1
  <2>6. Flattens(F)
    <3> HIDE DEF Flattens, h
    <3> QED
      BY <2>5
  <2>7. FlattenSeq(s) = F[N]
    BY <1>1, <1>3 DEF FlattenSeq
  <2>8. \A n \in 1..N : F[n] = IF n = 1 THEN s[n] ELSE F[n - 1] \o s[n]
    <3> HIDE DEF F
    <3> QED
      BY <2>6
  <2> DEFINE P == {n \in 0..N : n # 0 => F[n] \in I[n]}
  <2> HIDE DEF F
  <2>9. 0 \in P
    OBVIOUS
  <2>10. ASSUME NEW n \in 0..(N - 1), n \in P PROVE n + 1 \in P
    <3>1. n + 1 \in 1..N /\ n + 1 \in 0..N /\ s[n + 1] \in Seq(T) /\ (n + 1) - 1 = n
      OBVIOUS
    <3>2. CASE n = 0
      <4>1. F[1] = s[1] /\ <<>> \o s[1] = s[1]
        BY <2>1, <2>8, ConcatEmptySeq
      <4>2. <<>> \o s[0 + 1] \in I[0 + 1]
        BY <3>2
      <4>3. s[1] \in I[1]
        BY <4>1, <4>2, 0 + 1 = 1, Zenon
      <4>4. F[1] \in I[1]
        BY <4>1, <4>3, Zenon
      <4>5. n + 1 = 1
        BY <3>2
      <4> QED
        BY <3>1, <4>4, <4>5
    <3>3. CASE n # 0
      <4>1. F[n] \in I[n] /\ n + 1 # 1
        BY <2>10, <3>3
      <4>2. F[n + 1] = F[n] \o s[n + 1]
        BY <2>8, <3>1, <4>1
      <4> QED
        BY <3>1, <4>1, <4>2
    <3> QED
      BY <3>2, <3>3
  <2>11. 0..N \subseteq P
    <3>1. \A n \in 0..(N - 1) : n \in P => n + 1 \in P
      BY <2>10
    <3> HIDE DEF P
    <3> QED
      BY <2>9, <3>1, CountUp
  <2> QED
    BY <1>3, <2>7, <2>11
<1> QED
  BY <1>2, <1>3

List(s) == s \in Seq(ToSet(s))

\* What a list is: a length, and at each place a member of its set.
LEMMA ListFacts ==
  ASSUME NEW s, List(s)
  PROVE  /\ Len(s) \in Nat /\ DOMAIN s = 1..Len(s)
         /\ \A i \in 1..Len(s) : s[i] \in ToSet(s)
         /\ \A x \in ToSet(s) : \E i \in 1..Len(s) : s[i] = x
<1>1. Len(s) \in Nat /\ DOMAIN s = 1..Len(s)
  BY LenProperties DEF List
<1> QED
  BY <1>1 DEF ToSet

\* A sequence of members of S is a list, and its members are in S.
LEMMA ListOf ==
  ASSUME NEW S, NEW s \in Seq(S)
  PROVE  List(s) /\ ToSet(s) \subseteq S
<1>1. Len(s) \in Nat /\ DOMAIN s = 1..Len(s) /\ s \in [1..Len(s) -> S]
  BY LenProperties
<1>2. ToSet(s) \subseteq S
  BY <1>1 DEF ToSet
<1>3. s \in [1..Len(s) -> ToSet(s)]
  BY <1>1 DEF ToSet
<1>4. s \in Seq(ToSet(s))
  BY <1>1, <1>3, SeqDef
<1> QED
  BY <1>2, <1>4 DEF List

\* Lists put end to end.
LEMMA Joined ==
  ASSUME NEW s, NEW t, List(s), List(t)
  PROVE  /\ List(s \o t) /\ ToSet(s \o t) = ToSet(s) \cup ToSet(t)
         /\ Len(s \o t) = Len(s) + Len(t)
         /\ \A i \in 1..Len(s) : (s \o t)[i] = s[i]
         /\ \A i \in (Len(s) + 1)..(Len(s) + Len(t)) : (s \o t)[i] = t[i - Len(s)]
<1> DEFINE S == ToSet(s) \cup ToSet(t)
<1>1. s \in Seq(S) /\ t \in Seq(S)
  BY SeqMonotonic DEF List
<1> HIDE DEF S
<1>2. /\ s \o t \in Seq(S)
      /\ Len(s \o t) = Len(s) + Len(t)
      /\ \A i \in 1..(Len(s) + Len(t)) : (s \o t)[i] = IF i <= Len(s) THEN s[i] ELSE t[i - Len(s)]
  BY <1>1, ConcatProperties
<1>3. List(s \o t) /\ ToSet(s \o t) \subseteq S
  BY <1>2, ListOf
<1>4. Len(s) \in Nat /\ Len(t) \in Nat
  BY ListFacts
<1>5. \A i \in 1..Len(s) : (s \o t)[i] = s[i]
  BY <1>2, <1>4
<1>6. \A i \in (Len(s) + 1)..(Len(s) + Len(t)) : (s \o t)[i] = t[i - Len(s)]
  BY <1>2, <1>4
<1>7. ASSUME NEW x \in ToSet(s) PROVE x \in ToSet(s \o t)
  <2>1. PICK i \in 1..Len(s) : s[i] = x
    BY ListFacts
  <2>2. i \in 1..Len(s \o t) /\ (s \o t)[i] = x
    BY <2>1, <1>2, <1>4, <1>5
  <2> QED
    BY <2>2, <1>3, ListFacts
<1>8. ASSUME NEW x \in ToSet(t) PROVE x \in ToSet(s \o t)
  <2>1. PICK i \in 1..Len(t) : t[i] = x
    BY ListFacts
  <2>2. Len(s) + i \in (Len(s) + 1)..(Len(s) + Len(t)) /\ (Len(s) + i) - Len(s) = i
    BY <2>1, <1>4
  <2>3. Len(s) + i \in 1..Len(s \o t) /\ (s \o t)[Len(s) + i] = x
    BY <2>1, <2>2, <1>2, <1>4, <1>6
  <2> QED
    BY <2>3, <1>3, ListFacts
<1> QED
  BY <1>2, <1>3, <1>5, <1>6, <1>7, <1>8 DEF S

\* A tuple written out is a list of what is written.
LEMMA Tuples ==
  /\ List(<<>>) /\ ToSet(<<>>) = {} /\ Len(<<>>) = 0
  /\ \A a : List(<<a>>) /\ ToSet(<<a>>) = {a}
  /\ \A a, b : List(<<a, b>>) /\ ToSet(<<a, b>>) = {a, b}
  /\ \A a, b, c : List(<<a, b, c>>) /\ ToSet(<<a, b, c>>) = {a, b, c}
  /\ \A a, b, c, d : List(<<a, b, c, d>>) /\ ToSet(<<a, b, c, d>>) = {a, b, c, d}
  /\ \A a, b, c, d, e : List(<<a, b, c, d, e>>) /\ ToSet(<<a, b, c, d, e>>) = {a, b, c, d, e}
<1>1. List(<<>>) /\ ToSet(<<>>) = {} /\ Len(<<>>) = 0
  BY EmptySeq DEF List, ToSet
<1>2. \A a : List(<<a>>) /\ ToSet(<<a>>) = {a}
  BY DEF List, ToSet
<1>3. \A a, b : List(<<a, b>>) /\ ToSet(<<a, b>>) = {a, b}
  BY DEF List, ToSet
<1>4. \A a, b, c : List(<<a, b, c>>) /\ ToSet(<<a, b, c>>) = {a, b, c}
  BY DEF List, ToSet
<1>5. \A a, b, c, d : List(<<a, b, c, d>>) /\ ToSet(<<a, b, c, d>>) = {a, b, c, d}
  BY DEF List, ToSet
<1>6. \A a, b, c, d, e : List(<<a, b, c, d, e>>) /\ ToSet(<<a, b, c, d, e>>) = {a, b, c, d, e}
  BY DEF List, ToSet
<1> QED
  BY <1>1, <1>2, <1>3, <1>4, <1>5, <1>6

\* Lists put end to end are a list of all that they have.
LEMMA Flattened ==
  ASSUME NEW N \in Nat, NEW s, s = [i \in 1..N |-> s[i]], \A i \in 1..N : List(s[i])
  PROVE  /\ List(FlattenSeq(s))
         /\ ToSet(FlattenSeq(s)) = UNION {ToSet(s[i]) : i \in 1..N}
<1> DEFINE T == UNION {ToSet(s[i]) : i \in 1..N}
           I == [n \in 0..N |-> {u \in Seq(T) : ToSet(u) = UNION {ToSet(s[i]) : i \in 1..n}}]
<1>1. ASSUME NEW i \in 1..N PROVE s[i] \in Seq(T)
  <2>1. ToSet(s[i]) \subseteq T
    OBVIOUS
  <2> HIDE DEF T
  <2> QED
    BY <2>1, SeqMonotonic DEF List
<1>2. s \in [1..N -> Seq(T)]
  BY <1>1
<1>3. I \in [0..N -> SUBSET Seq(T)]
  OBVIOUS
<1>4. <<>> \in I[0]
  <2>1. <<>> \in Seq(T) /\ ToSet(<<>>) = {} /\ 0 \in 0..N
    BY EmptySeq, Tuples
  <2> QED
    BY <2>1
<1>5. ASSUME NEW n \in 0..(N - 1), NEW u \in I[n]
      PROVE  u \o s[n + 1] \in I[n + 1]
  <2>1. n \in 0..N /\ n + 1 \in 0..N /\ n + 1 \in 1..N
    OBVIOUS
  <2>2. u \in Seq(T) /\ ToSet(u) = UNION {ToSet(s[i]) : i \in 1..n}
    BY <2>1
  <2>3. s[n + 1] \in Seq(T) /\ List(s[n + 1])
    BY <1>1, <2>1
  <2>4. List(u)
    <3> HIDE DEF T
    <3> QED
      BY <2>2, ListOf
  <2>5. u \o s[n + 1] \in Seq(T)
    <3> HIDE DEF T
    <3> QED
      BY <2>2, <2>3, ConcatProperties
  <2>6. ToSet(u \o s[n + 1]) = ToSet(u) \cup ToSet(s[n + 1])
    BY <2>3, <2>4, Joined
  <2>7. 1..(n + 1) = (1..n) \cup {n + 1}
    BY <2>1
  <2>8. ToSet(u \o s[n + 1]) = UNION {ToSet(s[i]) : i \in 1..(n + 1)}
    BY <2>2, <2>6, <2>7
  <2> QED
    BY <2>1, <2>5, <2>8
<1>6. FlattenSeq(s) \in I[N]
  <2> HIDE DEF I, T
  <2> QED
    BY <1>2, <1>3, <1>4, <1>5, FlattenInto
<1>7. FlattenSeq(s) \in Seq(T) /\ ToSet(FlattenSeq(s)) = T
  BY <1>6
<1> HIDE DEF T
<1> QED
  BY <1>7, ListOf DEF T

-----------------------------------------------------------------------------
(* Paths, and what is written at them.                                     *)

\* The directories of commands, the releases, and the names of files.
Roots == {"build"} \cup Packaged
Releases == 1..MaxRelease
Ids == {n.id : n \in Nodes}
Plain == {"private", "public", "org", "version", "network"}
Parts == {"config", "main", "image"}

OrgPaths ==
  {<<f>> : f \in Plain} \cup {<<"nodes", x>> : x \in Ids}
    \cup {<<"nodes", x, f>> : x \in Ids, f \in Parts}
OrgsPaths ==
  {<<"orgs", d, f>> : d \in Dirs, f \in Plain} \cup {<<"orgs", d, "nodes", x>> : d \in Dirs, x \in Ids}
    \cup {<<"orgs", d, "nodes", x, f>> : d \in Dirs, x \in Ids, f \in Parts}
SourcePaths == {<<"version">>} \cup {<<"dist", v>> : v \in Releases}
ContractPaths == {<<"abi">>} \cup {<<"chaincodes", c.base>> : c \in Codes}
NetworkPaths == OrgsPaths \cup ContractPaths \cup {<<"compose">>}
BuildPaths == SourcePaths \cup NetworkPaths
WorkspacePaths == SourcePaths \cup ContractPaths \cup OrgPaths
PathsOf(root) == IF root = "build" THEN BuildPaths ELSE WorkspacePaths
Paths == BuildPaths \cup WorkspacePaths

\* The folder of a node, with each of its files.
Inside ==
  {<<<<"nodes", x>>, <<"nodes", x, f>>>> : x \in Ids, f \in Parts}
    \cup {<<<<"orgs", d, "nodes", x>>, <<"orgs", d, "nodes", x, f>>>> : d \in Dirs, x \in Ids, f \in Parts}

\* A path begins with a when a is its first part.
LEMMA FirstOf ==
  ASSUME NEW p, List(p), p # <<>>, NEW a
  PROVE  IsPrefix(<<a>>, p) <=> p[1] = a
<1>1. p \in Seq(ToSet(p)) /\ Len(p) \in Nat \ {0}
  BY EmptySeq DEF List
<1>2. ASSUME NEW S, NEW s \in Seq(S), Len(s) \in Nat \ {0}
      PROVE  SubSeq(s, 1, 1) = <<s[1]>>
  <2>1. 1 \in 1..Len(s) /\ \A i \in 1..1 : s[i] \in S
    BY <1>2
  <2>2. /\ SubSeq(s, 1, 1) \in Seq(S) /\ Len(SubSeq(s, 1, 1)) = 1
        /\ SubSeq(s, 1, 1)[1] = s[1]
    BY <2>1, SubSeqProperties
  <2> DEFINE t == SubSeq(s, 1, 1)
             u == <<s[1]>>
  <2>3. t \in Seq(S) /\ u \in Seq(S) /\ Len(t) = Len(u) /\ \A i \in 1..Len(t) : t[i] = u[i]
    BY <2>1, <2>2
  <2> HIDE DEF t, u
  <2>4. t = u
    BY <2>3, SeqEqual
  <2> QED
    BY <2>4 DEF t, u
<1>3. SubSeq(p, 1, 1) = <<p[1]>>
  BY <1>1, <1>2
<1>4. SubSeq(<<a>>, 1, 1) = <<a>> /\ Len(<<a>>) = 1
  <2>1. <<a>> \in Seq({a}) /\ Len(<<a>>) = 1 /\ <<a>>[1] = a
    OBVIOUS
  <2> DEFINE s == <<a>>
  <2> HIDE DEF s
  <2>2. s \in Seq({a}) /\ Len(s) = 1 /\ s[1] = a
    BY <2>1 DEF s
  <2>3. SubSeq(s, 1, 1) = <<s[1]>>
    BY <1>2, <2>2
  <2> QED
    BY <2>1, <2>2, <2>3 DEF s
<1> QED
  BY <1>1, <1>3, <1>4 DEF IsPrefix

\* What is under dist is the archive of a release.
LEMMA PathFacts ==
  ASSUME NEW p \in Paths
  PROVE  /\ IsPrefix(<<"dist">>, p) <=> p[1] = "dist"
         /\ p[1] = "dist" => \E v \in Releases : p = <<"dist", v>>
<1>1. List(p) /\ p # <<>>
  <2>1. CASE p \in {<<f>> : f \in Plain \cup {"abi", "compose"}}
    BY <2>1, Tuples
  <2>2. CASE \E a, b : p = <<a, b>>
    BY <2>2, Tuples
  <2>3. CASE \E a, b, c : p = <<a, b, c>>
    BY <2>3, Tuples
  <2>4. CASE \E a, b, c, d : p = <<a, b, c, d>>
    BY <2>4, Tuples
  <2>5. CASE \E a, b, c, d, e : p = <<a, b, c, d, e>>
    BY <2>5, Tuples
  <2> QED
    BY <2>1, <2>2, <2>3, <2>4, <2>5
    DEF Paths, BuildPaths, WorkspacePaths, SourcePaths, NetworkPaths, ContractPaths, OrgPaths, OrgsPaths, Plain
<1>2. p[1] = "dist" => \E v \in Releases : p = <<"dist", v>>
  BY DEF Paths, BuildPaths, WorkspacePaths, SourcePaths, NetworkPaths, ContractPaths, OrgPaths, OrgsPaths, Plain
<1> QED
  BY <1>1, <1>2, FirstOf

\* A file is there with the given content.
Has(files, p, c) == p \in DOMAIN files /\ files[p] = c

\* Writing a file leaves every other file as it is.
LEMMA PutWrite ==
  ASSUME NEW files, NEW w, w.put # Gone
  PROVE  /\ DOMAIN Written(files, w) = DOMAIN files \cup {w.at}
         /\ Written(files, w)[w.at] = w.put
         /\ \A p \in DOMAIN files : p # w.at => Written(files, w)[p] = files[p]
BY DEF Written, Entered

\* Removing dist leaves every file that is not under it.
LEMMA GoneWrite ==
  ASSUME NEW files, DOMAIN files \subseteq Paths, NEW w, w = Put(<<"dist">>, Gone)
  PROVE  /\ DOMAIN Written(files, w) = {p \in DOMAIN files : p[1] # "dist"}
         /\ \A p \in DOMAIN Written(files, w) : Written(files, w)[p] = files[p]
<1>1. w.put = Gone /\ w.at = <<"dist">>
  BY DEF Put
<1>2. DOMAIN files \ Under(files, <<"dist">>) = {p \in DOMAIN files : p[1] # "dist"}
  BY PathFacts DEF Under
<1> QED
  BY <1>1, <1>2 DEF Written, Restrict

-----------------------------------------------------------------------------
\* What a file of each kind holds when it is not torn.
Holds(kind, c) ==
  /\ c[1] = kind
  /\ kind = "version" => c = <<"version", c[2]>> /\ c[2] \in Releases
  /\ kind = "org" => c = <<"org", c[2]>> /\ c[2] \in Orgs
  /\ kind = "network" => c = <<"network", c[2]>> /\ c[2] \in Seq(Codes)
  /\ kind = "folder" => c = Folder

Fits(p, c) ==
  \/ c = Torn /\ Kind(p) # "folder"
  \/ Holds(Kind(p), c)

\* A write of one of the paths that puts there what belongs there.
Fit(w, paths) ==
  /\ w \in [at : {w.at}, put : {w.put}]
  /\ w.at \in paths
  /\ w.put # Gone
  /\ Fits(w.at, w.put)

\* A node's folder comes before its files.
Housed(todo) ==
  \A i \in 1..Len(todo) : \A h \in Inside :
    todo[i].at = h[2] => \E j \in 1..(i - 1) : todo[j].at = h[1]

\* The kind of each path.
LEMMA KindOf ==
  /\ \A f \in Plain \cup {"abi", "compose"} : Kind(<<f>>) = f
  /\ \A v : Kind(<<"dist", v>>) = "source" /\ Kind(<<"chaincodes", v>>) = "code"
  /\ \A x : Kind(<<"nodes", x>>) = "folder"
  /\ \A x : \A f \in Parts : Kind(<<"nodes", x, f>>) = f
  /\ \A d : \A f \in Plain : Kind(<<"orgs", d, f>>) = f
  /\ \A d, x : Kind(<<"orgs", d, "nodes", x>>) = "folder"
  /\ \A d, x : \A f \in Parts : Kind(<<"orgs", d, "nodes", x, f>>) = f
<1>1. \A f \in Plain \cup {"abi", "compose"} : Kind(<<f>>) = f
  BY DEF Kind, Last, Plain
<1>2. \A v : Kind(<<"dist", v>>) = "source" /\ Kind(<<"chaincodes", v>>) = "code"
  BY DEF Kind, Last
<1>3. \A x : Kind(<<"nodes", x>>) = "folder"
  BY DEF Kind, Last
<1>4. \A x : \A f \in Parts : Kind(<<"nodes", x, f>>) = f
  BY DEF Kind, Last
<1>5. \A d : \A f \in Plain : Kind(<<"orgs", d, f>>) = f
  BY DEF Kind, Last
<1>6. \A d, x : Kind(<<"orgs", d, "nodes", x>>) = "folder"
  BY DEF Kind, Last
<1>7. \A d, x : \A f \in Parts : Kind(<<"orgs", d, "nodes", x, f>>) = f
  BY DEF Kind, Last
<1> QED
  BY <1>1, <1>2, <1>3, <1>4, <1>5, <1>6, <1>7

\* A sequence that agrees with two others, one after the other, is their
\* concatenation.
LEMMA Concatenation ==
  ASSUME NEW s, NEW t, NEW u, List(s), List(t), List(u), Len(u) = Len(s) + Len(t),
         \A i \in 1..Len(s) : u[i] = s[i], \A i \in 1..Len(t) : u[Len(s) + i] = t[i]
  PROVE  s \o t = u
<1> DEFINE S == ToSet(s) \cup ToSet(t) \cup ToSet(u)
           v == s \o t
<1>1. Len(s) \in Nat /\ Len(t) \in Nat
  BY ListFacts
<1>2. u \in Seq(S) /\ s \in Seq(S) /\ t \in Seq(S)
  BY SeqMonotonic DEF List
<1>3. v \in Seq(S)
  <2> HIDE DEF S
  <2> QED
    BY <1>2, ConcatProperties
<1>4. Len(v) = Len(u) /\ \A i \in 1..Len(v) : v[i] = u[i]
  <2>1. /\ Len(v) = Len(s) + Len(t)
        /\ \A i \in 1..Len(s) : v[i] = s[i]
        /\ \A i \in (Len(s) + 1)..(Len(s) + Len(t)) : v[i] = t[i - Len(s)]
    BY Joined
  <2> HIDE DEF v
  <2>2. ASSUME NEW i \in 1..Len(v), i \notin 1..Len(s) PROVE v[i] = u[i]
    <3>1. i - Len(s) \in 1..Len(t) /\ Len(s) + (i - Len(s)) = i
      BY <1>1, <2>1, <2>2
    <3>2. u[i] = t[i - Len(s)]
      BY <3>1
    <3>3. v[i] = t[i - Len(s)]
      BY <1>1, <2>1, <2>2
    <3> QED
      BY <3>2, <3>3
  <2> QED
    BY <2>1, <2>2
<1> HIDE DEF S, v
<1>5. v = u
  BY <1>2, <1>3, <1>4, SeqEqual
<1> QED
  BY <1>5 DEF v

\* Paths of two, three, four and five parts, from a directory and what is in it.
LEMMA Beneath ==
  /\ \A f : <<>> \o <<f>> = <<f>>
  /\ \A f, g : <<>> \o <<f, g>> = <<f, g>>
  /\ \A a, b, f : <<a, b>> \o <<f>> = <<a, b, f>>
  /\ \A a, b, f, g : <<a, b>> \o <<f, g>> = <<a, b, f, g>>
  /\ \A a, b, f, g, h : <<a, b>> \o <<f, g, h>> = <<a, b, f, g, h>>
  /\ \A a, b, c, d, f : <<a, b, c, d>> \o <<f>> = <<a, b, c, d, f>>
<1>1. \A f : <<>> \o <<f>> = <<f>>
  OBVIOUS
<1>2. \A f, g : <<>> \o <<f, g>> = <<f, g>>
  OBVIOUS
<1>3. ASSUME NEW a, NEW b, NEW f
      PROVE  <<a, b>> \o <<f>> = <<a, b, f>>
  <2> DEFINE s == <<a, b>>
             t == <<f>>
             u == <<a, b, f>>
  <2>1. List(s) /\ List(t) /\ List(u)
    BY Tuples
  <2>2. Len(s) = 2 /\ Len(t) = 1 /\ Len(u) = 3
    OBVIOUS
  <2>3. u[1] = s[1] /\ u[2] = s[2]
    OBVIOUS
  <2>4. u[3] = t[1]
    OBVIOUS
  <2> HIDE DEF s, t, u
  <2>5. /\ Len(u) = Len(s) + Len(t) /\ \A i \in 1..Len(s) : u[i] = s[i]
        /\ \A i \in 1..Len(t) : u[Len(s) + i] = t[i]
    BY <2>2, <2>3, <2>4
  <2>6. s \o t = u
    BY <2>1, <2>2, <2>5, Concatenation
  <2> QED
    BY <2>6 DEF s, t, u
<1>4. ASSUME NEW a, NEW b, NEW f, NEW g
      PROVE  <<a, b>> \o <<f, g>> = <<a, b, f, g>>
  <2> DEFINE s == <<a, b>>
             t == <<f, g>>
             u == <<a, b, f, g>>
  <2>1. List(s) /\ List(t) /\ List(u)
    BY Tuples
  <2>2. Len(s) = 2 /\ Len(t) = 2 /\ Len(u) = 4
    OBVIOUS
  <2>3. u[1] = s[1] /\ u[2] = s[2]
    OBVIOUS
  <2>4. u[3] = t[1] /\ u[4] = t[2]
    OBVIOUS
  <2> HIDE DEF s, t, u
  <2>5. /\ Len(u) = Len(s) + Len(t) /\ \A i \in 1..Len(s) : u[i] = s[i]
        /\ \A i \in 1..Len(t) : u[Len(s) + i] = t[i]
    BY <2>2, <2>3, <2>4
  <2>6. s \o t = u
    BY <2>1, <2>2, <2>5, Concatenation
  <2> QED
    BY <2>6 DEF s, t, u
<1>5. ASSUME NEW a, NEW b, NEW f, NEW g, NEW h
      PROVE  <<a, b>> \o <<f, g, h>> = <<a, b, f, g, h>>
  <2> DEFINE s == <<a, b>>
             t == <<f, g, h>>
             u == <<a, b, f, g, h>>
  <2>1. List(s) /\ List(t) /\ List(u)
    BY Tuples
  <2>2. Len(s) = 2 /\ Len(t) = 3 /\ Len(u) = 5
    OBVIOUS
  <2>3. u[1] = s[1] /\ u[2] = s[2]
    OBVIOUS
  <2>4. u[3] = t[1] /\ u[4] = t[2] /\ u[5] = t[3]
    OBVIOUS
  <2> HIDE DEF s, t, u
  <2>5. /\ Len(u) = Len(s) + Len(t) /\ \A i \in 1..Len(s) : u[i] = s[i]
        /\ \A i \in 1..Len(t) : u[Len(s) + i] = t[i]
    BY <2>2, <2>3, <2>4
  <2>6. s \o t = u
    BY <2>1, <2>2, <2>5, Concatenation
  <2> QED
    BY <2>6 DEF s, t, u
<1>6. ASSUME NEW a, NEW b, NEW c, NEW d, NEW f
      PROVE  <<a, b, c, d>> \o <<f>> = <<a, b, c, d, f>>
  <2> DEFINE s == <<a, b, c, d>>
             t == <<f>>
             u == <<a, b, c, d, f>>
  <2>1. List(s) /\ List(t) /\ List(u)
    BY Tuples
  <2>2. Len(s) = 4 /\ Len(t) = 1 /\ Len(u) = 5
    OBVIOUS
  <2>3. u[1] = s[1] /\ u[2] = s[2] /\ u[3] = s[3] /\ u[4] = s[4]
    OBVIOUS
  <2>4. u[5] = t[1]
    OBVIOUS
  <2> HIDE DEF s, t, u
  <2>5. /\ Len(u) = Len(s) + Len(t) /\ \A i \in 1..Len(s) : u[i] = s[i]
        /\ \A i \in 1..Len(t) : u[Len(s) + i] = t[i]
    BY <2>2, <2>3, <2>4
  <2>6. s \o t = u
    BY <2>1, <2>2, <2>5, Concatenation
  <2> QED
    BY <2>6 DEF s, t, u
<1> QED
  BY <1>1, <1>2, <1>3, <1>4, <1>5, <1>6

\* Two lists with each folder before its files, one after the other.
LEMMA HousedJoined ==
  ASSUME NEW s, NEW t, List(s), List(t), Housed(s), Housed(t)
  PROVE  Housed(s \o t)
<1> DEFINE u == s \o t
<1>1. /\ Len(u) = Len(s) + Len(t) /\ Len(s) \in Nat /\ Len(t) \in Nat
      /\ \A i \in 1..Len(s) : u[i] = s[i]
      /\ \A i \in (Len(s) + 1)..(Len(s) + Len(t)) : u[i] = t[i - Len(s)]
  BY Joined, ListFacts
<1> HIDE DEF u
<1>2. ASSUME NEW i \in 1..Len(u), NEW h \in Inside, u[i].at = h[2]
      PROVE  \E j \in 1..(i - 1) : u[j].at = h[1]
  <2>1. CASE i \in 1..Len(s)
    <3>1. PICK j \in 1..(i - 1) : s[j].at = h[1]
      BY <1>1, <1>2, <2>1 DEF Housed
    <3> QED
      BY <1>1, <2>1, <3>1
  <2>2. CASE i \notin 1..Len(s)
    <3>1. i \in (Len(s) + 1)..(Len(s) + Len(t)) /\ i - Len(s) \in 1..Len(t)
      BY <1>1, <2>2
    <3>2. t[i - Len(s)].at = h[2]
      BY <1>1, <1>2, <3>1
    <3>3. PICK j \in 1..((i - Len(s)) - 1) : t[j].at = h[1]
      BY <3>1, <3>2 DEF Housed
    <3>4. Len(s) + j \in (Len(s) + 1)..(Len(s) + Len(t)) /\ (Len(s) + j) - Len(s) = j
          /\ Len(s) + j \in 1..(i - 1)
      BY <1>1, <3>1, <3>3
    <3>5. u[Len(s) + j] = t[j]
      BY <1>1, <3>4
    <3> QED
      BY <3>3, <3>4, <3>5
  <2> QED
    BY <2>1, <2>2
<1>3. Housed(u)
  BY <1>2 DEF Housed
<1> QED
  BY <1>3 DEF u

\* Any number of them, one after the other.
LEMMA HousedFlattened ==
  ASSUME NEW N \in Nat, NEW s, s = [i \in 1..N |-> s[i]],
         \A i \in 1..N : List(s[i]) /\ Housed(s[i])
  PROVE  Housed(FlattenSeq(s))
<1> DEFINE T == UNION {ToSet(s[i]) : i \in 1..N}
           I == [n \in 0..N |-> {u \in Seq(T) : Housed(u)}]
<1>1. ASSUME NEW i \in 1..N PROVE s[i] \in Seq(T)
  <2>1. ToSet(s[i]) \subseteq T
    OBVIOUS
  <2> HIDE DEF T
  <2> QED
    BY <2>1, SeqMonotonic DEF List
<1>2. s \in [1..N -> Seq(T)]
  BY <1>1
<1>3. I \in [0..N -> SUBSET Seq(T)]
  OBVIOUS
<1>4. <<>> \in I[0]
  <2>1. <<>> \in Seq(T) /\ Len(<<>>) = 0 /\ 0 \in 0..N
    BY EmptySeq
  <2>2. Housed(<<>>)
    BY <2>1 DEF Housed
  <2> QED
    BY <2>1, <2>2
<1>5. ASSUME NEW n \in 0..(N - 1), NEW u \in I[n]
      PROVE  u \o s[n + 1] \in I[n + 1]
  <2>1. n \in 0..N /\ n + 1 \in 0..N /\ n + 1 \in 1..N
    OBVIOUS
  <2>2. u \in Seq(T) /\ Housed(u)
    BY <2>1
  <2>3. s[n + 1] \in Seq(T)
    BY <1>1, <2>1
  <2> HIDE DEF T
  <2>4. List(u) /\ List(s[n + 1]) /\ Housed(s[n + 1])
    BY <2>1, <2>2, ListOf
  <2>5. u \o s[n + 1] \in Seq(T)
    BY <2>2, <2>3, ConcatProperties
  <2>6. Housed(u \o s[n + 1])
    BY <2>2, <2>4, HousedJoined
  <2> QED
    BY <2>1, <2>5, <2>6
<1>6. FlattenSeq(s) \in I[N]
  <2> HIDE DEF I, T
  <2> QED
    BY <1>2, <1>3, <1>4, <1>5, FlattenInto
<1> QED
  BY <1>6

\* The organizations and chaincodes of a network.
LEMMA NetworkTypes ==
  ASSUME NEW cfg \in Networks
  PROVE  /\ cfg.orgs \in Seq(Orgs) /\ List(cfg.orgs) /\ cfg.orgs # <<>>
         /\ cfg.codes \in Seq(Codes) /\ List(cfg.codes)
<1>1. cfg.orgs \in Seq(Orgs) /\ cfg.orgs # <<>> /\ cfg.codes \in Seq(Codes)
  BY ArtifactsAssumption
<1> QED
  BY <1>1, ListOf

\* The name and the nodes of an organization.
LEMMA OrgTypes ==
  ASSUME NEW org \in Orgs
  PROVE  /\ org.name \in DOMAIN Dir /\ Dir[org.name] \in Dirs
         /\ org.nodes \in Seq(Nodes) /\ List(org.nodes)
         /\ \A n \in ToSet(org.nodes) : n \in Nodes /\ n.id \in Ids
<1>1. org.name \in DOMAIN Dir /\ org.nodes \in Seq(Nodes)
  BY DEF Orgs
<1> QED
  BY <1>1, ListOf DEF Dirs, Ids

\* Where the files of a node are.
NodeHomes == {<<"nodes", x>> : x \in Ids} \cup {<<"orgs", d, "nodes", x>> : d \in Dirs, x \in Ids}

\* The folder of a node and the files in it: which path is inside which.
LEMMA NodePaths ==
  ASSUME NEW home \in NodeHomes, NEW f \in Parts
  PROVE  /\ Kind(home) = "folder" /\ Kind(home \o <<f>>) = f
         /\ <<home, home \o <<f>>>> \in Inside
         /\ \A h \in Inside : h[2] # home /\ (h[2] = home \o <<f>> => h[1] = home)
<1>1. CASE \E x \in Ids : home = <<"nodes", x>>
  <2>1. PICK x \in Ids : home = <<"nodes", x>>
    BY <1>1
  <2>2. home \o <<f>> = <<"nodes", x, f>>
    BY <2>1, Beneath
  <2>3. <<home, home \o <<f>>>> \in Inside
    BY <2>1, <2>2 DEF Inside
  <2>4. Kind(home) = "folder"
    BY <2>1, KindOf, Zenon
  <2>7. Kind(<<"nodes", x, f>>) = f
    BY KindOf
  <2>6. Kind(home \o <<f>>) = f
    BY <2>2, <2>7
  <2>5. ASSUME NEW h \in Inside PROVE h[2] # home /\ (h[2] = home \o <<f>> => h[1] = home)
    BY <2>1, <2>2 DEF Inside
  <2> QED
    BY <2>3, <2>4, <2>5, <2>6
<1>2. CASE \E d \in Dirs, x \in Ids : home = <<"orgs", d, "nodes", x>>
  <2>1. PICK d \in Dirs, x \in Ids : home = <<"orgs", d, "nodes", x>>
    BY <1>2
  <2>2. home \o <<f>> = <<"orgs", d, "nodes", x, f>>
    BY <2>1, Beneath
  <2>3. <<home, home \o <<f>>>> \in Inside
    BY <2>1, <2>2 DEF Inside
  <2>4. Kind(home) = "folder"
    BY <2>1, KindOf, Zenon
  <2>7. Kind(<<"orgs", d, "nodes", x, f>>) = f
    BY KindOf
  <2>6. Kind(home \o <<f>>) = f
    BY <2>2, <2>7
  <2>5. ASSUME NEW h \in Inside PROVE h[2] # home /\ (h[2] = home \o <<f>> => h[1] = home)
    BY <2>1, <2>2 DEF Inside
  <2> QED
    BY <2>3, <2>4, <2>5, <2>6
<1> QED
  BY <1>1, <1>2 DEF NodeHomes

\* The khoai-config.yaml of a node.
ConfigOf(me, peers) ==
  <<"config", [org |-> me.org.name, id |-> me.node.id, address |-> Address(me),
               listen |-> me.node.port, peers |-> peers]>>

\* The files of a node are its folder, its khoai-config.yaml, its main.go and
\* its image, the folder first.
LEMMA NodeFilesFacts ==
  ASSUME NEW home \in NodeHomes, NEW me, NEW peers
  PROVE  /\ List(NodeFiles(home, me, peers)) /\ Housed(NodeFiles(home, me, peers))
         /\ Len(NodeFiles(home, me, peers)) = 4
         /\ ToSet(NodeFiles(home, me, peers)) =
              {Put(home, Folder), Put(home \o <<"config">>, ConfigOf(me, peers)),
               Put(home \o <<"main">>, <<"main">>),
               Put(home \o <<"image">>, <<"image", home, me.node.port>>)}
         /\ \A w \in ToSet(NodeFiles(home, me, peers)) :
              Fit(w, {home} \cup {home \o <<f>> : f \in Parts})
<1> DEFINE w1 == Put(home, Folder)
           w2 == Put(home \o <<"config">>, ConfigOf(me, peers))
           w3 == Put(home \o <<"main">>, <<"main">>)
           w4 == Put(home \o <<"image">>, <<"image", home, me.node.port>>)
           P == {home} \cup {home \o <<f>> : f \in Parts}
<1>1. NodeFiles(home, me, peers) = <<w1, w2, w3, w4>>
  BY DEF NodeFiles, ConfigOf
<1>2. /\ w1.at = home /\ w2.at = home \o <<"config">> /\ w3.at = home \o <<"main">>
      /\ w4.at = home \o <<"image">>
  BY DEF Put
<1>3. Fit(w1, P)
  <2>1. Kind(home) = "folder"
    BY NodePaths DEF Parts
  <2>2. Fits(home, Folder)
    BY <2>1 DEF Fits, Holds, Folder
  <2> QED
    BY <2>2 DEF Fit, Put, Folder, Gone
<1>4. \A w \in {w2, w3, w4} : Fit(w, P)
  <2>1. {"config", "main", "image"} = Parts
    BY DEF Parts
  <2>2. ASSUME NEW f \in Parts, NEW c, c[1] = f PROVE Fits(home \o <<f>>, c)
    <3>1. Kind(home \o <<f>>) = f
      BY NodePaths
    <3> QED
      BY <2>2, <3>1, <2>1 DEF Fits, Holds
  <2>3. ASSUME NEW f \in Parts, NEW c, c[1] = f PROVE Fit(Put(home \o <<f>>, c), P)
    <3>1. Fits(home \o <<f>>, c) /\ c # Gone
      BY <2>2, <2>3 DEF Gone, Parts
    <3> QED
      BY <3>1 DEF Fit, Put
  <2>4. /\ ConfigOf(me, peers)[1] = "config" /\ <<"main">>[1] = "main"
        /\ <<"image", home, me.node.port>>[1] = "image"
    BY DEF ConfigOf
  <2> QED
    BY <2>1, <2>3, <2>4
<1>5. Housed(<<w1, w2, w3, w4>>)
  <2> DEFINE s == <<w1, w2, w3, w4>>
  <2>1. Len(s) = 4 /\ s[1] = w1 /\ s[2] = w2 /\ s[3] = w3 /\ s[4] = w4
    OBVIOUS
  <2> HIDE DEF s, w1, w2, w3, w4
  <2>2. ASSUME NEW i \in 1..4, NEW h \in Inside, s[i].at = h[2]
        PROVE  \E j \in 1..(i - 1) : s[j].at = h[1]
    <3>1. i # 1
      <4>1. h[2] # home
        BY NodePaths DEF Parts
      <4> QED
        BY <1>2, <2>1, <2>2, <4>1
    <3>2. \E f \in Parts : h[2] = home \o <<f>>
      BY <1>2, <2>1, <2>2, <3>1 DEF Parts
    <3>3. h[1] = home
      BY <3>2, NodePaths
    <3> QED
      BY <1>2, <2>1, <3>1, <3>3
  <2>3. Housed(s)
    BY <2>1, <2>2 DEF Housed
  <2> QED
    BY <2>3 DEF s
<1> HIDE DEF w1, w2, w3, w4, P
<1>6. List(<<w1, w2, w3, w4>>) /\ ToSet(<<w1, w2, w3, w4>>) = {w1, w2, w3, w4}
      /\ Len(<<w1, w2, w3, w4>>) = 4
  BY Tuples
<1>7. \A w \in ToSet(NodeFiles(home, me, peers)) : Fit(w, P)
  BY <1>1, <1>3, <1>4, <1>6
<1> QED
  BY <1>1, <1>5, <1>6, <1>7 DEF w1, w2, w3, w4, P

\* A list with no file of a node's folder.
LEMMA HousedWithout ==
  ASSUME NEW s, List(s), \A w \in ToSet(s) : \A h \in Inside : w.at # h[2]
  PROVE  Housed(s)
BY ListFacts DEF Housed

\* The paths of an organization's own files, and of the contracts, are not a
\* node's.
LEMMA NotInside ==
  ASSUME NEW h \in Inside
  PROVE  /\ \A a : h[2] # <<a>>
         /\ \A a, b : h[2] # <<a, b>>
         /\ \A d : \A f \in Plain : h[2] # <<"orgs", d, f>>
BY DEF Inside, Plain

\* The j-th node of an organization.
Me(org, j) == [org |-> org, node |-> org.nodes[j]]

\* What an organization has besides its nodes.
PlainFiles(home, org, key, version) ==
  {Put(home \o <<"private">>, <<"private", key>>), Put(home \o <<"public">>, <<"public", key>>),
   Put(home \o <<"org">>, <<"org", org>>), Put(home \o <<"version">>, version),
   Put(home \o <<"network">>, <<"network", <<>>>>)}

\* The files of its j-th node.
NodeFilesOf(org, cfg, j) == NodeFiles(NodeHome(Me(org, j)), Me(org, j), Peers(cfg, Me(org, j)))

\* What the generator writes for an organization: its keys and settings, and
\* the files of each node.
LEMMA OrgFilesFacts ==
  ASSUME NEW org \in Orgs, NEW cfg, NEW key, NEW v \in Releases
  PROVE  LET all == OrgFiles(org, cfg, key, <<"version", v>>)
         IN  /\ List(all) /\ Housed(all)
             /\ ToSet(all) = PlainFiles(OrgHome(org), org, key, <<"version", v>>)
                  \cup UNION {ToSet(NodeFilesOf(org, cfg, j)) : j \in 1..Len(org.nodes)}
             /\ \A w \in ToSet(all) : Fit(w, OrgsPaths)
<1> DEFINE d == Dir[org.name]
           version == <<"version", v>>
           p1 == Put(OrgHome(org) \o <<"private">>, <<"private", key>>)
           p2 == Put(OrgHome(org) \o <<"public">>, <<"public", key>>)
           p3 == Put(OrgHome(org) \o <<"org">>, <<"org", org>>)
           p4 == Put(OrgHome(org) \o <<"version">>, version)
           p5 == Put(OrgHome(org) \o <<"network">>, <<"network", <<>>>>)
           N == Len(org.nodes)
           s == [j \in 1..N |-> NodeFilesOf(org, cfg, j)]
<1>1. /\ N \in Nat /\ DOMAIN org.nodes = 1..N /\ d \in Dirs
      /\ \A j \in 1..N : org.nodes[j] \in ToSet(org.nodes) /\ org.nodes[j].id \in Ids
  BY OrgTypes, ListFacts
<1>2. OrgFiles(org, cfg, key, version) = <<p1, p2>> \o <<p3, p4, p5>> \o FlattenSeq(s)
  BY <1>1 DEF OrgFiles, Identity, NodeFilesOf, Me
<1>3. \A f : OrgHome(org) \o <<f>> = <<"orgs", d, f>>
  BY Beneath DEF OrgHome
<1>4. ASSUME NEW j \in 1..N
      PROVE  /\ NodeHome(Me(org, j)) = <<"orgs", d, "nodes", org.nodes[j].id>>
             /\ NodeHome(Me(org, j)) \in NodeHomes
  <2>1. NodeHome(Me(org, j)) = <<"orgs", d>> \o <<"nodes", org.nodes[j].id>>
    BY DEF NodeHome, Me, OrgHome
  <2> QED
    BY <1>1, <2>1, Beneath DEF NodeHomes
<1>5. ASSUME NEW j \in 1..N
      PROVE  /\ List(s[j]) /\ Housed(s[j]) /\ \A w \in ToSet(s[j]) : Fit(w, OrgsPaths)
  <2> DEFINE home == NodeHome(Me(org, j))
  <2>1. /\ List(s[j]) /\ Housed(s[j])
        /\ \A w \in ToSet(s[j]) : Fit(w, {home} \cup {home \o <<f>> : f \in Parts})
    <3>1. s[j] = NodeFiles(home, Me(org, j), Peers(cfg, Me(org, j)))
      BY DEF NodeFilesOf
    <3>2. home \in NodeHomes
      BY <1>4
    <3> HIDE DEF home, s
    <3> QED
      BY <3>1, <3>2, NodeFilesFacts
  <2>2. {home} \cup {home \o <<f>> : f \in Parts} \subseteq OrgsPaths
    <3> DEFINE x == org.nodes[j].id
    <3>1. home = <<"orgs", d, "nodes", x>> /\ d \in Dirs /\ x \in Ids
      BY <1>1, <1>4
    <3> HIDE DEF home, d, x
    <3>2. ASSUME NEW f \in Parts PROVE home \o <<f>> = <<"orgs", d, "nodes", x, f>>
      BY <3>1, Beneath
    <3>3. home \in OrgsPaths
      BY <3>1 DEF OrgsPaths
    <3>4. ASSUME NEW f \in Parts PROVE home \o <<f>> \in OrgsPaths
      BY <3>1, <3>2 DEF OrgsPaths
    <3> QED
      BY <3>3, <3>4
  <2> QED
    BY <2>1, <2>2 DEF Fit
<1>6. \A w \in {p1, p2, p3, p4, p5} :
        Fit(w, OrgsPaths) /\ \E f \in Plain : w.at = <<"orgs", d, f>>
  <2>1. ASSUME NEW f \in Plain, NEW c, Holds(f, c)
        PROVE  Fit(Put(OrgHome(org) \o <<f>>, c), OrgsPaths)
               /\ Put(OrgHome(org) \o <<f>>, c).at = <<"orgs", d, f>>
    <3>1. Kind(<<"orgs", d, f>>) = f
      BY KindOf
    <3>2. Put(OrgHome(org) \o <<f>>, c) = [at |-> <<"orgs", d, f>>, put |-> c]
      BY <1>3 DEF Put
    <3>3. <<"orgs", d, f>> \in OrgsPaths
      BY <1>1 DEF OrgsPaths
    <3>4. c # Gone
      BY <2>1 DEF Holds, Gone, Plain
    <3> HIDE DEF d
    <3> QED
      BY <2>1, <3>1, <3>2, <3>3, <3>4 DEF Fit, Fits
  <2>2. Holds("private", <<"private", key>>) /\ Holds("public", <<"public", key>>)
    BY DEF Holds
  <2>3. Holds("org", <<"org", org>>) /\ Holds("version", version)
    BY DEF Holds
  <2>4. Holds("network", <<"network", <<>>>>)
    BY EmptySeq DEF Holds
  <2>5. {"private", "public", "org", "version", "network"} = Plain
    BY DEF Plain
  <2> HIDE DEF version, d
  <2>6. Fit(p1, OrgsPaths) /\ p1.at = <<"orgs", d, "private">>
    BY <2>1, <2>2, <2>5
  <2>7. Fit(p2, OrgsPaths) /\ p2.at = <<"orgs", d, "public">>
    BY <2>1, <2>2, <2>5
  <2>8. Fit(p3, OrgsPaths) /\ p3.at = <<"orgs", d, "org">>
    BY <2>1, <2>3, <2>5
  <2>9. Fit(p4, OrgsPaths) /\ p4.at = <<"orgs", d, "version">>
    BY <2>1, <2>3, <2>5
  <2>10. Fit(p5, OrgsPaths) /\ p5.at = <<"orgs", d, "network">>
    BY <2>1, <2>4, <2>5
  <2> HIDE DEF p1, p2, p3, p4, p5
  <2> QED
    BY <2>5, <2>6, <2>7, <2>8, <2>9, <2>10
<1>7. {p1, p2, p3, p4, p5} = PlainFiles(OrgHome(org), org, key, version)
  BY DEF PlainFiles
<1> HIDE DEF p1, p2, p3, p4, p5, d, version
<1> DEFINE a == <<p1, p2>>
           b == <<p3, p4, p5>>
<1>8. /\ List(a) /\ List(b) /\ ToSet(a) = {p1, p2} /\ ToSet(b) = {p3, p4, p5}
  BY Tuples
<1> HIDE DEF a, b
<1>9. Housed(a) /\ Housed(b)
  BY <1>6, <1>8, HousedWithout, NotInside
<1>10. List(a \o b) /\ ToSet(a \o b) = {p1, p2, p3, p4, p5} /\ Housed(a \o b)
  BY <1>8, <1>9, Joined, HousedJoined
<1>11. /\ List(FlattenSeq(s)) /\ Housed(FlattenSeq(s))
       /\ ToSet(FlattenSeq(s)) = UNION {ToSet(s[j]) : j \in 1..N}
  <2>1. s = [j \in 1..N |-> s[j]]
    OBVIOUS
  <2> HIDE DEF s, N
  <2> QED
    BY <1>1, <1>5, <2>1, Flattened, HousedFlattened
<1>12. UNION {ToSet(s[j]) : j \in 1..N} = UNION {ToSet(NodeFilesOf(org, cfg, j)) : j \in 1..N}
  OBVIOUS
<1> DEFINE t == a \o b
           u == FlattenSeq(s)
<1>13. OrgFiles(org, cfg, key, version) = t \o u
  BY <1>2 DEF a, b
<1> HIDE DEF t, u, s, N
<1>14. /\ List(t \o u) /\ Housed(t \o u)
       /\ ToSet(t \o u) = {p1, p2, p3, p4, p5} \cup UNION {ToSet(s[j]) : j \in 1..N}
  BY <1>10, <1>11, Joined, HousedJoined DEF t, u
<1>15. \A w \in ToSet(t \o u) : Fit(w, OrgsPaths)
  BY <1>5, <1>6, <1>14
<1> QED
  BY <1>7, <1>12, <1>13, <1>14, <1>15 DEF version, N

\* What it writes for the chaincodes: a copy of each, and the list of contracts.
LEMMA ContractsFacts ==
  ASSUME NEW codes \in Seq(Codes)
  PROVE  /\ List(Contracts(codes)) /\ Housed(Contracts(codes))
         /\ ToSet(Contracts(codes)) =
              {Put(<<"chaincodes", c.base>>, <<"code", c>>) : c \in ToSet(codes)}
                \cup {Put(<<"abi">>, <<"abi", {c.contract : c \in ToSet(codes)}>>)}
         /\ \A w \in ToSet(Contracts(codes)) : Fit(w, ContractPaths)
<1> DEFINE N == Len(codes)
           s == [i \in 1..N |-> Put(<<"chaincodes", codes[i].base>>, <<"code", codes[i]>>)]
           last == Put(<<"abi">>, <<"abi", {c.contract : c \in ToSet(codes)}>>)
           S == {Put(<<"chaincodes", c.base>>, <<"code", c>>) : c \in ToSet(codes)}
<1>1. /\ N \in Nat /\ DOMAIN codes = 1..N /\ List(codes) /\ ToSet(codes) \subseteq Codes
      /\ \A i \in 1..N : codes[i] \in ToSet(codes)
      /\ \A c \in ToSet(codes) : \E i \in 1..N : codes[i] = c
  <2>1. List(codes) /\ ToSet(codes) \subseteq Codes
    BY ListOf
  <2> QED
    BY <2>1, ListFacts
<1>2. Contracts(codes) = s \o <<last>>
  BY <1>1 DEF Contracts
<1>3. \A i \in 1..N : s[i] \in S
  BY <1>1
<1>4. s \in Seq(S) /\ Len(s) = N
  <2>1. s = [i \in 1..N |-> s[i]] /\ N \in Nat
    BY <1>1
  <2> HIDE DEF s, S, N
  <2> QED
    BY <1>3, <2>1
<1>5. List(s) /\ ToSet(s) \subseteq S
  <2> HIDE DEF s, S
  <2> QED
    BY <1>4, ListOf
<1>6. S \subseteq ToSet(s)
  <2>1. ASSUME NEW c \in ToSet(codes)
        PROVE  Put(<<"chaincodes", c.base>>, <<"code", c>>) \in ToSet(s)
    <3>1. PICK i \in 1..N : codes[i] = c
      BY <1>1
    <3>2. s[i] = Put(<<"chaincodes", c.base>>, <<"code", c>>)
      BY <3>1
    <3> HIDE DEF s
    <3> QED
      BY <1>4, <1>5, <3>1, <3>2, ListFacts
  <2> QED
    BY <2>1
<1>7. ASSUME NEW w \in S PROVE Fit(w, ContractPaths) /\ \A h \in Inside : w.at # h[2]
  <2>1. PICK c \in ToSet(codes) : w = Put(<<"chaincodes", c.base>>, <<"code", c>>)
    OBVIOUS
  <2> DEFINE p == <<"chaincodes", c.base>>
             x == <<"code", c>>
  <2>2. w = [at |-> p, put |-> x]
    BY <2>1 DEF Put
  <2>3. Kind(p) = "code" /\ x[1] = "code" /\ p \in ContractPaths
    BY <1>1, KindOf DEF ContractPaths
  <2>4. x # Gone /\ \A h \in Inside : p # h[2]
    BY NotInside DEF Gone
  <2> HIDE DEF p, x
  <2>5. Fits(p, x)
    BY <2>3 DEF Fits, Holds
  <2> QED
    BY <2>2, <2>3, <2>4, <2>5 DEF Fit
<1>8. Fit(last, ContractPaths) /\ \A h \in Inside : last.at # h[2]
  <2> DEFINE p == <<"abi">>
             x == <<"abi", {c.contract : c \in ToSet(codes)}>>
  <2>2. last = [at |-> p, put |-> x]
    BY DEF Put
  <2>3. Kind(p) = "abi" /\ x[1] = "abi" /\ p \in ContractPaths
    BY KindOf DEF ContractPaths
  <2>4. x # Gone /\ \A h \in Inside : p # h[2]
    BY NotInside DEF Gone
  <2> HIDE DEF p, x
  <2>5. Fits(p, x)
    BY <2>3 DEF Fits, Holds
  <2> HIDE DEF last
  <2> QED
    BY <2>2, <2>3, <2>4, <2>5 DEF Fit
<1> DEFINE t == <<last>>
<1>9. List(t) /\ ToSet(t) = {last}
  BY Tuples
<1> HIDE DEF s, S, t, last
<1>10. List(s \o t) /\ ToSet(s \o t) = S \cup {last}
  BY <1>5, <1>6, <1>9, Joined
<1>11. Housed(s \o t)
  BY <1>7, <1>8, <1>10, HousedWithout
<1>12. Contracts(codes) = s \o t
  BY <1>2 DEF t
<1> QED
  BY <1>7, <1>8, <1>10, <1>11, <1>12 DEF S, last

\* And docker-compose.yaml.
LEMMA ComposeFacts ==
  ASSUME NEW cfg
  PROVE  Compose(cfg).at = <<"compose">> /\ Fit(Compose(cfg), {<<"compose">>})
<1> DEFINE all == Members(cfg)
           c == <<"compose", [i \in DOMAIN all |-> [address |-> Address(all[i]), home |-> NodeHome(all[i])]]>>
           p == <<"compose">>
<1>1. Compose(cfg) = [at |-> p, put |-> c]
  BY DEF Compose, Put
<1>2. Kind(p) = "compose" /\ c[1] = "compose" /\ c # Gone
  BY KindOf DEF Gone
<1> HIDE DEF c
<1>3. Fits(p, c)
  BY <1>2 DEF Fits, Holds
<1> HIDE DEF p
<1>4. Compose(cfg).at = p /\ Fit(Compose(cfg), {p})
  BY <1>1, <1>2, <1>3 DEF Fit
<1> QED
  BY <1>4 DEF p

\* What is generated for the i-th organization of a network.
OrgFilesOf(cfg, draw, version, i) == OrgFiles(cfg.orgs[i], cfg, <<draw, i>>, version)

\* All that a build writes: each organization, then, when there are chaincodes,
\* these and docker-compose.yaml.
LEMMA GeneratedFacts ==
  ASSUME NEW cfg \in Networks, NEW draw, NEW v \in Releases
  PROVE  LET all == Generated(cfg, draw, <<"version", v>>)
         IN  /\ List(all) /\ Housed(all)
             /\ ToSet(all) =
                  (UNION {ToSet(OrgFilesOf(cfg, draw, <<"version", v>>, i)) : i \in 1..Len(cfg.orgs)})
                    \cup IF cfg.codes = <<>> THEN {} ELSE ToSet(Contracts(cfg.codes)) \cup {Compose(cfg)}
             /\ \A w \in ToSet(all) : Fit(w, NetworkPaths)
<1> DEFINE version == <<"version", v>>
           N == Len(cfg.orgs)
           s == [i \in 1..N |-> OrgFilesOf(cfg, draw, version, i)]
           t == IF cfg.codes = <<>> THEN <<>> ELSE Contracts(cfg.codes) \o <<Compose(cfg)>>
           T == IF cfg.codes = <<>> THEN {} ELSE ToSet(Contracts(cfg.codes)) \cup {Compose(cfg)}
<1>1. N \in Nat /\ DOMAIN cfg.orgs = 1..N /\ \A i \in 1..N : cfg.orgs[i] \in Orgs
  BY NetworkTypes, LenProperties, ElementOfSeq
<1>2. Generated(cfg, draw, version) = FlattenSeq(s) \o t
  BY <1>1 DEF Generated, OrgFilesOf
<1>3. ASSUME NEW i \in 1..N
      PROVE  List(s[i]) /\ Housed(s[i]) /\ \A w \in ToSet(s[i]) : Fit(w, OrgsPaths)
  <2>1. s[i] = OrgFiles(cfg.orgs[i], cfg, <<draw, i>>, <<"version", v>>)
    BY DEF OrgFilesOf
  <2>2. cfg.orgs[i] \in Orgs
    BY <1>1
  <2> HIDE DEF s
  <2> QED
    BY <2>1, <2>2, OrgFilesFacts
<1>4. List(t) /\ ToSet(t) = T /\ Housed(t) /\ \A w \in T : Fit(w, NetworkPaths)
  <2>1. CASE cfg.codes = <<>>
    <3>1. t = <<>> /\ T = {}
      BY <2>1
    <3> HIDE DEF t, T
    <3> QED
      BY <3>1, Tuples, HousedWithout
  <2>2. CASE cfg.codes # <<>>
    <3> DEFINE a == Contracts(cfg.codes)
               c == Compose(cfg)
               b == <<c>>
    <3>1. t = a \o b /\ T = ToSet(a) \cup {c}
      BY <2>2
    <3>2. /\ List(a) /\ Housed(a) /\ \A w \in ToSet(a) : Fit(w, ContractPaths)
      BY NetworkTypes, ContractsFacts
    <3>3. List(b) /\ ToSet(b) = {c}
      BY Tuples
    <3>4. c.at = <<"compose">> /\ Fit(c, {<<"compose">>})
      BY ComposeFacts
    <3> HIDE DEF a, b, c, t, T
    <3>5. Housed(b)
      BY <3>3, <3>4, HousedWithout, NotInside
    <3>6. List(t) /\ ToSet(t) = T /\ Housed(t)
      BY <3>1, <3>2, <3>3, <3>5, Joined, HousedJoined
    <3>7. \A w \in T : Fit(w, NetworkPaths)
      BY <3>1, <3>2, <3>4 DEF Fit, NetworkPaths
    <3> QED
      BY <3>6, <3>7
  <2> QED
    BY <2>1, <2>2
<1> DEFINE u == FlattenSeq(s)
<1>5. /\ List(u) /\ Housed(u)
      /\ ToSet(u) = UNION {ToSet(s[i]) : i \in 1..N}
  <2>1. s = [i \in 1..N |-> s[i]]
    OBVIOUS
  <2> HIDE DEF s, N
  <2> QED
    BY <1>1, <1>3, <2>1, Flattened, HousedFlattened
<1>6. UNION {ToSet(s[i]) : i \in 1..N} = UNION {ToSet(OrgFilesOf(cfg, draw, version, i)) : i \in 1..N}
  OBVIOUS
<1> HIDE DEF s, t, T, u, N
<1>7. List(u \o t) /\ ToSet(u \o t) = ToSet(u) \cup T /\ Housed(u \o t)
  BY <1>4, <1>5, Joined, HousedJoined
<1>8. \A w \in ToSet(u \o t) : Fit(w, NetworkPaths)
  BY <1>3, <1>4, <1>5, <1>7 DEF Fit, NetworkPaths
<1>9. Generated(cfg, draw, version) = u \o t
  BY <1>2 DEF u
<1> DEFINE g == Generated(cfg, draw, version)
           U == UNION {ToSet(OrgFilesOf(cfg, draw, version, i)) : i \in 1..N}
<1>10. g = u \o t /\ ToSet(u) = U
  BY <1>5, <1>6, <1>9
<1> HIDE DEF g, U
<1>11. List(g) /\ Housed(g) /\ ToSet(g) = U \cup T /\ \A w \in ToSet(g) : Fit(w, NetworkPaths)
  BY <1>7, <1>8, <1>10
<1> QED
  BY <1>11 DEF g, U, version, N, T

(* Building a workspace: no path twice.                                    *)

\* No path is written twice.
Once(todo) == \A i, j \in 1..Len(todo) : todo[i].at = todo[j].at => i = j

\* Two lists that name no path twice and share none.
LEMMA OnceJoined ==
  ASSUME NEW s, NEW t, List(s), List(t), Once(s), Once(t),
         \A x \in ToSet(s) : \A y \in ToSet(t) : x.at # y.at
  PROVE  Once(s \o t)
<1> DEFINE u == s \o t
<1>1. /\ Len(u) = Len(s) + Len(t) /\ Len(s) \in Nat /\ Len(t) \in Nat
      /\ \A i \in 1..Len(s) : u[i] = s[i]
      /\ \A i \in (Len(s) + 1)..(Len(s) + Len(t)) : u[i] = t[i - Len(s)]
  BY Joined, ListFacts
<1>2. \A i \in 1..Len(s) : s[i] \in ToSet(s)
  BY ListFacts
<1>3. \A i \in 1..Len(t) : t[i] \in ToSet(t)
  BY ListFacts
<1> HIDE DEF u
<1>4. ASSUME NEW i \in 1..Len(u), NEW j \in 1..Len(u), u[i].at = u[j].at
      PROVE  i = j
  <2> DEFINE In(k) == k \in 1..Len(s)
  <2>1. ASSUME NEW k \in 1..Len(u), ~In(k)
        PROVE  k - Len(s) \in 1..Len(t) /\ u[k] = t[k - Len(s)]
    <3>1. k \in (Len(s) + 1)..(Len(s) + Len(t)) /\ k - Len(s) \in 1..Len(t)
      BY <1>1, <2>1
    <3> QED
      BY <1>1, <3>1
  <2>2. CASE In(i) /\ In(j)
    BY <1>1, <1>4, <2>2 DEF Once
  <2>3. CASE ~In(i) /\ ~In(j)
    <3>1. i - Len(s) = j - Len(s)
      BY <1>4, <2>1, <2>3 DEF Once
    <3> QED
      BY <1>1, <3>1
  <2>4. CASE In(i) /\ ~In(j)
    BY <1>1, <1>2, <1>3, <1>4, <2>1, <2>4
  <2>5. CASE ~In(i) /\ In(j)
    BY <1>1, <1>2, <1>3, <1>4, <2>1, <2>5
  <2> QED
    BY <2>2, <2>3, <2>4, <2>5
<1>5. Once(u)
  BY <1>4 DEF Once
<1> QED
  BY <1>5 DEF u

\* The folder of a node x of a workspace, and what is in it.
HomeAt(x) == <<"nodes", x>>
InHome(x) == {<<"nodes", x>>} \cup {<<"nodes", x, f>> : f \in Parts}

\* The files of a node in a workspace, each written once.
LEMMA HomeFilesFacts ==
  ASSUME NEW x \in Ids, NEW me, NEW peers
  PROVE  LET all == NodeFiles(HomeAt(x), me, peers)
         IN  List(all) /\ Housed(all) /\ Once(all) /\ \A w \in ToSet(all) : Fit(w, InHome(x))
<1> DEFINE all == NodeFiles(HomeAt(x), me, peers)
<1>1. HomeAt(x) \in NodeHomes
  BY DEF HomeAt, NodeHomes
<1>2. /\ List(all) /\ Housed(all)
      /\ \A w \in ToSet(all) : Fit(w, {HomeAt(x)} \cup {HomeAt(x) \o <<f>> : f \in Parts})
  BY <1>1, NodeFilesFacts
<1>3. ASSUME NEW f PROVE HomeAt(x) \o <<f>> = <<"nodes", x, f>>
  BY Beneath DEF HomeAt
<1>4. {HomeAt(x)} \cup {HomeAt(x) \o <<f>> : f \in Parts} = InHome(x)
  BY <1>3 DEF InHome, HomeAt
<1>5. Once(all)
  <2> DEFINE p1 == HomeAt(x)
             p2 == HomeAt(x) \o <<"config">>
             p3 == HomeAt(x) \o <<"main">>
             p4 == HomeAt(x) \o <<"image">>
  <2>1. /\ Len(all) = 4 /\ all[1].at = p1 /\ all[2].at = p2 /\ all[3].at = p3 /\ all[4].at = p4
    BY DEF NodeFiles, Put
  <2>2. p2 = <<"nodes", x, "config">> /\ p3 = <<"nodes", x, "main">> /\ p4 = <<"nodes", x, "image">>
    BY <1>3
  <2>3. p1 # p2 /\ p1 # p3 /\ p1 # p4 /\ p2 # p3 /\ p2 # p4 /\ p3 # p4
    <3>1. p1 = <<"nodes", x>>
      BY DEF HomeAt
    <3> HIDE DEF p1, p2, p3, p4
    <3> QED
      BY <2>2, <3>1
  <2> HIDE DEF all, p1, p2, p3, p4
  <2> QED
    BY <2>1, <2>3 DEF Once
<1> HIDE DEF all
<1>6. List(all) /\ Housed(all) /\ Once(all) /\ \A w \in ToSet(all) : Fit(w, InHome(x))
  BY <1>2, <1>4, <1>5
<1> QED
  BY <1>6 DEF all

\* The files of the nodes that a workspace does not have: of no node whose
\* folder is there, and none twice, whatever organization.yaml repeats.
LEMMA MissingFacts ==
  ASSUME NEW files, NEW org \in Orgs
  PROVE  LET all == Missing(files, org)
         IN  /\ List(all) /\ Housed(all) /\ Once(all)
             /\ \A w \in ToSet(all) : \E x \in Ids :
                  HomeAt(x) \notin DOMAIN files /\ Fit(w, InHome(x))
<1> DEFINE N == Len(org.nodes)
           Id(i) == org.nodes[i].id
           New(i) == HomeAt(Id(i)) \notin DOMAIN files \cup {HomeAt(Id(j)) : j \in 1..(i - 1)}
           s == [i \in 1..N |-> IF New(i) THEN NodeFiles(HomeAt(Id(i)), Me(org, i), <<>>) ELSE <<>>]
           T == UNION {ToSet(s[i]) : i \in 1..N}
           Of(w, n) == \E i \in 1..n : New(i) /\ Fit(w, InHome(Id(i)))
           I == [n \in 0..N |-> {u \in Seq(T) : Once(u) /\ \A w \in ToSet(u) : Of(w, n)}]
<1>1. N \in Nat /\ DOMAIN org.nodes = 1..N /\ \A i \in 1..N : Id(i) \in Ids
  BY OrgTypes, ListFacts
<1>2. Missing(files, org) = FlattenSeq(s)
  BY <1>1 DEF Missing, HomeAt, Me
<1>3. ASSUME NEW i \in 1..N
      PROVE  /\ List(s[i]) /\ Housed(s[i]) /\ Once(s[i])
             /\ \A w \in ToSet(s[i]) : New(i) /\ Fit(w, InHome(Id(i)))
  <2>1. CASE New(i)
    <3>1. s[i] = NodeFiles(HomeAt(Id(i)), Me(org, i), <<>>) /\ Id(i) \in Ids
      BY <1>1, <2>1
    <3> HIDE DEF s, New, Id
    <3> QED
      BY <2>1, <3>1, HomeFilesFacts
  <2>2. CASE ~New(i)
    <3>1. s[i] = <<>>
      BY <2>2
    <3>2. List(<<>>) /\ ToSet(<<>>) = {} /\ Len(<<>>) = 0
      BY Tuples
    <3>3. Housed(<<>>) /\ Once(<<>>)
      BY <3>2 DEF Housed, Once
    <3> HIDE DEF s
    <3> QED
      BY <3>1, <3>2, <3>3
  <2> QED
    BY <2>1, <2>2
<1>4. s = [i \in 1..N |-> s[i]]
  OBVIOUS
<1>5. List(FlattenSeq(s)) /\ Housed(FlattenSeq(s))
  <2> HIDE DEF s, N, New
  <2> QED
    BY <1>1, <1>3, <1>4, Flattened, HousedFlattened
<1>6. FlattenSeq(s) \in I[N]
  <2>1. ASSUME NEW i \in 1..N PROVE s[i] \in Seq(T)
    <3>1. ToSet(s[i]) \subseteq T
      OBVIOUS
    <3> HIDE DEF T, s
    <3> QED
      BY <1>3, <3>1, SeqMonotonic DEF List
  <2> HIDE DEF s, N, T, New, Id
  <2>2. s \in [1..N -> Seq(T)]
    BY <1>4, <2>1
  <2>3. I \in [0..N -> SUBSET Seq(T)]
    OBVIOUS
  <2>4. <<>> \in I[0]
    <3>1. <<>> \in Seq(T) /\ ToSet(<<>>) = {} /\ Len(<<>>) = 0 /\ 0 \in 0..N
      BY <1>1, EmptySeq, Tuples
    <3>2. Once(<<>>)
      BY <3>1 DEF Once
    <3> QED
      BY <3>1, <3>2
  <2>5. ASSUME NEW n \in 0..(N - 1), NEW u \in I[n]
        PROVE  u \o s[n + 1] \in I[n + 1]
    <3>1. n \in 0..N /\ n + 1 \in 0..N /\ n + 1 \in 1..N /\ n \in Nat /\ 1..((n + 1) - 1) = 1..n
      BY <1>1
    <3>2. u \in Seq(T) /\ Once(u) /\ \A w \in ToSet(u) : Of(w, n)
      BY <3>1
    <3>3. /\ s[n + 1] \in Seq(T) /\ List(s[n + 1]) /\ Once(s[n + 1])
          /\ \A w \in ToSet(s[n + 1]) : New(n + 1) /\ Fit(w, InHome(Id(n + 1)))
      BY <1>3, <2>1, <3>1
    <3>4. List(u)
      BY <3>2, ListOf
    <3>5. u \o s[n + 1] \in Seq(T) /\ ToSet(u \o s[n + 1]) = ToSet(u) \cup ToSet(s[n + 1])
      BY <3>2, <3>3, <3>4, ConcatProperties, Joined
    <3>6. ASSUME NEW x \in ToSet(u), NEW y \in ToSet(s[n + 1]) PROVE x.at # y.at
      <4>1. PICK i \in 1..n : New(i) /\ Fit(x, InHome(Id(i)))
        BY <3>2
      <4>2. New(n + 1) /\ Fit(y, InHome(Id(n + 1)))
        BY <3>3
      <4>3. HomeAt(Id(i)) # HomeAt(Id(n + 1))
        BY <3>1, <4>2 DEF New
      <4>4. Id(i) # Id(n + 1)
        BY <4>3
      <4> QED
        BY <4>1, <4>2, <4>4 DEF Fit, InHome
    <3>7. Once(u \o s[n + 1])
      BY <3>2, <3>3, <3>4, <3>6, OnceJoined
    <3>8. \A w \in ToSet(u \o s[n + 1]) : Of(w, n + 1)
      <4>1. 1..n \subseteq 1..(n + 1) /\ n + 1 \in 1..(n + 1)
        BY <3>1
      <4> QED
        BY <3>2, <3>3, <3>5, <4>1
    <3> QED
      BY <3>1, <3>5, <3>7, <3>8
  <2> HIDE DEF I
  <2> QED
    BY <1>1, <2>2, <2>3, <2>4, <2>5, FlattenInto
<1>7. Once(FlattenSeq(s)) /\ \A w \in ToSet(FlattenSeq(s)) : Of(w, N)
  <2> HIDE DEF s, T, New, Id, Of, N
  <2> QED
    BY <1>1, <1>6
<1> DEFINE all == Missing(files, org)
<1>8. \A w \in ToSet(all) : \E x \in Ids : HomeAt(x) \notin DOMAIN files /\ Fit(w, InHome(x))
  <2>1. ASSUME NEW i \in 1..N, New(i) PROVE Id(i) \in Ids /\ HomeAt(Id(i)) \notin DOMAIN files
    BY <1>1, <2>1
  <2> HIDE DEF s, T, New, Id, N, I
  <2> QED
    BY <1>2, <1>7, <2>1
<1>9. List(all) /\ Housed(all) /\ Once(all)
  <2> HIDE DEF s, N, all
  <2> QED
    BY <1>2, <1>5, <1>7 DEF all
<1> HIDE DEF all
<1> QED
  BY <1>8, <1>9 DEF all

-----------------------------------------------------------------------------
(* The order of a package: every path once, a folder before what it holds. *)

\* A prefix agrees at each of its places.
LEMMA PrefixFacts ==
  ASSUME NEW q, NEW p, List(q), List(p)
  PROVE  IsPrefix(q, p) <=> Len(q) <= Len(p) /\ \A i \in 1..Len(q) : q[i] = p[i]
<1> DEFINE n == Len(q)
<1>1. n \in Nat /\ Len(p) \in Nat
  BY ListFacts
<1>2. SUFFICES ASSUME n <= Len(p)
               PROVE  SubSeq(q, 1, n) = SubSeq(p, 1, n) <=> \A i \in 1..n : q[i] = p[i]
  BY DEF IsPrefix
<1>3. ASSUME NEW s, List(s), n <= Len(s)
      PROVE  /\ List(SubSeq(s, 1, n)) /\ Len(SubSeq(s, 1, n)) = n
             /\ \A i \in 1..n : SubSeq(s, 1, n)[i] = s[i]
  <2>1. \A i \in 1..n : s[i] \in ToSet(s)
    BY <1>1, <1>3, ListFacts
  <2> HIDE DEF n
  <2>2. /\ SubSeq(s, 1, n) \in Seq(ToSet(s))
        /\ Len(SubSeq(s, 1, n)) = IF 1 <= n THEN n - 1 + 1 ELSE 0
        /\ \A i \in 1..(n - 1 + 1) : SubSeq(s, 1, n)[i] = s[1 + i - 1]
    BY <1>1, <2>1, SubSeqProperties
  <2>3. List(SubSeq(s, 1, n))
    BY <2>2, ListOf
  <2>4. Len(SubSeq(s, 1, n)) = n
    BY <1>1, <2>2
  <2>5. ASSUME NEW i \in 1..n PROVE SubSeq(s, 1, n)[i] = s[i]
    <3>1. i \in 1..(n - 1 + 1) /\ 1 + i - 1 = i
      BY <1>1
    <3> QED
      BY <2>2, <3>1
  <2> QED
    BY <2>3, <2>4, <2>5
<1> DEFINE a == SubSeq(q, 1, n)
           b == SubSeq(p, 1, n)
           S == ToSet(a) \cup ToSet(b)
<1>4. /\ List(a) /\ List(b) /\ Len(a) = n /\ Len(b) = n
      /\ \A i \in 1..n : a[i] = q[i] /\ b[i] = p[i]
  BY <1>1, <1>2, <1>3
<1> HIDE DEF a, b, n
<1>5. a \in Seq(S) /\ b \in Seq(S)
  BY <1>4, SeqMonotonic DEF List
<1> HIDE DEF S
<1>6. (\A i \in 1..n : a[i] = b[i]) => a = b
  BY <1>4, <1>5, SeqEqual
<1>7. a = b <=> \A i \in 1..n : q[i] = p[i]
  BY <1>4, <1>6
<1> QED
  BY <1>7 DEF a, b

\* The paths of an organization: its own files, a folder per node, the files in it.
LEMMA OrgPathFacts ==
  ASSUME NEW p \in OrgPaths
  PROVE  /\ List(p)
         /\ \/ Len(p) = 1 /\ p = <<p[1]>> /\ p[1] \in Plain
            \/ Len(p) = 2 /\ p = <<"nodes", p[2]>> /\ p[2] \in Ids
            \/ Len(p) = 3 /\ p = <<"nodes", p[2], p[3]>> /\ p[2] \in Ids /\ p[3] \in Parts
<1>1. CASE \E f \in Plain : p = <<f>>
  BY <1>1, Tuples
<1>2. CASE \E x \in Ids : p = <<"nodes", x>>
  BY <1>2, Tuples
<1>3. CASE \E x \in Ids, f \in Parts : p = <<"nodes", x, f>>
  BY <1>3, Tuples
<1> QED
  BY <1>1, <1>2, <1>3 DEF OrgPaths

\* filepath.Walk has a next path as long as one is left, and none of those left
\* is a folder around it.
LEMMA NextExists ==
  ASSUME NEW rest, rest \subseteq OrgPaths, rest # {}
  PROVE  /\ NextOf(rest) \in rest
         /\ \A q \in rest \ {NextOf(rest)} : ~IsPrefix(q, NextOf(rest))
<1> DEFINE First(p) == \A q \in rest \ {p} : p # <<"org">> /\ ~IsPrefix(q, p)
<1>1. ASSUME NEW p \in rest, NEW q \in rest, q # p, p # <<"org">>, IsPrefix(q, p)
      PROVE  Len(p) = 3 /\ Len(q) = 2
  <2>1. /\ List(p) /\ List(q) /\ Len(q) <= Len(p) /\ \A i \in 1..Len(q) : q[i] = p[i]
    BY <1>1, OrgPathFacts, PrefixFacts
  <2>2. Len(q) # Len(p)
    <3>1. CASE Len(q) = 1 /\ Len(p) = 1
      BY <1>1, <2>1, <3>1, OrgPathFacts
    <3>2. CASE Len(q) = 2 /\ Len(p) = 2
      <4>1. q[2] = p[2] /\ q = <<"nodes", q[2]>> /\ p = <<"nodes", p[2]>>
        BY <2>1, <3>2, OrgPathFacts
      <4> QED
        BY <1>1, <4>1
    <3>3. CASE Len(q) = 3 /\ Len(p) = 3
      <4>1. q[2] = p[2] /\ q[3] = p[3] /\ q = <<"nodes", q[2], q[3]>> /\ p = <<"nodes", p[2], p[3]>>
        BY <2>1, <3>3, OrgPathFacts
      <4> QED
        BY <1>1, <4>1
    <3> QED
      BY <3>1, <3>2, <3>3, OrgPathFacts
  <2>3. Len(q) # 1
    <3>1. SUFFICES ASSUME Len(q) = 1 PROVE FALSE
      OBVIOUS
    <3>2. q[1] \in Plain /\ q[1] = p[1]
      BY <2>1, <3>1, OrgPathFacts
    <3>3. p[1] = "nodes"
      BY <2>2, <3>1, OrgPathFacts
    <3> QED
      BY <3>2, <3>3 DEF Plain
  <2> QED
    BY <2>1, <2>2, <2>3, OrgPathFacts
<1>2. \E p \in rest : First(p)
  <2>1. CASE rest = {<<"org">>}
    BY <2>1
  <2>2. CASE \E p \in rest : p # <<"org">> /\ Len(p) # 3
    BY <1>1, <2>2
  <2>3. CASE rest # {<<"org">>} /\ \A p \in rest : p # <<"org">> => Len(p) = 3
    <3>1. PICK p \in rest : p # <<"org">>
      BY <2>3
    <3>2. Len(<<"org">>) = 1
      OBVIOUS
    <3>3. \A q \in rest : Len(q) # 2
      BY <2>3, <3>2
    <3>4. First(p)
      BY <1>1, <3>1, <3>3
    <3> QED
      BY <3>4
  <2> QED
    BY <2>1, <2>2, <2>3
<1>3. NextOf(rest) = CHOOSE p \in rest : First(p)
  BY DEF NextOf
<1> HIDE DEF First
<1>4. NextOf(rest) \in rest /\ First(NextOf(rest))
  BY <1>2, <1>3
<1> QED
  BY <1>4 DEF First

\* Every folder of a node among the paths comes before its files.
Descends(s, paths) ==
  \A i \in 1..Len(s) : \A h \in Inside :
    s[i] = h[2] /\ h[1] \in paths => \E j \in 1..(i - 1) : s[j] = h[1]

\* filepath.Walk visits every path, a folder before what is in it.
LEMMA WalkFacts ==
  ASSUME NEW paths, paths \subseteq OrgPaths, IsFiniteSet(paths)
  PROVE  List(Walk(paths)) /\ ToSet(Walk(paths)) = paths /\ Descends(Walk(paths), paths)
<1> DEFINE K == Cardinality(paths)
           Seen == paths \cup {NextOf(rest) : rest \in SUBSET paths}
           After(s) == Append(s, NextOf(paths \ ToSet(s)))
           step == [p \in (1..K) \X Seq(Seen) |-> After(p[2])]
           Visits(f) == f = [n \in 0..K |->
               IF n = 0 THEN <<>> ELSE LET before == f[n - 1] IN Append(before, NextOf(paths \ ToSet(before)))]
           F == CHOOSE f : Visits(f)
<1>1. K \in Nat /\ 0 \in 0..K /\ K \in 0..K
  BY FS_CardinalityType
<1>2. step \in [(1..K) \X Seq(Seen) -> Seq(Seen)]
  <2>1. ASSUME NEW s \in Seq(Seen) PROVE After(s) \in Seq(Seen)
    <3>1. NextOf(paths \ ToSet(s)) \in Seen
      OBVIOUS
    <3> HIDE DEF Seen
    <3> QED
      BY <3>1, AppendProperties
  <2> HIDE DEF Seen, After, K
  <2> QED
    BY <2>1
<1>3. PICK f \in [0..K -> Seq(Seen)] : Steps(f, K, <<>>, step)
  <2>1. <<>> \in Seq(Seen)
    BY EmptySeq
  <2> HIDE DEF step, K, Seen
  <2> QED
    BY <1>1, <1>2, <2>1, Iterates
<1>4. Visits(f)
  <2>1. f = [n \in 0..K |-> f[n]]
    OBVIOUS
  <2>2. f[0] = <<>>
    BY <1>3 DEF Steps
  <2>3. ASSUME NEW n \in 1..K PROVE f[n] = After(f[n - 1])
    <3>1. n - 1 \in 0..K
      BY <1>1
    <3>2. f[n - 1] \in Seq(Seen)
      BY <1>3, <3>1
    <3>3. f[n] = step[<<n, f[n - 1]>>]
      BY <1>3 DEF Steps
    <3> HIDE DEF After, Seen, K
    <3> QED
      BY <3>2, <3>3
  <2>4. \A n \in 0..K : n # 0 => n \in 1..K
    BY <1>1
  <2> HIDE DEF K
  <2> QED
    BY <2>1, <2>2, <2>3, <2>4
<1>5. Visits(F)
  <2> HIDE DEF Visits
  <2> QED
    BY <1>4
<1>6. Walk(paths) = F[K]
  BY DEF Walk
<1>7. F[0] = <<>> /\ \A n \in 0..(K - 1) : F[n + 1] = After(F[n])
  <2>1. \A n \in 0..K : F[n] = IF n = 0 THEN <<>> ELSE After(F[n - 1])
    <3> HIDE DEF F, K
    <3> QED
      BY <1>5
  <2>2. ASSUME NEW n \in 0..(K - 1) PROVE n + 1 \in 0..K /\ n + 1 # 0 /\ (n + 1) - 1 = n
    BY <1>1
  <2> HIDE DEF F, K, After
  <2> QED
    BY <1>1, <2>1, <2>2
<1> DEFINE Good(u, n) ==
             /\ u \in Seq(paths) /\ Len(u) = n
             /\ Cardinality(paths \ ToSet(u)) = K - n
             /\ Descends(u, paths)
           P == {n \in 0..K : Good(F[n], n)}
<1>8. 0 \in P
  <2>1. <<>> \in Seq(paths) /\ Len(<<>>) = 0 /\ ToSet(<<>>) = {}
    BY EmptySeq, Tuples
  <2>2. Descends(<<>>, paths)
    BY <2>1 DEF Descends
  <2>3. Good(<<>>, 0)
    BY <1>1, <2>1, <2>2
  <2> HIDE DEF Good, F, K
  <2> QED
    BY <1>1, <1>7, <2>3
<1>9. ASSUME NEW n \in 0..(K - 1), n \in P PROVE n + 1 \in P
  <2> DEFINE u == F[n]
             rest == paths \ ToSet(u)
             p == NextOf(rest)
  <2>1. Good(u, n) /\ F[n + 1] = Append(u, p)
    BY <1>7, <1>9
  <2> HIDE DEF u, F
  <2>2. n \in Nat /\ n + 1 \in 0..K /\ K - n # 0 /\ K - (n + 1) = (K - n) - 1
    BY <1>1
  <2>3. u \in Seq(paths) /\ Len(u) = n /\ Cardinality(rest) = K - n /\ Descends(u, paths)
    BY <2>1
  <2>4. IsFiniteSet(rest)
    BY FS_Subset
  <2>5. rest # {}
    BY <2>2, <2>3, FS_EmptySet
  <2>6. p \in rest /\ \A q \in rest \ {p} : ~IsPrefix(q, p)
    <3>1. rest \subseteq OrgPaths
      OBVIOUS
    <3> HIDE DEF rest
    <3> QED
      BY <2>5, <3>1, NextExists
  <2> HIDE DEF K, p
  <2> DEFINE v == Append(u, p)
  <2>7. /\ v \in Seq(paths) /\ Len(v) = n + 1 /\ v[n + 1] = p /\ \A i \in 1..n : v[i] = u[i]
    <3>1. p \in paths
      BY <2>6
    <3> HIDE DEF rest
    <3> QED
      BY <2>3, <3>1, AppendProperties
  <2>8. List(u) /\ List(v)
    BY <2>3, <2>7, ListOf
  <2> HIDE DEF v
  <2>9. ToSet(v) = ToSet(u) \cup {p}
    <3>1. ASSUME NEW x \in ToSet(v) PROVE x \in ToSet(u) \cup {p}
      <4>1. PICK i \in 1..(n + 1) : v[i] = x
        BY <2>7, <2>8, ListFacts
      <4>2. i = n + 1 \/ i \in 1..n
        BY <2>2
      <4> QED
        BY <2>3, <2>7, <2>8, <4>1, <4>2, ListFacts
    <3>2. ASSUME NEW x \in ToSet(u) PROVE x \in ToSet(v)
      <4>1. PICK i \in 1..n : u[i] = x
        BY <2>3, <2>8, ListFacts
      <4>2. i \in 1..(n + 1) /\ v[i] = x
        BY <2>2, <2>7, <4>1
      <4> QED
        BY <2>7, <2>8, <4>2, ListFacts
    <3>3. p \in ToSet(v)
      <4>1. n + 1 \in 1..(n + 1)
        BY <2>2
      <4> QED
        BY <2>7, <2>8, <4>1, ListFacts
    <3> QED
      BY <3>1, <3>2, <3>3
  <2>10. paths \ ToSet(v) = rest \ {p}
    BY <2>9
  <2>11. Cardinality(rest \ {p}) = (K - n) - 1
    <3> HIDE DEF rest
    <3> QED
      BY <2>3, <2>4, <2>6, FS_RemoveElement
  <2>12. Descends(v, paths)
    <3>1. ASSUME NEW i \in 1..(n + 1), NEW h \in Inside, v[i] = h[2], h[1] \in paths
          PROVE  \E j \in 1..(i - 1) : v[j] = h[1]
      <4>1. CASE i \in 1..n
        <5>1. u[i] = h[2]
          BY <2>7, <3>1, <4>1
        <5>2. PICK j \in 1..(i - 1) : u[j] = h[1]
          BY <2>3, <3>1, <4>1, <5>1 DEF Descends
        <5>3. j \in 1..n
          BY <2>2, <4>1
        <5> QED
          BY <2>7, <5>2, <5>3
      <4>2. CASE i = n + 1
        <5>1. p = h[2] /\ p \in OrgPaths
          BY <2>6, <2>7, <3>1, <4>2
        <5>2. PICK x \in Ids, g \in Parts : h[1] = <<"nodes", x>> /\ h[2] = <<"nodes", x, g>>
          BY <5>1 DEF Inside, OrgPaths, Plain
        <5>3. IsPrefix(h[1], p) /\ h[1] # p
          <6>1. List(<<"nodes", x>>) /\ List(<<"nodes", x, g>>)
            BY Tuples
          <6>2. IsPrefix(<<"nodes", x>>, <<"nodes", x, g>>)
            BY <6>1, PrefixFacts
          <6> QED
            BY <5>1, <5>2, <6>2
        <5>4. h[1] \in ToSet(u)
          BY <2>6, <3>1, <5>3
        <5>5. PICK j \in 1..n : u[j] = h[1]
          BY <2>3, <2>8, <5>4, ListFacts
        <5>6. j \in 1..(i - 1) /\ v[j] = h[1]
          BY <2>2, <2>7, <4>2, <5>5
        <5> QED
          BY <5>6
      <4> QED
        BY <2>2, <4>1, <4>2
    <3> QED
      BY <2>7, <3>1 DEF Descends
  <2>13. Good(v, n + 1)
    BY <2>2, <2>7, <2>10, <2>11, <2>12
  <2>14. F[n + 1] = v
    BY <2>1 DEF v, p
  <2> HIDE DEF Good
  <2> QED
    BY <2>2, <2>13, <2>14
<1>10. K \in P
  <2>1. \A n \in 0..(K - 1) : n \in P => n + 1 \in P
    BY <1>9
  <2> HIDE DEF P, K
  <2>2. 0..K \subseteq P
    BY <1>1, <1>8, <2>1, CountUp
  <2> QED
    BY <1>1, <2>2
<1>11. Good(Walk(paths), K)
  <2> HIDE DEF Good, F, K
  <2> QED
    BY <1>6, <1>10
<1>12. List(Walk(paths)) /\ ToSet(Walk(paths)) \subseteq paths
  BY <1>11, ListOf
<1>13. paths \ ToSet(Walk(paths)) = {}
  <2>1. Cardinality(paths \ ToSet(Walk(paths))) = 0
    BY <1>1, <1>11
  <2>2. IsFiniteSet(paths \ ToSet(Walk(paths)))
    BY FS_Subset
  <2> QED
    BY <2>1, <2>2, FS_EmptySet
<1> QED
  BY <1>11, <1>12, <1>13

\* Extracting a package writes each of its files, a folder before what is in it.
LEMMA ExtractedFacts ==
  ASSUME NEW k, DOMAIN k.files \subseteq OrgPaths, IsFiniteSet(DOMAIN k.files)
  PROVE  LET all == Extracted(k)
         IN  /\ List(all) /\ ToSet(all) = {Put(p, k.files[p]) : p \in DOMAIN k.files}
             /\ \A i \in 1..Len(all) : \A h \in Inside :
                  all[i].at = h[2] /\ h[1] \in DOMAIN k.files => \E j \in 1..(i - 1) : all[j].at = h[1]
<1> DEFINE D == DOMAIN k.files
           s == Walk(D)
           N == Len(s)
           all == [i \in 1..N |-> Put(s[i], k.files[s[i]])]
           T == {Put(p, k.files[p]) : p \in D}
<1>1. List(s) /\ ToSet(s) = D /\ Descends(s, D)
  BY WalkFacts
<1> HIDE DEF s
<1>2. N \in Nat /\ DOMAIN s = 1..N /\ \A i \in 1..N : s[i] \in D
  BY <1>1, ListFacts
<1>3. Extracted(k) = all
  BY <1>2 DEF Extracted, s
<1>4. all \in Seq(T) /\ Len(all) = N
  <2>1. \A i \in 1..N : all[i] \in T
    BY <1>2
  <2>2. all = [i \in 1..N |-> all[i]] /\ N \in Nat
    BY <1>2
  <2> HIDE DEF all, T, N
  <2> QED
    BY <2>1, <2>2
<1>5. List(all) /\ ToSet(all) \subseteq T
  <2> HIDE DEF all, T
  <2> QED
    BY <1>4, ListOf
<1>6. T \subseteq ToSet(all)
  <2>1. ASSUME NEW p \in D PROVE Put(p, k.files[p]) \in ToSet(all)
    <3>1. PICK i \in 1..N : s[i] = p
      BY <1>1, ListFacts
    <3>2. all[i] = Put(p, k.files[p])
      BY <3>1
    <3> HIDE DEF all
    <3> QED
      BY <1>4, <1>5, <3>1, <3>2, ListFacts
  <2> QED
    BY <2>1
<1>7. ASSUME NEW i \in 1..N, NEW h \in Inside, all[i].at = h[2], h[1] \in D
      PROVE  \E j \in 1..(i - 1) : all[j].at = h[1]
  <2>1. \A j \in 1..N : all[j].at = s[j]
    BY DEF Put
  <2>2. PICK j \in 1..(i - 1) : s[j] = h[1]
    BY <1>1, <1>7, <2>1 DEF Descends
  <2>3. j \in 1..N
    BY <1>2
  <2> QED
    BY <2>1, <2>2, <2>3
<1> HIDE DEF all
<1> QED
  BY <1>3, <1>4, <1>5, <1>6, <1>7

-----------------------------------------------------------------------------
(* Writing files that fit.                                                 *)

\* The files of a directory: paths it may have, each with what belongs there,
\* and the files of a node in a folder that is there.
FilesFit(files, paths) ==
  /\ IsFiniteSet(DOMAIN files)
  /\ DOMAIN files \subseteq paths
  /\ \A p \in DOMAIN files : Fits(p, files[p])
  /\ \A h \in Inside : h[2] \in DOMAIN files => h[1] \in DOMAIN files

\* The removal of dist.
ClearDist == Put(<<"dist">>, Gone)

\* What is still to be written to a directory may be written there: a node's
\* file when its folder is there, or is written before.
Writable(todo, files, paths) ==
  /\ List(todo)
  /\ \A w \in ToSet(todo) : w = ClearDist \/ Fit(w, paths)
  /\ \A i \in 1..Len(todo) : \A h \in Inside :
       todo[i].at = h[2] => h[1] \in DOMAIN files \/ \E j \in 1..(i - 1) : todo[j].at = h[1]

\* A file inside a node's folder is under nodes or orgs, and so is the folder.
LEMMA InsideFacts ==
  ASSUME NEW h \in Inside
  PROVE  /\ h[1][1] \in {"nodes", "orgs"} /\ h[2][1] = h[1][1]
         /\ h[1] # <<"dist">> /\ h[2] # <<"dist">>
BY DEF Inside

\* What fits a path is not the removal of a file.
LEMMA FitNotGone ==
  ASSUME NEW p \in Paths, NEW c, Fits(p, c)
  PROVE  c # Gone
<1>1. Kind(p) # "gone"
  <2>1. Kind(p) \in Plain \cup Parts \cup {"abi", "compose", "source", "code", "folder"}
    <3>1. CASE \E f \in Plain \cup {"abi", "compose"} : p = <<f>>
      BY <3>1, KindOf
    <3>2. CASE \E v : p = <<"dist", v>> \/ p = <<"chaincodes", v>>
      BY <3>2, KindOf
    <3>3. CASE \E x : p = <<"nodes", x>>
      BY <3>3, KindOf
    <3>4. CASE \E x : \E f \in Parts : p = <<"nodes", x, f>>
      BY <3>4, KindOf
    <3>5. CASE \E d : \E f \in Plain : p = <<"orgs", d, f>>
      BY <3>5, KindOf
    <3>6. CASE \E d, x : p = <<"orgs", d, "nodes", x>>
      BY <3>6, KindOf
    <3>7. CASE \E d, x : \E f \in Parts : p = <<"orgs", d, "nodes", x, f>>
      BY <3>7, KindOf
    <3> QED
      BY <3>1, <3>2, <3>3, <3>4, <3>5, <3>6, <3>7
      DEF Paths, BuildPaths, WorkspacePaths, SourcePaths, NetworkPaths, ContractPaths, OrgPaths, OrgsPaths, Plain
  <2> QED
    BY <2>1 DEF Plain, Parts
<1> QED
  BY <1>1 DEF Fits, Holds, Gone, Torn

\* Writing what fits.
LEMMA WriteFits ==
  ASSUME NEW paths, paths \subseteq Paths, NEW files, FilesFit(files, paths),
         NEW w, w = ClearDist \/ Fit(w, paths),
         \A h \in Inside : w.at = h[2] => h[1] \in DOMAIN files
  PROVE  /\ FilesFit(Written(files, w), paths)
         /\ \A h \in Inside : h[1] \in DOMAIN files => h[1] \in DOMAIN Written(files, w)
<1> DEFINE new == Written(files, w)
<1>1. CASE w = ClearDist
  <2>1. /\ DOMAIN new = {p \in DOMAIN files : p[1] # "dist"}
        /\ \A p \in DOMAIN new : new[p] = files[p]
    BY <1>1, GoneWrite DEF ClearDist, FilesFit
  <2> HIDE DEF new
  <2>2. IsFiniteSet(DOMAIN new)
    BY <2>1, FS_Subset DEF FilesFit
  <2>3. \A h \in Inside : h[1] \in DOMAIN files => h[1] \in DOMAIN new
    BY <2>1, InsideFacts
  <2>4. FilesFit(new, paths)
    BY <2>1, <2>2, <2>3 DEF FilesFit
  <2> QED
    BY <2>3, <2>4 DEF new
<1>2. CASE w # ClearDist
  <2>0. Fit(w, paths) /\ w.put # Gone /\ w.at \in paths /\ Fits(w.at, w.put)
    BY <1>2 DEF Fit
  <2>1. /\ DOMAIN new = DOMAIN files \cup {w.at} /\ new[w.at] = w.put
        /\ \A p \in DOMAIN files : p # w.at => new[p] = files[p]
    BY <2>0, PutWrite
  <2> HIDE DEF new
  <2>2. IsFiniteSet(DOMAIN new)
    BY <2>1, FS_AddElement DEF FilesFit
  <2>3. FilesFit(new, paths)
    BY <2>0, <2>1, <2>2 DEF FilesFit
  <2> QED
    BY <2>1, <2>3 DEF new
<1> QED
  BY <1>1, <1>2

\* A write that was cut short.
LEMMA TornFits ==
  ASSUME NEW paths, NEW w, Fit(w, paths), w.put # Folder
  PROVE  Fit([w EXCEPT !.put = Torn], paths) /\ [w EXCEPT !.put = Torn] = Put(w.at, Torn)
<1>1. [w EXCEPT !.put = Torn] = [at |-> w.at, put |-> Torn]
  BY DEF Fit
<1>2. Kind(w.at) # "folder"
  BY DEF Fit, Fits, Holds
<1>3. Fits(w.at, Torn) /\ Torn # Gone
  BY <1>2 DEF Fits, Torn, Gone
<1> QED
  BY <1>1, <1>3 DEF Fit, Put

\* The first of what is to be written.
LEMMA WritableHead ==
  ASSUME NEW paths, NEW files, NEW todo, Writable(todo, files, paths), todo # <<>>
  PROVE  /\ Head(todo) \in ToSet(todo) /\ Head(todo) = todo[1]
         /\ Head(todo) = ClearDist \/ Fit(Head(todo), paths)
         /\ \A h \in Inside : Head(todo).at = h[2] => h[1] \in DOMAIN files
         /\ List(Tail(todo)) /\ Len(Tail(todo)) = Len(todo) - 1 /\ Len(todo) \in Nat \ {0}
         /\ \A i \in 1..Len(Tail(todo)) : Tail(todo)[i] = todo[i + 1]
         /\ ToSet(todo) = ToSet(Tail(todo)) \cup {Head(todo)}
<1>1. List(todo) /\ todo \in Seq(ToSet(todo)) /\ Len(todo) \in Nat \ {0}
  BY EmptySeq DEF Writable, List
<1>2. /\ Head(todo) \in ToSet(todo) /\ Head(todo) = todo[1]
      /\ Tail(todo) \in Seq(ToSet(todo)) /\ Len(Tail(todo)) = Len(todo) - 1
      /\ \A i \in 1..Len(Tail(todo)) : Tail(todo)[i] = todo[i + 1]
  BY <1>1, HeadTailProperties
<1>3. List(Tail(todo)) /\ ToSet(Tail(todo)) \subseteq ToSet(todo)
  BY <1>2, ListOf
<1>4. ASSUME NEW x \in ToSet(todo) PROVE x \in ToSet(Tail(todo)) \cup {Head(todo)}
  <2>1. PICK i \in 1..Len(todo) : todo[i] = x
    BY <1>1, ListFacts
  <2>2. CASE i = 1
    BY <1>2, <2>1, <2>2
  <2>3. CASE i # 1
    <3>1. i - 1 \in 1..Len(Tail(todo)) /\ (i - 1) + 1 = i
      BY <1>1, <1>2, <2>3
    <3>2. Tail(todo)[i - 1] = x
      BY <1>2, <2>1, <3>1
    <3> QED
      BY <1>3, <3>1, <3>2, ListFacts
  <2> QED
    BY <2>2, <2>3
<1>5. ASSUME NEW h \in Inside, Head(todo).at = h[2] PROVE h[1] \in DOMAIN files
  <2>1. 1 \in 1..Len(todo) /\ 1..(1 - 1) = {}
    BY <1>1
  <2> QED
    BY <1>2, <1>5, <2>1 DEF Writable
<1> QED
  BY <1>1, <1>2, <1>3, <1>4, <1>5 DEF Writable

\* After a write the rest may be written.
LEMMA WritableTail ==
  ASSUME NEW paths, paths \subseteq Paths, NEW files, FilesFit(files, paths),
         NEW todo, Writable(todo, files, paths), todo # <<>>
  PROVE  /\ FilesFit(Written(files, Head(todo)), paths)
         /\ Writable(Tail(todo), Written(files, Head(todo)), paths)
<1> DEFINE w == Head(todo)
           new == Written(files, w)
           rest == Tail(todo)
<1>1. /\ w \in ToSet(todo) /\ w = todo[1] /\ (w = ClearDist \/ Fit(w, paths))
      /\ \A h \in Inside : w.at = h[2] => h[1] \in DOMAIN files
      /\ List(rest) /\ Len(rest) = Len(todo) - 1 /\ Len(todo) \in Nat \ {0}
      /\ \A i \in 1..Len(rest) : rest[i] = todo[i + 1]
      /\ ToSet(todo) = ToSet(rest) \cup {w}
  BY WritableHead
<1> HIDE DEF w
<1>2. /\ FilesFit(new, paths)
      /\ \A h \in Inside : h[1] \in DOMAIN files => h[1] \in DOMAIN new
  BY <1>1, WriteFits
<1>3. \A h \in Inside : w.at = h[1] => h[1] \in DOMAIN new
  <2>1. ASSUME NEW h \in Inside, w.at = h[1] PROVE h[1] \in DOMAIN new
    <3>1. w # ClearDist
      BY <2>1, InsideFacts DEF ClearDist, Put
    <3>2. w.put # Gone
      BY <1>1, <3>1 DEF Fit
    <3> QED
      BY <2>1, <3>2, PutWrite
  <2> QED
    BY <2>1
<1> HIDE DEF new, rest
<1>4. ASSUME NEW i \in 1..Len(rest), NEW h \in Inside, rest[i].at = h[2], h[1] \notin DOMAIN new
      PROVE  \E j \in 1..(i - 1) : rest[j].at = h[1]
  <2>1. i + 1 \in 1..Len(todo) /\ (i + 1) - 1 = i /\ todo[i + 1].at = h[2]
    BY <1>1, <1>4
  <2>2. h[1] \notin DOMAIN files
    BY <1>2, <1>4
  <2>3. PICK j \in 1..i : todo[j].at = h[1]
    BY <2>1, <2>2 DEF Writable
  <2>4. j # 1
    BY <1>1, <1>3, <1>4, <2>3
  <2>5. j - 1 \in 1..(i - 1) /\ j - 1 \in 1..Len(rest) /\ (j - 1) + 1 = j
    BY <1>1, <2>3, <2>4
  <2>6. rest[j - 1].at = h[1]
    BY <1>1, <2>3, <2>5
  <2> QED
    BY <2>5, <2>6
<1>5. Writable(rest, new, paths)
  BY <1>1, <1>4 DEF Writable
<1> QED
  BY <1>2, <1>5 DEF rest, new, w

-----------------------------------------------------------------------------
(* The download of a release.                                              *)

\* The other writes of a download.
VersionOf(v) == Put(<<"version">>, <<"version", v>>)
SourceOf(v) == Put(<<"dist", v>>, <<"source", v>>)

\* No archive is there.
NoDist(files) == \A p \in DOMAIN files : p[1] # "dist"

\* No archive of another release is there.
OneDist(files, v) ==
  /\ Has(files, <<"version">>, <<"version", v>>)
  /\ \A p \in DOMAIN files : p[1] = "dist" => p = <<"dist", v>>

\* The download of a release, at each of its moments.
Downloading(files, todo, v) ==
  \/ todo = <<ClearDist, VersionOf(v), SourceOf(v)>>
  \/ todo = <<VersionOf(v), SourceOf(v)>> /\ NoDist(files)
  \/ todo = <<SourceOf(v)>> /\ NoDist(files) /\ Has(files, <<"version">>, <<"version", v>>)
  \/ todo = <<>> /\ OneDist(files, v) /\ <<"dist", v>> \in DOMAIN files

\* What SourceNamed says, of any directory.
Named(files) ==
  \A p \in DOMAIN files : p[1] = "dist" => Has(files, <<"version">>, <<"version", p[2]>>)

\* A download is three writes, each of which any directory may take.
LEMMA DownloadFacts ==
  ASSUME NEW v \in Releases, NEW paths, SourcePaths \subseteq paths, NEW files
  PROVE  Download(v) = <<ClearDist, VersionOf(v), SourceOf(v)>> /\ Writable(Download(v), files, paths)
<1>1. Download(v) = <<ClearDist, VersionOf(v), SourceOf(v)>>
  BY DEF Download, ClearDist, VersionOf, SourceOf
<1>2. List(Download(v)) /\ ToSet(Download(v)) = {ClearDist, VersionOf(v), SourceOf(v)}
  BY <1>1, Tuples
<1>3. Fit(VersionOf(v), paths)
  <2>1. Kind(<<"version">>) = "version"
    BY KindOf DEF Plain
  <2>2. Fits(<<"version">>, <<"version", v>>)
    BY <2>1 DEF Fits, Holds
  <2> QED
    BY <2>2 DEF Fit, VersionOf, Put, SourcePaths, Gone
<1>4. Fit(SourceOf(v), paths)
  <2>1. Kind(<<"dist", v>>) = "source"
    BY KindOf
  <2>2. Fits(<<"dist", v>>, <<"source", v>>)
    BY <2>1 DEF Fits, Holds
  <2>3. <<"dist", v>> \in paths
    BY DEF SourcePaths
  <2> QED
    BY <2>2, <2>3 DEF Fit, SourceOf, Put, Gone
<1>5. \A w \in ToSet(Download(v)) : \A h \in Inside : w.at # h[2]
  <2>1. ASSUME NEW h \in Inside PROVE <<"dist">> # h[2] /\ <<"version">> # h[2] /\ <<"dist", v>> # h[2]
    BY NotInside
  <2> QED
    BY <1>2, <2>1 DEF ClearDist, VersionOf, SourceOf, Put
<1>6. \A i \in 1..Len(Download(v)) : Download(v)[i] \in ToSet(Download(v))
  BY <1>2, ListFacts
<1> QED
  BY <1>1, <1>2, <1>3, <1>4, <1>5, <1>6 DEF Writable

\* After os.RemoveAll(dist) nothing is under dist.
LEMMA ClearedDist ==
  ASSUME NEW files, DOMAIN files \subseteq Paths
  PROVE  NoDist(Written(files, ClearDist))
<1>1. ClearDist = Put(<<"dist">>, Gone)
  BY DEF ClearDist
<1>2. DOMAIN Written(files, ClearDist) = {p \in DOMAIN files : p[1] # "dist"}
  BY <1>1, GoneWrite
<1> QED
  BY <1>2 DEF NoDist

\* Each write of a download.
LEMMA DownloadStep ==
  ASSUME NEW v \in Releases, NEW files, DOMAIN files \subseteq Paths,
         NEW todo, Downloading(files, todo, v), todo # <<>>
  PROVE  /\ Head(todo) \in {ClearDist, VersionOf(v), SourceOf(v)}
         /\ Downloading(Written(files, Head(todo)), Tail(todo), v)
<1> DEFINE w == Head(todo)
           new == Written(files, w)
<1>0. /\ ClearDist.put = Gone /\ VersionOf(v).put # Gone /\ SourceOf(v).put # Gone
      /\ VersionOf(v).at = <<"version">> /\ SourceOf(v).at = <<"dist", v>>
      /\ VersionOf(v).put = <<"version", v>> /\ SourceOf(v).put = <<"source", v>>
  BY DEF ClearDist, VersionOf, SourceOf, Put, Gone
<1>1. CASE todo = <<ClearDist, VersionOf(v), SourceOf(v)>>
  <2>1. w = ClearDist /\ Tail(todo) = <<VersionOf(v), SourceOf(v)>>
    BY <1>1
  <2>2. NoDist(Written(files, ClearDist))
    BY ClearedDist
  <2> QED
    BY <2>1, <2>2 DEF Downloading
<1>2. CASE todo = <<VersionOf(v), SourceOf(v)>> /\ NoDist(files)
  <2>1. w = VersionOf(v) /\ Tail(todo) = <<SourceOf(v)>>
    BY <1>2
  <2>2. DOMAIN new = DOMAIN files \cup {<<"version">>} /\ new[<<"version">>] = <<"version", v>>
    <3>1. DOMAIN Written(files, VersionOf(v)) = DOMAIN files \cup {VersionOf(v).at}
          /\ Written(files, VersionOf(v))[VersionOf(v).at] = VersionOf(v).put
      BY <1>0, PutWrite
    <3> QED
      BY <1>0, <2>1, <3>1
  <2>3. NoDist(new) /\ Has(new, <<"version">>, <<"version", v>>)
    <3>1. <<"version">>[1] # "dist"
      OBVIOUS
    <3> QED
      BY <1>2, <2>2, <3>1 DEF NoDist, Has
  <2> QED
    BY <2>1, <2>3 DEF Downloading
<1>3. CASE todo = <<SourceOf(v)>> /\ NoDist(files) /\ Has(files, <<"version">>, <<"version", v>>)
  <2>1. w = SourceOf(v) /\ Tail(todo) = <<>>
    BY <1>3
  <2>2. /\ DOMAIN new = DOMAIN files \cup {<<"dist", v>>} /\ <<"version">> # <<"dist", v>>
        /\ new[<<"version">>] = files[<<"version">>]
    <3>1. DOMAIN Written(files, SourceOf(v)) = DOMAIN files \cup {SourceOf(v).at}
      BY <1>0, PutWrite
    <3>2. \A p \in DOMAIN files : p # SourceOf(v).at => Written(files, SourceOf(v))[p] = files[p]
      BY <1>0, PutWrite
    <3>3. <<"version">> # <<"dist", v>>
      OBVIOUS
    <3> QED
      BY <1>0, <1>3, <2>1, <3>1, <3>2, <3>3 DEF Has
  <2>3. OneDist(new, v) /\ <<"dist", v>> \in DOMAIN new
    BY <1>3, <2>2 DEF NoDist, OneDist, Has
  <2> QED
    BY <2>1, <2>3 DEF Downloading
<1> QED
  BY <1>1, <1>2, <1>3 DEF Downloading

\* Neither a write of a download nor one cut short leaves an archive that
\* .version does not name.
LEMMA DownloadNamed ==
  ASSUME NEW v \in Releases, NEW files, DOMAIN files \subseteq Paths, Named(files),
         NEW todo, Downloading(files, todo, v), todo # <<>>
  PROVE  /\ Named(Written(files, Head(todo)))
         /\ Head(todo).put # Gone => Named(Written(files, Put(Head(todo).at, Torn)))
<1>0. /\ ClearDist.put = Gone /\ VersionOf(v).put # Gone /\ SourceOf(v).put # Gone /\ Torn # Gone
      /\ VersionOf(v).at = <<"version">> /\ SourceOf(v).at = <<"dist", v>>
      /\ VersionOf(v).put = <<"version", v>> /\ SourceOf(v).put = <<"source", v>>
      /\ \A at : Put(at, Torn).at = at /\ Put(at, Torn).put = Torn
  BY DEF ClearDist, VersionOf, SourceOf, Put, Gone, Torn
<1>1. CASE todo = <<ClearDist, VersionOf(v), SourceOf(v)>>
  <2>1. Head(todo) = ClearDist
    BY <1>1
  <2>2. NoDist(Written(files, ClearDist))
    BY ClearedDist
  <2> QED
    BY <1>0, <2>1, <2>2 DEF Named, NoDist
<1>2. CASE todo = <<VersionOf(v), SourceOf(v)>> /\ NoDist(files)
  <2>1. Head(todo) = VersionOf(v) /\ Head(todo).at = <<"version">>
    BY <1>0, <1>2
  <2>2. ASSUME NEW w, w.put # Gone, w.at = <<"version">> PROVE Named(Written(files, w))
    <3>1. DOMAIN Written(files, w) = DOMAIN files \cup {<<"version">>}
      BY <2>2, PutWrite
    <3>2. <<"version">>[1] # "dist"
      OBVIOUS
    <3> QED
      BY <1>2, <3>1, <3>2 DEF NoDist, Named
  <2> QED
    BY <1>0, <2>1, <2>2
<1>3. CASE todo = <<SourceOf(v)>> /\ NoDist(files) /\ Has(files, <<"version">>, <<"version", v>>)
  <2>1. Head(todo) = SourceOf(v) /\ Head(todo).at = <<"dist", v>>
    BY <1>0, <1>3
  <2>2. ASSUME NEW w, w.put # Gone, w.at = <<"dist", v>> PROVE Named(Written(files, w))
    <3>1. /\ DOMAIN Written(files, w) = DOMAIN files \cup {<<"dist", v>>} /\ <<"version">> # <<"dist", v>>
          /\ \A p \in DOMAIN files : p # <<"dist", v>> => Written(files, w)[p] = files[p]
      BY <2>2, PutWrite
    <3> HIDE DEF Named
    <3>2. Has(Written(files, w), <<"version">>, <<"version", v>>)
      BY <1>3, <3>1 DEF Has
    <3>3. <<"dist", v>>[2] = v
      OBVIOUS
    <3> QED
      BY <1>3, <3>1, <3>2, <3>3 DEF NoDist, Named
  <2> QED
    BY <1>0, <2>1, <2>2
<1> QED
  BY <1>1, <1>2, <1>3 DEF Downloading

\* Writing anything else leaves them alone.
LEMMA OtherNamed ==
  ASSUME NEW files, Named(files), NEW w, w.put # Gone, w.at[1] \notin {"dist", "version"}
  PROVE  Named(Written(files, w))
<1>1. /\ DOMAIN Written(files, w) = DOMAIN files \cup {w.at}
      /\ \A p \in DOMAIN files : p # w.at => Written(files, w)[p] = files[p]
  BY PutWrite
<1>2. w.at # <<"version">>
  <2>1. <<"version">>[1] = "version"
    OBVIOUS
  <2> QED
    BY <2>1
<1>3. ASSUME NEW p \in DOMAIN Written(files, w), p[1] = "dist"
      PROVE  Has(Written(files, w), <<"version">>, <<"version", p[2]>>)
  <2>1. p \in DOMAIN files
    BY <1>1, <1>3
  <2>2. Has(files, <<"version">>, <<"version", p[2]>>)
    BY <1>3, <2>1 DEF Named
  <2> QED
    BY <1>1, <1>2, <2>2 DEF Has
<1> QED
  BY <1>3 DEF Named

-----------------------------------------------------------------------------
(* What the commands read from the disk.                                   *)

\* Every directory of a command may hold a release.
LEMMA PathsOfFacts ==
  ASSUME NEW root \in Roots
  PROVE  PathsOf(root) \subseteq Paths /\ SourcePaths \subseteq PathsOf(root)
BY DEF PathsOf, Paths, BuildPaths, WorkspacePaths

\* The workspaces are apart from the build directory.
LEMMA NotBuild == "build" \notin Packaged /\ NoName \notin Packaged /\ Packaged \subseteq Dirs
BY ArtifactsAssumption

\* A write that fits some paths fits more of them.
LEMMA FitWithin ==
  ASSUME NEW smaller, NEW larger, smaller \subseteq larger, NEW w, Fit(w, smaller)
  PROVE  Fit(w, larger)
BY DEF Fit

\* The archive of an organization may be extracted into its workspace.
LEMMA ExtractedWritable ==
  ASSUME NEW k, FilesFit(k.files, OrgPaths), NEW files
  PROVE  Writable(Extracted(k), files, WorkspacePaths)
<1> DEFINE all == Extracted(k)
<1>1. /\ List(all) /\ ToSet(all) = {Put(p, k.files[p]) : p \in DOMAIN k.files}
      /\ \A i \in 1..Len(all) : \A h \in Inside :
           all[i].at = h[2] /\ h[1] \in DOMAIN k.files => \E j \in 1..(i - 1) : all[j].at = h[1]
  BY ExtractedFacts DEF FilesFit
<1> HIDE DEF all
<1>2. ASSUME NEW w \in ToSet(all) PROVE w.at \in DOMAIN k.files /\ Fit(w, WorkspacePaths)
  <2>1. PICK p \in DOMAIN k.files : w = Put(p, k.files[p])
    BY <1>1
  <2>2. p \in OrgPaths /\ Fits(p, k.files[p])
    BY DEF FilesFit
  <2>3. p \in WorkspacePaths /\ p \in Paths
    BY <2>2 DEF WorkspacePaths, Paths
  <2>4. k.files[p] # Gone
    BY <2>2, <2>3, FitNotGone
  <2> QED
    BY <2>1, <2>2, <2>3, <2>4 DEF Put, Fit
<1>3. ASSUME NEW i \in 1..Len(all), NEW h \in Inside, all[i].at = h[2]
      PROVE  \E j \in 1..(i - 1) : all[j].at = h[1]
  <2>1. h[2] \in DOMAIN k.files
    BY <1>1, <1>2, <1>3, ListFacts
  <2>2. h[1] \in DOMAIN k.files
    BY <2>1 DEF FilesFit
  <2> QED
    BY <1>1, <1>3, <2>2
<1> QED
  BY <1>1, <1>2, <1>3 DEF Writable, all

\* What a workspace has of its nodes, and its keys, is not written again.
Fresh(todo, files) ==
  \A i \in 1..Len(todo) : Precious(todo[i].at) =>
    /\ todo[i].at \notin DOMAIN files
    /\ \A j \in 1..Len(todo) : todo[i].at = todo[j].at => i = j

\* A list that names each folder before its files may be written anywhere.
LEMMA HousedWritable ==
  ASSUME NEW todo, List(todo), Housed(todo), NEW paths, NEW files, \A w \in ToSet(todo) : Fit(w, paths)
  PROVE  Writable(todo, files, paths)
BY DEF Writable, Housed

\* A release, its name, the chaincodes and the list of contracts are not precious.
LEMMA PreciousFacts ==
  /\ \A x : ~Precious(<<"chaincodes", x>>) /\ ~Precious(<<"dist", x>>)
  /\ ~Precious(<<"abi">>) /\ ~Precious(<<"version">>) /\ ~Precious(<<"dist">>)
BY DEF Precious

\* What a build of a workspace writes may be written there, and is fresh.
LEMMA WorkspaceWrites ==
  ASSUME NEW files, FilesFit(files, WorkspacePaths), NEW nodes, NEW codes,
         nodes = <<>> \/ \E org \in Orgs : nodes = Missing(files, org),
         codes = <<>> \/ \E some \in Seq(Codes) : codes = Contracts(some)
  PROVE  Writable(nodes \o codes, files, WorkspacePaths) /\ Fresh(nodes \o codes, files)
<1>1. /\ List(nodes) /\ Housed(nodes) /\ Once(nodes)
      /\ \A w \in ToSet(nodes) : \E x \in Ids : HomeAt(x) \notin DOMAIN files /\ Fit(w, InHome(x))
  <2>1. CASE nodes = <<>>
    BY <2>1, Tuples DEF Housed, Once
  <2>2. CASE nodes # <<>>
    BY <2>2, MissingFacts
  <2> QED
    BY <2>1, <2>2
<1>2. List(codes) /\ Housed(codes) /\ \A w \in ToSet(codes) : Fit(w, ContractPaths)
  <2>1. CASE codes = <<>>
    BY <2>1, Tuples DEF Housed
  <2>2. CASE codes # <<>>
    BY <2>2, ContractsFacts
  <2> QED
    BY <2>1, <2>2
<1> DEFINE todo == nodes \o codes
<1>3. /\ List(todo) /\ ToSet(todo) = ToSet(nodes) \cup ToSet(codes)
      /\ Len(todo) = Len(nodes) + Len(codes)
      /\ \A i \in 1..Len(nodes) : todo[i] = nodes[i]
      /\ \A i \in (Len(nodes) + 1)..(Len(nodes) + Len(codes)) : todo[i] = codes[i - Len(nodes)]
  BY <1>1, <1>2, Joined
<1>4. Housed(todo)
  BY <1>1, <1>2, HousedJoined
<1> HIDE DEF todo
<1>5. ASSUME NEW w \in ToSet(nodes) PROVE Fit(w, WorkspacePaths) /\ w.at \notin DOMAIN files
  <2>1. PICK x \in Ids : HomeAt(x) \notin DOMAIN files /\ Fit(w, InHome(x))
    BY <1>1
  <2>2. InHome(x) \subseteq WorkspacePaths
    BY DEF InHome, WorkspacePaths, OrgPaths
  <2>3. Fit(w, WorkspacePaths)
    BY <2>1, <2>2, FitWithin
  <2>4. ASSUME NEW f \in Parts PROVE <<"nodes", x, f>> \notin DOMAIN files
    <3>1. <<HomeAt(x), <<"nodes", x, f>>>> \in Inside
      BY DEF Inside, HomeAt
    <3> QED
      BY <2>1, <3>1 DEF FilesFit
  <2>5. w.at \in InHome(x)
    BY <2>1 DEF Fit
  <2> QED
    BY <2>1, <2>3, <2>4, <2>5 DEF InHome, HomeAt
<1>6. ASSUME NEW w \in ToSet(codes) PROVE Fit(w, WorkspacePaths) /\ ~Precious(w.at)
  <2>1. ContractPaths \subseteq WorkspacePaths
    BY DEF WorkspacePaths
  <2>2. Fit(w, WorkspacePaths)
    BY <1>2, <2>1, FitWithin
  <2>3. w.at \in ContractPaths
    BY <1>2 DEF Fit
  <2> QED
    BY <2>2, <2>3, PreciousFacts DEF ContractPaths
<1>7. Writable(todo, files, WorkspacePaths)
  BY <1>3, <1>4, <1>5, <1>6, HousedWritable
<1>8. Len(nodes) \in Nat /\ Len(codes) \in Nat
  BY <1>1, <1>2, ListFacts
<1>9. ASSUME NEW i \in 1..Len(todo), Precious(todo[i].at)
      PROVE  i \in 1..Len(nodes) /\ todo[i] = nodes[i] /\ nodes[i] \in ToSet(nodes)
  <2>1. CASE i \in 1..Len(nodes)
    BY <1>1, <1>3, <2>1, ListFacts
  <2>2. CASE i \notin 1..Len(nodes)
    <3>1. i \in (Len(nodes) + 1)..(Len(nodes) + Len(codes)) /\ i - Len(nodes) \in 1..Len(codes)
      BY <1>3, <1>8, <2>2
    <3>2. codes[i - Len(nodes)] \in ToSet(codes)
      BY <1>2, <3>1, ListFacts
    <3> QED
      BY <1>3, <1>6, <1>9, <3>1, <3>2
  <2> QED
    BY <2>1, <2>2
<1>10. Fresh(todo, files)
  <2>1. ASSUME NEW i \in 1..Len(todo), Precious(todo[i].at)
        PROVE  todo[i].at \notin DOMAIN files
    BY <1>5, <1>9, <2>1
  <2>2. ASSUME NEW i \in 1..Len(todo), Precious(todo[i].at), NEW j \in 1..Len(todo), todo[i].at = todo[j].at
        PROVE  i = j
    <3>1. Precious(todo[j].at)
      BY <2>2
    <3>2. /\ i \in 1..Len(nodes) /\ j \in 1..Len(nodes)
          /\ todo[i] = nodes[i] /\ todo[j] = nodes[j]
      BY <1>9, <2>2, <3>1
    <3> QED
      BY <1>1, <2>2, <3>2 DEF Once
  <2> QED
    BY <2>1, <2>2 DEF Fresh
<1> QED
  BY <1>7, <1>10 DEF todo

\* Each write leaves the rest fresh.
LEMMA FreshTail ==
  ASSUME NEW files, DOMAIN files \subseteq Paths, NEW todo, Fresh(todo, files), todo # <<>>,
         List(todo), NEW paths, Writable(todo, files, paths)
  PROVE  /\ Fresh(Tail(todo), Written(files, Head(todo)))
         /\ Precious(Head(todo).at) => Head(todo).at \notin DOMAIN files
<1> DEFINE w == Head(todo)
           new == Written(files, w)
           rest == Tail(todo)
<1>1. /\ w \in ToSet(todo) /\ w = todo[1] /\ (w = ClearDist \/ Fit(w, paths))
      /\ Len(rest) = Len(todo) - 1 /\ Len(todo) \in Nat \ {0}
      /\ \A i \in 1..Len(rest) : rest[i] = todo[i + 1]
  BY WritableHead
<1> HIDE DEF w, rest
<1>2. DOMAIN new \subseteq DOMAIN files \cup {w.at}
  <2>1. CASE w = ClearDist
    BY <2>1, GoneWrite DEF ClearDist
  <2>2. CASE w # ClearDist
    <3>1. w.put # Gone
      BY <1>1, <2>2 DEF Fit
    <3> QED
      BY <3>1, PutWrite
  <2> QED
    BY <2>1, <2>2
<1> HIDE DEF new
<1>3. ASSUME NEW i \in 1..Len(rest), Precious(rest[i].at)
      PROVE  rest[i].at \notin DOMAIN new
  <2>1. i + 1 \in 1..Len(todo) /\ 1 \in 1..Len(todo) /\ i + 1 # 1 /\ rest[i] = todo[i + 1]
    BY <1>1
  <2>2. rest[i].at \notin DOMAIN files /\ rest[i].at # todo[1].at
    BY <1>3, <2>1 DEF Fresh
  <2> QED
    BY <1>1, <1>2, <2>2
<1>4. ASSUME NEW i \in 1..Len(rest), Precious(rest[i].at), NEW j \in 1..Len(rest), rest[i].at = rest[j].at
      PROVE  i = j
  <2>1. i + 1 \in 1..Len(todo) /\ j + 1 \in 1..Len(todo) /\ rest[i] = todo[i + 1] /\ rest[j] = todo[j + 1]
    BY <1>1
  <2>2. i + 1 = j + 1
    BY <1>4, <2>1 DEF Fresh
  <2> QED
    BY <1>1, <2>2
<1>5. Precious(w.at) => w.at \notin DOMAIN files
  <2>1. 1 \in 1..Len(todo)
    BY <1>1
  <2> QED
    BY <1>1, <2>1 DEF Fresh
<1> QED
  BY <1>3, <1>4, <1>5 DEF Fresh, w, new, rest

-----------------------------------------------------------------------------
(* The archive of an organization: what is under orgs/d, by its path there. *)

\* Paths that agree beneath the same directory are the same.
LEMMA Cancelled ==
  ASSUME NEW h, NEW s, NEW t, List(h), List(s), List(t), h \o s = h \o t
  PROVE  s = t
<1>1. /\ Len(h) + Len(s) = Len(h) + Len(t)
      /\ Len(h) \in Nat /\ Len(s) \in Nat /\ Len(t) \in Nat
  BY Joined, ListFacts
<1>2. Len(s) = Len(t)
  BY <1>1
<1>3. ASSUME NEW i \in 1..Len(s) PROVE s[i] = t[i]
  <2>1. /\ Len(h) + i \in (Len(h) + 1)..(Len(h) + Len(s))
        /\ Len(h) + i \in (Len(h) + 1)..(Len(h) + Len(t))
        /\ (Len(h) + i) - Len(h) = i
    BY <1>1, <1>2
  <2>2. (h \o s)[Len(h) + i] = s[i]
    BY <2>1, Joined
  <2>3. (h \o t)[Len(h) + i] = t[i]
    BY <2>1, Joined
  <2> QED
    BY <2>2, <2>3
<1>4. s \in Seq(ToSet(s) \cup ToSet(t)) /\ t \in Seq(ToSet(s) \cup ToSet(t))
  BY DEF List
<1> QED
  BY <1>2, <1>3, <1>4, SeqEqual

\* The rest of a path that starts with orgs/d.
LEMMA RestOf ==
  ASSUME NEW p, List(p), Len(p) >= 2, NEW d, p[1] = "orgs", p[2] = d
  PROVE  List(SubSeq(p, 3, Len(p))) /\ <<"orgs", d>> \o SubSeq(p, 3, Len(p)) = p
<1> DEFINE s == SubSeq(p, 3, Len(p))
           home == <<"orgs", d>>
<1>1. Len(p) \in Nat /\ p \in Seq(ToSet(p))
  BY ListFacts DEF List
<1>2. s \in Seq(ToSet(p)) /\ Len(s) = Len(p) - 2 /\ \A i \in 1..Len(s) : s[i] = p[i + 2]
  <2>1. CASE Len(p) = 2
    BY <1>1, <2>1, SubSeqProperties
  <2>2. CASE Len(p) > 2
    BY <1>1, <2>2, SubSeqProperties
  <2> HIDE DEF s
  <2>3. Len(p) = 2 \/ Len(p) > 2
    BY <1>1
  <2> QED
    BY <2>1, <2>2, <2>3
<1>3. List(s)
  BY <1>2, ListOf
<1>4. List(home) /\ Len(home) = 2 /\ home[1] = p[1] /\ home[2] = p[2]
  BY Tuples
<1>5. home \o s = p
  <2>1. \A i \in 1..Len(home) : p[i] = home[i]
    BY <1>4
  <2>2. \A i \in 1..Len(s) : p[Len(home) + i] = s[i]
    BY <1>2, <1>4
  <2>3. Len(p) = Len(home) + Len(s)
    BY <1>1, <1>2, <1>4
  <2> HIDE DEF s, home
  <2> QED
    BY <1>3, <1>4, <2>1, <2>2, <2>3, Concatenation
<1> QED
  BY <1>3, <1>5

\* What `khoai artifact package` archives.
ShortOf(files, d) == {SubSeq(p, 3, Len(p)) : p \in Under(files, <<"orgs", d>>)}
FilesOf(files, d) == [p \in ShortOf(files, d) |-> files[<<"orgs", d>> \o p]]

\* A path of an organization, in its workspace and under orgs/d.
LEMMA ShortPath ==
  ASSUME NEW p \in OrgPaths, NEW d \in Dirs
  PROVE  LET long == <<"orgs", d>> \o p
         IN  /\ List(long) /\ Len(long) >= 2 /\ long[1] = "orgs" /\ long[2] = d
             /\ long \in OrgsPaths /\ Kind(long) = Kind(p)
             /\ IsPrefix(<<"orgs", d>>, long)
             /\ \A h \in Inside : h[2] = p => h[1] \in OrgPaths /\ <<<<"orgs", d>> \o h[1], long>> \in Inside
<1> DEFINE home == <<"orgs", d>>
           long == home \o p
<1>1. List(p) /\ List(home) /\ Len(home) = 2 /\ Len(p) \in Nat
  BY OrgPathFacts, Tuples, ListFacts
<1>2. List(long) /\ Len(long) = 2 + Len(p) /\ \A i \in 1..2 : long[i] = home[i]
  BY <1>1, Joined
<1>3. Len(long) >= 2 /\ long[1] = "orgs" /\ long[2] = d
  BY <1>1, <1>2
<1>4. IsPrefix(home, long)
  <2> HIDE DEF long, home
  <2>1. Len(home) <= Len(long) /\ \A i \in 1..Len(home) : home[i] = long[i]
    BY <1>1, <1>2
  <2> QED
    BY <1>1, <1>2, <2>1, PrefixFacts
<1>5. long \in OrgsPaths /\ Kind(long) = Kind(p)
  <2> HIDE DEF long
  <2>1. ASSUME NEW f \in Plain, p = <<f>> PROVE long \in OrgsPaths /\ Kind(long) = Kind(p)
    <3>1. long = <<"orgs", d, f>>
      BY <2>1, Beneath DEF long
    <3>2. Kind(<<"orgs", d, f>>) = f /\ Kind(<<f>>) = f
      BY KindOf
    <3> QED
      BY <2>1, <3>1, <3>2 DEF OrgsPaths
  <2>2. ASSUME NEW x \in Ids, p = <<"nodes", x>> PROVE long \in OrgsPaths /\ Kind(long) = Kind(p)
    <3>1. long = <<"orgs", d, "nodes", x>>
      BY <2>2, Beneath DEF long
    <3>2. Kind(<<"orgs", d, "nodes", x>>) = "folder" /\ Kind(<<"nodes", x>>) = "folder"
      BY KindOf
    <3> QED
      BY <2>2, <3>1, <3>2 DEF OrgsPaths
  <2>3. ASSUME NEW x \in Ids, NEW f \in Parts, p = <<"nodes", x, f>> PROVE long \in OrgsPaths /\ Kind(long) = Kind(p)
    <3>1. long = <<"orgs", d, "nodes", x, f>>
      BY <2>3, Beneath DEF long
    <3>2. Kind(<<"orgs", d, "nodes", x, f>>) = f /\ Kind(<<"nodes", x, f>>) = f
      BY KindOf
    <3> QED
      BY <2>3, <3>1, <3>2 DEF OrgsPaths
  <2> QED
    BY <2>1, <2>2, <2>3 DEF OrgPaths
<1>6. ASSUME NEW h \in Inside, h[2] = p
      PROVE  h[1] \in OrgPaths /\ <<home \o h[1], long>> \in Inside
  <2>1. PICK x \in Ids, f \in Parts : h = <<<<"nodes", x>>, <<"nodes", x, f>>>>
    <3>1. \A e, x, f : <<"orgs", e, "nodes", x, f>> \notin OrgPaths
      BY DEF OrgPaths
    <3> QED
      BY <1>6, <3>1 DEF Inside
  <2>2. home \o h[1] = <<"orgs", d, "nodes", x>>
    BY <2>1, Beneath
  <2>3. long = <<"orgs", d, "nodes", x, f>>
    <3>1. p = <<"nodes", x, f>>
      BY <1>6, <2>1
    <3> QED
      BY <3>1, Beneath
  <2>4. h[1] \in OrgPaths
    BY <2>1 DEF OrgPaths
  <2> QED
    BY <2>2, <2>3, <2>4 DEF Inside
<1> HIDE DEF long, home
<1> QED
  BY <1>2, <1>3, <1>4, <1>5, <1>6 DEF long, home

\* The paths of an archive are those of the organization.
LEMMA ShortFacts ==
  ASSUME NEW files, FilesFit(files, BuildPaths), NEW d \in Dirs, NEW p
  PROVE  p \in ShortOf(files, d) <=> p \in OrgPaths /\ <<"orgs", d>> \o p \in DOMAIN files
<1> DEFINE home == <<"orgs", d>>
<1>0. List(home) /\ Len(home) = 2 /\ home[1] = "orgs" /\ home[2] = d
  BY Tuples
<1>1. ASSUME p \in OrgPaths, home \o p \in DOMAIN files PROVE p \in ShortOf(files, d)
  <2> DEFINE long == home \o p
  <2>1. List(long) /\ Len(long) >= 2 /\ long[1] = "orgs" /\ long[2] = d /\ IsPrefix(home, long)
    BY <1>1, ShortPath
  <2>2. long \in Under(files, home)
    BY <1>1, <2>1 DEF Under
  <2> HIDE DEF long
  <2>3. List(SubSeq(long, 3, Len(long))) /\ home \o SubSeq(long, 3, Len(long)) = long
    BY <2>1, RestOf
  <2>4. List(p)
    BY <1>1, OrgPathFacts
  <2>5. p = SubSeq(long, 3, Len(long))
    BY <1>0, <2>3, <2>4, Cancelled DEF long
  <2> QED
    BY <2>2, <2>5 DEF ShortOf
<1>2. ASSUME p \in ShortOf(files, d) PROVE p \in OrgPaths /\ home \o p \in DOMAIN files
  <2>1. PICK long \in DOMAIN files : IsPrefix(home, long) /\ p = SubSeq(long, 3, Len(long))
    BY <1>2 DEF ShortOf, Under
  <2>2. long \in BuildPaths
    BY DEF FilesFit
  <2>3. List(long)
    BY <2>2, Tuples DEF BuildPaths, SourcePaths, NetworkPaths, ContractPaths, OrgsPaths
  <2>4. Len(long) >= 2 /\ long[1] = "orgs" /\ long[2] = d
    <3> HIDE DEF home
    <3>1. Len(home) <= Len(long) /\ \A i \in 1..Len(home) : home[i] = long[i]
      BY <1>0, <2>1, <2>3, PrefixFacts
    <3> QED
      BY <1>0, <3>1
  <2>5. List(p) /\ home \o p = long
    BY <2>1, <2>3, <2>4, RestOf
  <2>6. \/ \E f \in Plain : long = <<"orgs", d, f>>
        \/ \E x \in Ids : long = <<"orgs", d, "nodes", x>>
        \/ \E x \in Ids : \E f \in Parts : long = <<"orgs", d, "nodes", x, f>>
    <3>1. long \in OrgsPaths
      BY <2>2, <2>4 DEF BuildPaths, SourcePaths, NetworkPaths, ContractPaths
    <3> QED
      BY <2>4, <3>1 DEF OrgsPaths
  <2>7. CASE \E f \in Plain : long = <<"orgs", d, f>>
    <3>1. PICK f \in Plain : long = <<"orgs", d, f>>
      BY <2>7
    <3>2. home \o <<f>> = long /\ List(<<f>>)
      BY <3>1, Beneath, Tuples
    <3>3. p = <<f>>
      BY <1>0, <2>5, <3>2, Cancelled
    <3>4. p \in OrgPaths
      BY <3>3 DEF OrgPaths
    <3> QED
      BY <2>5, <3>4
  <2>8. CASE \E x \in Ids : long = <<"orgs", d, "nodes", x>>
    <3>1. PICK x \in Ids : long = <<"orgs", d, "nodes", x>>
      BY <2>8
    <3>2. home \o <<"nodes", x>> = long /\ List(<<"nodes", x>>)
      BY <3>1, Beneath, Tuples
    <3>3. p = <<"nodes", x>>
      BY <1>0, <2>5, <3>2, Cancelled
    <3>4. p \in OrgPaths
      BY <3>3 DEF OrgPaths
    <3> QED
      BY <2>5, <3>4
  <2>9. CASE \E x \in Ids : \E f \in Parts : long = <<"orgs", d, "nodes", x, f>>
    <3>1. PICK x \in Ids, f \in Parts : long = <<"orgs", d, "nodes", x, f>>
      BY <2>9
    <3>2. home \o <<"nodes", x, f>> = long /\ List(<<"nodes", x, f>>)
      BY <3>1, Beneath, Tuples
    <3>3. p = <<"nodes", x, f>>
      BY <1>0, <2>5, <3>2, Cancelled
    <3>4. p \in OrgPaths
      BY <3>3 DEF OrgPaths
    <3> QED
      BY <2>5, <3>4
  <2> QED
    BY <2>6, <2>7, <2>8, <2>9
<1> QED
  BY <1>1, <1>2

\* What is packaged fits a workspace.
LEMMA PackagedFits ==
  ASSUME NEW files, FilesFit(files, BuildPaths), NEW d \in Dirs
  PROVE  FilesFit(FilesOf(files, d), OrgPaths)
<1> DEFINE k == FilesOf(files, d)
<1>1. DOMAIN k = ShortOf(files, d) /\ \A p \in DOMAIN k : k[p] = files[<<"orgs", d>> \o p]
  BY DEF FilesOf
<1> HIDE DEF k
<1>2. DOMAIN k \subseteq OrgPaths
  BY <1>1, ShortFacts
<1>3. IsFiniteSet(DOMAIN k)
  <2>1. IsFiniteSet(Under(files, <<"orgs", d>>))
    BY FS_Subset DEF Under, FilesFit
  <2>2. DOMAIN k = {SubSeq(p, 3, Len(p)) : p \in Under(files, <<"orgs", d>>)}
    BY <1>1 DEF ShortOf
  <2>3. IsFiniteSet({SubSeq(p, 3, Len(p)) : p \in Under(files, <<"orgs", d>>)})
    <3> DEFINE S == Under(files, <<"orgs", d>>)
               T == {SubSeq(p, 3, Len(p)) : p \in S}
               f == [p \in S |-> SubSeq(p, 3, Len(p))]
    <3>1. f \in Surjection(S, T)
      BY DEF Surjection
    <3>2. IsFiniteSet(S)
      BY <2>1
    <3> HIDE DEF S, T, f
    <3>3. IsFiniteSet(T)
      BY <3>1, <3>2, FS_Surjection
    <3> QED
      BY <3>3 DEF T, S
  <2> QED
    BY <2>2, <2>3
<1>4. ASSUME NEW p \in DOMAIN k PROVE Fits(p, k[p])
  <2>1. p \in OrgPaths /\ <<"orgs", d>> \o p \in DOMAIN files
    BY <1>1, ShortFacts
  <2>2. Kind(<<"orgs", d>> \o p) = Kind(p)
    BY <2>1, ShortPath
  <2>3. Fits(<<"orgs", d>> \o p, k[p])
    BY <1>1, <2>1 DEF FilesFit
  <2> QED
    BY <2>2, <2>3 DEF Fits
<1>5. ASSUME NEW h \in Inside, h[2] \in DOMAIN k PROVE h[1] \in DOMAIN k
  <2>1. h[2] \in OrgPaths /\ <<"orgs", d>> \o h[2] \in DOMAIN files
    BY <1>1, <1>5, ShortFacts
  <2>2. h[1] \in OrgPaths /\ <<<<"orgs", d>> \o h[1], <<"orgs", d>> \o h[2]>> \in Inside
    BY <2>1, ShortPath
  <2>3. \A g \in Inside : g[2] \in DOMAIN files => g[1] \in DOMAIN files
    BY DEF FilesFit
  <2>4. <<"orgs", d>> \o h[1] \in DOMAIN files
    BY <2>1, <2>2, <2>3
  <2> QED
    BY <1>1, <2>2, <2>4, ShortFacts
<1>6. FilesFit(k, OrgPaths)
  BY <1>2, <1>3, <1>4, <1>5 DEF FilesFit
<1> QED
  BY <1>6 DEF k

-----------------------------------------------------------------------------
(* The inductive invariant.                                                *)

\* A package: the files of an organization, its version among them.
PackageFit(k) ==
  /\ k.dir \in Packaged
  /\ FilesFit(k.files, OrgPaths)
  /\ <<"version">> \in DOMAIN k.files

\* What is counted, and whose workspace is current.
Counters ==
  /\ latest \in Releases
  /\ commands \in [Kinds -> Nat]
  /\ cuts \in 0..MaxCuts
  /\ current \in Packaged \cup {NoName}

\* Every directory fits.
Directories ==
  /\ DOMAIN disk = Roots
  /\ \A root \in Roots : FilesFit(disk[root], PathsOf(root))

\* Every archive is a package.
Archives == \A key \in DOMAIN packages : key[1] \in Packaged /\ PackageFit(packages[key])

\* A command is where it should be.
CommandFit(c) ==
  /\ c \in [kind : Kinds \cup {"install"}, stage : {"source", "generate"}, root : Roots,
            todo : {c.todo}, package : {c.package}]
  /\ c.root = "build" <=> c.kind \in {"build", "update"}
  /\ c.stage = "generate" => c.kind \in {"build", "workspace"}

\* A command may write what it has yet to write.
Running ==
  command # Idle =>
    /\ CommandFit(command)
    /\ Writable(command.todo, disk[command.root], PathsOf(command.root))
    /\ installed = Nothing

\* A command that downloads a release is at some moment of it; install
\* downloads the release of its package.
SourcedBy(c, files) ==
  \E v \in Releases :
    /\ Downloading(files, c.todo, v)
    /\ c.kind = "install" => Has(c.package.files, <<"version">>, <<"version", v>>)

Sourced ==
  command # Idle /\ command.stage = "source" /\ command.kind # "extract" =>
    SourcedBy(command, disk[command.root])

\* Each file of a package is in the workspace, or still to be written there.
ExtractedBy(c, files) ==
  /\ PackageFit(c.package)
  /\ c.root = c.package.dir
  /\ c.kind = "extract" => \A w \in ToSet(c.todo) : Has(c.package.files, w.at, w.put)
  /\ \A p \in DOMAIN c.package.files :
       \/ Has(files, p, c.package.files[p])
       \/ c.kind = "extract" /\ \E w \in ToSet(c.todo) : w.at = p

Extracting ==
  command # Idle /\ command.kind \in {"extract", "install"} =>
    ExtractedBy(command, disk[command.root])

\* An install that succeeded: all of the package, and one archive, of the
\* release .version names.
InstalledOn(k, files) ==
  /\ PackageFit(k)
  /\ \A p \in DOMAIN k.files : Has(files, p, k.files[p])
  /\ \E v \in Releases : OneDist(files, v) /\ <<"dist", v>> \in DOMAIN files

\* What the last install left is still there.
Installed == installed # Nothing => InstalledOn(installed, disk[installed.dir])

\* The build of a workspace writes nothing precious that is there.
Freshness ==
  command # Idle /\ command.kind = "workspace" => Fresh(command.todo, disk[command.root])

\* A build, once it generates, leaves the release alone.
Generating ==
  command # Idle /\ command.kind = "build" /\ command.stage = "generate" =>
    \A w \in ToSet(command.todo) : w.at \in NetworkPaths

\* The parts hold each other up: what a command has yet to write fits (Running)
\* only because of what is there, and what is there fits because of that.
IInv ==
  /\ Counters /\ Directories /\ Archives /\ Running /\ Sourced /\ Extracting
  /\ Installed /\ Freshness /\ Generating
  /\ Named(disk["build"])

\* Nothing is on the disk and no command runs.
LEMMA InitIInv == Init => IInv
<1> SUFFICES ASSUME Init PROVE IInv
  OBVIOUS
<1> USE DEF Init
<1>1. Counters
  BY ArtifactsAssumption DEF Counters, Releases
<1>2. \A root \in Roots : disk[root] = <<>>
  BY DEF Roots
<1>3. DOMAIN <<>> = {}
  BY Tuples DEF List
<1>4. Directories
  <2>1. \A paths : FilesFit(<<>>, paths)
    BY <1>3, FS_EmptySet DEF FilesFit
  <2> QED
    BY <1>2, <2>1 DEF Directories, Roots
<1>5. Archives
  BY <1>3 DEF Archives
<1>6. Running /\ Sourced /\ Extracting /\ Installed /\ Freshness /\ Generating
  BY DEF Running, Sourced, Extracting, Installed, Freshness, Generating
<1>7. Named(disk["build"])
  BY <1>2, <1>3 DEF Named, Roots
<1> QED
  BY <1>1, <1>4, <1>5, <1>6, <1>7 DEF IInv

\* A command under way goes on with other writes.
LEMMA CommandFacts ==
  ASSUME NEW c, CommandFit(c)
  PROVE  /\ c # Idle
         /\ \A todo : LET new == [c EXCEPT !.todo = todo]
                      IN  /\ CommandFit(new) /\ new.todo = todo /\ new.kind = c.kind
                          /\ new.stage = c.stage /\ new.root = c.root /\ new.package = c.package
<1> DEFINE Commands(t, p) == [kind : Kinds \cup {"install"}, stage : {"source", "generate"}, root : Roots,
                              todo : {t}, package : {p}]
<1>1. c \in Commands(c.todo, c.package)
  BY DEF CommandFit
<1>2. c # Idle
  <2>1. c.kind # "idle"
    BY <1>1 DEF Kinds
  <2> QED
    BY <2>1 DEF Idle
<1>3. ASSUME NEW todo
      PROVE  LET new == [c EXCEPT !.todo = todo]
             IN  /\ CommandFit(new) /\ new.todo = todo /\ new.kind = c.kind
                 /\ new.stage = c.stage /\ new.root = c.root /\ new.package = c.package
  <2> DEFINE new == [c EXCEPT !.todo = todo]
  <2>1. new = [kind |-> c.kind, stage |-> c.stage, root |-> c.root, todo |-> todo, package |-> c.package]
    BY <1>1
  <2>2. new \in Commands(todo, c.package)
    BY <1>1, <2>1
  <2>3. /\ new.todo = todo /\ new.kind = c.kind
        /\ new.stage = c.stage /\ new.root = c.root /\ new.package = c.package
    BY <2>1
  <2> HIDE DEF new
  <2>4. CommandFit(new)
    BY <2>2, <2>3 DEF CommandFit
  <2> QED
    BY <2>3, <2>4 DEF new
<1> QED
  BY <1>2, <1>3

\* A download touches no key and no node, and begins at its first moment.
LEMMA DownloadNotPrecious ==
  ASSUME NEW v \in Releases, NEW files
  PROVE  Fresh(Download(v), files) /\ Downloading(files, Download(v), v)
<1>1. Download(v) = <<ClearDist, VersionOf(v), SourceOf(v)>>
  BY DEF Download, ClearDist, VersionOf, SourceOf
<1>2. \A w \in {ClearDist, VersionOf(v), SourceOf(v)} : ~Precious(w.at)
  <2>1. ClearDist.at = <<"dist">> /\ VersionOf(v).at = <<"version">> /\ SourceOf(v).at = <<"dist", v>>
    BY DEF ClearDist, VersionOf, SourceOf, Put
  <2> QED
    BY <2>1, PreciousFacts
<1>3. List(Download(v)) /\ ToSet(Download(v)) = {ClearDist, VersionOf(v), SourceOf(v)}
  BY <1>1, Tuples
<1>4. Fresh(Download(v), files)
  BY <1>2, <1>3, ListFacts DEF Fresh
<1> QED
  BY <1>1, <1>4 DEF Downloading

-----------------------------------------------------------------------------
(* Each action keeps the invariant.                                        *)

\* A command begins: it has yet to download a release, or to extract a package.
LEMMA BeginKeeps ==
  ASSUME IInv, NEW kind \in Kinds, NEW root \in Roots, NEW todo, NEW package,
         Begin(kind, root, todo, package), latest' \in Releases,
         root = "build" <=> kind \in {"build", "update"},
         Writable(todo, disk[root], PathsOf(root)),
         kind # "extract" => \E v \in Releases : todo = Download(v),
         kind = "extract" => ExtractedBy([todo |-> todo, root |-> root, kind |-> kind, package |-> package], disk[root])
  PROVE  IInv'
<1> DEFINE c == [kind |-> kind, stage |-> "source", root |-> root, todo |-> todo, package |-> package]
<1>1. /\ command' = c /\ installed' = Nothing /\ current' = NoName
      /\ UNCHANGED <<disk, packages, cuts>>
      /\ commands' = [commands EXCEPT ![kind] = @ + 1]
  BY DEF Begin
<1>2. Counters'
  BY <1>1 DEF IInv, Counters
<1>3. Directories' /\ Archives' /\ Named(disk["build"])'
  BY <1>1 DEF IInv, Directories, Archives
<1>4. /\ c.kind = kind /\ c.stage = "source" /\ c.root = root /\ c.todo = todo /\ c.package = package
      /\ c \in [kind : Kinds \cup {"install"}, stage : {"source", "generate"}, root : Roots,
                todo : {c.todo}, package : {c.package}]
  OBVIOUS
<1> HIDE DEF c
<1>5. CommandFit(c)
  BY <1>4 DEF CommandFit
<1>6. Running'
  BY <1>1, <1>4, <1>5 DEF Running
<1>7. kind # "install"
  BY DEF Kinds
<1>8. Sourced'
  <2>1. ASSUME kind # "extract" PROVE SourcedBy(c, disk[root])
    <3>1. PICK v \in Releases : todo = Download(v)
      BY <2>1
    <3> QED
      BY <1>4, <1>7, <3>1, DownloadNotPrecious DEF SourcedBy
  <2> QED
    BY <1>1, <1>4, <2>1 DEF Sourced
<1>9. Extracting'
  BY <1>1, <1>4, <1>7 DEF Extracting, ExtractedBy
<1>10. Installed' /\ Generating'
  BY <1>1, <1>4 DEF Installed, Generating
<1>11. Freshness'
  <2>1. ASSUME kind = "workspace" PROVE Fresh(todo, disk[root])
    BY <2>1, DownloadNotPrecious
  <2> QED
    BY <1>1, <1>4, <2>1 DEF Freshness
<1> QED
  BY <1>2, <1>3, <1>6, <1>8, <1>9, <1>10, <1>11 DEF IInv

\* A command begins with the download of the latest release.
LEMMA BeginLatestKeeps ==
  ASSUME IInv, NEW kind \in Kinds \ {"extract"}, NEW root \in Roots,
         root = "build" <=> kind \in {"build", "update"}, BeginLatest(kind, root)
  PROVE  IInv'
<1>1. PICK release \in latest..MaxRelease :
        latest' = release /\ Begin(kind, root, Download(release), Nothing)
  BY DEF BeginLatest
<1>2. release \in Releases
  BY ArtifactsAssumption DEF IInv, Counters, Releases
<1>3. Writable(Download(release), disk[root], PathsOf(root))
  BY <1>2, PathsOfFacts, DownloadFacts
<1> QED
  BY <1>1, <1>2, <1>3, BeginKeeps

\* `khoai artifact build` begins.
LEMMA BuildKeeps ==
  ASSUME IInv, Build
  PROVE  IInv'
BY BeginLatestKeeps DEF Build, Kinds, Roots

\* `khoai artifact update` begins.
LEMMA UpdateKeeps ==
  ASSUME IInv, Update
  PROVE  IInv'
BY BeginLatestKeeps DEF Update, Kinds, Roots

\* `khoai artifact build` begins in the workspace of an organization.
LEMMA BuildWorkspaceKeeps ==
  ASSUME IInv, NEW d \in Packaged, BuildWorkspace(d)
  PROVE  IInv'
<1>1. d # "build" /\ d \in Roots
  BY NotBuild DEF Roots
<1> QED
  BY <1>1, BeginLatestKeeps DEF BuildWorkspace, Kinds

\* `khoai artifact install` begins: it extracts the package.
LEMMA InstallKeeps ==
  ASSUME IInv, NEW key \in DOMAIN packages, Install(key)
  PROVE  IInv'
<1> DEFINE k == packages[key]
<1>1. PackageFit(k)
  BY DEF IInv, Archives
<1>2. Begin("extract", k.dir, Extracted(k), k) /\ latest' = latest
  BY DEF Install
<1> HIDE DEF k
<1>3. k.dir \in Roots /\ k.dir # "build" /\ PathsOf(k.dir) = WorkspacePaths
  BY <1>1, NotBuild DEF PackageFit, Roots, PathsOf
<1>4. Writable(Extracted(k), disk[k.dir], WorkspacePaths)
  BY <1>1, ExtractedWritable DEF PackageFit
<1> DEFINE c == [todo |-> Extracted(k), root |-> k.dir, kind |-> "extract", package |-> k]
<1>5. ExtractedBy(c, disk[k.dir])
  <2>1. ToSet(Extracted(k)) = {Put(p, k.files[p]) : p \in DOMAIN k.files}
    BY <1>1, ExtractedFacts DEF PackageFit, FilesFit
  <2>2. ASSUME NEW w \in ToSet(Extracted(k)) PROVE Has(k.files, w.at, w.put)
    BY <2>1 DEF Put, Has
  <2>3. ASSUME NEW p \in DOMAIN k.files PROVE \E w \in ToSet(Extracted(k)) : w.at = p
    <3>1. Put(p, k.files[p]) \in ToSet(Extracted(k)) /\ Put(p, k.files[p]).at = p
      BY <2>1 DEF Put
    <3> QED
      BY <3>1
  <2>4. c.todo = Extracted(k) /\ c.root = k.dir /\ c.kind = "extract" /\ c.package = k
    OBVIOUS
  <2> HIDE DEF c
  <2> QED
    BY <1>1, <2>2, <2>3, <2>4 DEF ExtractedBy
<1>6. latest' \in Releases /\ "extract" \in Kinds
  BY <1>2 DEF IInv, Counters, Kinds
<1> QED
  BY <1>2, <1>3, <1>4, <1>5, <1>6, BeginKeeps

\* The command that was running is over, and the disk is as it was.
LEMMA StopKeeps ==
  ASSUME IInv, command' = Idle, UNCHANGED <<latest, disk, packages, commands>>,
         cuts' \in 0..MaxCuts, current' \in Packaged \cup {NoName},
         installed' = installed \/ InstalledOn(installed', disk[installed'.dir])
  PROVE  IInv'
<1>1. Counters' /\ Directories' /\ Archives' /\ Named(disk["build"])'
  BY DEF IInv, Counters, Directories, Archives
<1>2. Running' /\ Sourced' /\ Extracting' /\ Freshness' /\ Generating'
  BY DEF Running, Sourced, Extracting, Freshness, Generating
<1>3. Installed'
  BY DEF IInv, Installed
<1> QED
  BY <1>1, <1>2, <1>3 DEF IInv

\* A build ends: what it wrote stays.
LEMMA FinishBuildKeeps ==
  ASSUME IInv, FinishBuild
  PROVE  IInv'
BY StopKeeps DEF FinishBuild, IInv, Counters

\* An update ends.
LEMMA FinishUpdateKeeps ==
  ASSUME IInv, FinishUpdate
  PROVE  IInv'
BY StopKeeps DEF FinishUpdate, history, IInv, Counters

\* The build of a workspace ends.
LEMMA FinishWorkspaceKeeps ==
  ASSUME IInv, FinishWorkspace
  PROVE  IInv'
<1>1. command # Idle /\ command.kind = "workspace"
  BY DEF FinishWorkspace, Through
<1>2. command.root \in Packaged
  BY <1>1 DEF IInv, Running, CommandFit, Roots
<1>3. current' \in Packaged \cup {NoName}
  BY <1>2 DEF FinishWorkspace
<1> QED
  BY <1>3, StopKeeps DEF FinishWorkspace, IInv, Counters

\* An install ends: all of the package is there, and the release it names.
LEMMA FinishInstallKeeps ==
  ASSUME IInv, FinishInstall
  PROVE  IInv'
<1> DEFINE k == command.package
           files == disk[command.root]
<1>1. command # Idle /\ command.kind = "install" /\ command.stage = "source" /\ command.todo = <<>>
  BY DEF FinishInstall, Through
<1>2. ExtractedBy(command, files)
  BY <1>1 DEF IInv, Extracting
<1>3. PICK v \in Releases : Downloading(files, <<>>, v)
  BY <1>1 DEF IInv, Sourced, SourcedBy
<1>4. OneDist(files, v) /\ <<"dist", v>> \in DOMAIN files
  BY <1>3 DEF Downloading
<1>5. InstalledOn(k, disk[k.dir])
  BY <1>1, <1>2, <1>4 DEF ExtractedBy, InstalledOn
<1> QED
  BY <1>5, StopKeeps DEF FinishInstall, IInv, Counters

\* What is known of the command that is running.
LEMMA RunningFacts ==
  ASSUME IInv, command # Idle
  PROVE  /\ CommandFit(command) /\ command.root \in Roots /\ installed = Nothing
         /\ FilesFit(disk[command.root], PathsOf(command.root))
         /\ PathsOf(command.root) \subseteq Paths
         /\ Writable(command.todo, disk[command.root], PathsOf(command.root))
<1>1. CommandFit(command) /\ installed = Nothing
      /\ Writable(command.todo, disk[command.root], PathsOf(command.root))
  BY DEF IInv, Running
<1>2. command.root \in Roots
  BY <1>1 DEF CommandFit
<1> QED
  BY <1>1, <1>2, PathsOfFacts DEF IInv, Directories

\* Another root is left alone by a write; the one written has what was written.
LEMMA DiskWrite ==
  ASSUME DOMAIN disk = Roots, NEW root \in Roots, NEW files, disk' = [disk EXCEPT ![root] = files]
  PROVE  /\ DOMAIN disk' = Roots /\ disk'[root] = files
         /\ \A other \in Roots : other # root => disk'[other] = disk[other]
OBVIOUS

\* A write of the extraction leaves every file of the package on the disk or
\* still to be written.
LEMMA ExtractStep ==
  ASSUME NEW c, c.kind = "extract", NEW files, ExtractedBy(c, files),
         NEW w, NEW rest, ToSet(c.todo) = ToSet(rest) \cup {w},
         NEW new, new.kind = "extract", new.root = c.root, new.package = c.package, new.todo = rest
  PROVE  ExtractedBy(new, Written(files, w))
<1> DEFINE k == c.package
<1>1. /\ PackageFit(k) /\ c.root = k.dir
      /\ \A x \in ToSet(rest) \cup {w} : Has(k.files, x.at, x.put)
      /\ \A p \in DOMAIN k.files : Has(files, p, k.files[p]) \/ \E x \in ToSet(rest) \cup {w} : x.at = p
  BY DEF ExtractedBy
<1> HIDE DEF k
<1>2. w.put # Gone
  <2>1. w.at \in OrgPaths /\ Fits(w.at, w.put)
    BY <1>1 DEF PackageFit, FilesFit, Has
  <2>2. w.at \in Paths
    BY <2>1 DEF Paths, WorkspacePaths
  <2> QED
    BY <2>1, <2>2, FitNotGone
<1>3. /\ DOMAIN Written(files, w) = DOMAIN files \cup {w.at} /\ Written(files, w)[w.at] = w.put
      /\ \A p \in DOMAIN files : p # w.at => Written(files, w)[p] = files[p]
  BY <1>2, PutWrite
<1>4. ASSUME NEW p \in DOMAIN k.files
      PROVE  Has(Written(files, w), p, k.files[p]) \/ \E x \in ToSet(rest) : x.at = p
  <2>1. CASE p = w.at
    BY <1>1, <1>3, <2>1 DEF Has
  <2>2. CASE p # w.at
    BY <1>1, <1>3, <2>2 DEF Has
  <2> QED
    BY <2>1, <2>2
<1> QED
  BY <1>1, <1>4 DEF ExtractedBy, k

\* The download of install leaves the package on the disk.
LEMMA InstallStep ==
  ASSUME NEW c, c.kind = "install", NEW files, DOMAIN files \subseteq Paths, ExtractedBy(c, files),
         NEW v, Has(c.package.files, <<"version">>, <<"version", v>>),
         NEW w \in {ClearDist, VersionOf(v), SourceOf(v)},
         NEW new, new.kind = "install", new.root = c.root, new.package = c.package
  PROVE  ExtractedBy(new, Written(files, w))
<1> DEFINE k == c.package
<1>1. /\ PackageFit(k) /\ c.root = k.dir
      /\ \A p \in DOMAIN k.files : Has(files, p, k.files[p])
  BY DEF ExtractedBy
<1>2. k.files[<<"version">>] = <<"version", v>>
  BY DEF Has
<1> HIDE DEF k
<1>3. ASSUME NEW p \in DOMAIN k.files PROVE p[1] # "dist"
  BY <1>1 DEF PackageFit, FilesFit, OrgPaths, Plain
<1>4. ASSUME NEW p \in DOMAIN k.files PROVE Has(Written(files, w), p, k.files[p])
  <2>1. CASE w = ClearDist
    <3>1. /\ DOMAIN Written(files, w) = {q \in DOMAIN files : q[1] # "dist"}
          /\ \A q \in DOMAIN Written(files, w) : Written(files, w)[q] = files[q]
      BY <2>1, GoneWrite DEF ClearDist
    <3> QED
      BY <1>1, <1>3, <3>1 DEF Has
  <2>2. CASE w \in {VersionOf(v), SourceOf(v)}
    <3>1. w.put # Gone /\ (w.at = p => w.put = k.files[p])
      <4>1. CASE w = VersionOf(v)
        BY <1>2, <4>1 DEF VersionOf, Put, Gone
      <4>2. CASE w = SourceOf(v)
        <5>1. w.at[1] = "dist" /\ w.put # Gone
          BY <4>2 DEF SourceOf, Put, Gone
        <5> QED
          BY <1>3, <5>1
      <4> QED
        BY <2>2, <4>1, <4>2
    <3>2. /\ DOMAIN Written(files, w) = DOMAIN files \cup {w.at} /\ Written(files, w)[w.at] = w.put
          /\ \A q \in DOMAIN files : q # w.at => Written(files, w)[q] = files[q]
      BY <3>1, PutWrite
    <3> QED
      BY <1>1, <3>1, <3>2 DEF Has
  <2> QED
    BY <2>1, <2>2
<1> QED
  BY <1>1, <1>4 DEF ExtractedBy, k

\* What the generator writes is not the release.
LEMMA NetworkPathFacts ==
  ASSUME NEW p \in NetworkPaths
  PROVE  p[1] \notin {"dist", "version"} /\ p # <<"dist">>
BY DEF NetworkPaths, OrgsPaths, ContractPaths

\* The next write of the list is made: the directory still fits, and the rest of
\* the list may still be written.
LEMMA StepKeeps ==
  ASSUME IInv, Step
  PROVE  IInv'
<1> DEFINE c == command
           root == c.root
           files == disk[root]
           w == Head(c.todo)
           rest == Tail(c.todo)
           new == Written(files, w)
<1>1. /\ c # Idle /\ c.todo # <<>> /\ c' = [c EXCEPT !.todo = rest]
      /\ disk' = [disk EXCEPT ![root] = new]
      /\ UNCHANGED <<latest, packages, commands, cuts, built, installed, current>>
  BY DEF Step, history
<1>2. /\ CommandFit(c) /\ root \in Roots /\ installed = Nothing
      /\ FilesFit(files, PathsOf(root)) /\ PathsOf(root) \subseteq Paths
      /\ Writable(c.todo, files, PathsOf(root)) /\ DOMAIN files \subseteq Paths
  BY <1>1, RunningFacts DEF FilesFit
<1>3. /\ FilesFit(new, PathsOf(root))
      /\ Writable(rest, new, PathsOf(root))
  BY <1>1, <1>2, WritableTail
<1>4. /\ w \in ToSet(c.todo) /\ (w = ClearDist \/ Fit(w, PathsOf(root)))
      /\ ToSet(c.todo) = ToSet(rest) \cup {w} /\ List(c.todo)
  <2>1. List(c.todo)
    BY <1>2 DEF Writable
  <2> QED
    BY <1>1, <1>2, <2>1, WritableHead
<1> HIDE DEF c, w, rest
<1>5. /\ CommandFit(c') /\ c'.todo = rest /\ c'.kind = c.kind
      /\ c'.stage = c.stage /\ c'.root = root /\ c'.package = c.package /\ c' # Idle
  BY <1>1, <1>2, CommandFacts
<1>6. /\ DOMAIN disk' = Roots /\ disk'[root] = new
      /\ \A other \in Roots : other # root => disk'[other] = disk[other]
  <2>1. DOMAIN disk = Roots
    BY DEF IInv, Directories
  <2> HIDE DEF new
  <2> QED
    BY <1>1, <1>2, <2>1, DiskWrite
<1>7. Counters'
  BY <1>1 DEF IInv, Counters
<1>8. Directories'
  BY <1>3, <1>6 DEF IInv, Directories
<1>9. Archives'
  BY <1>1 DEF IInv, Archives
<1>10. Running'
  <2> HIDE DEF new
  <2> QED
    BY <1>1, <1>2, <1>3, <1>5, <1>6 DEF Running, c
<1>11. ASSUME c.stage = "source", c.kind # "extract"
       PROVE  \E v \in Releases : /\ w \in {ClearDist, VersionOf(v), SourceOf(v)}
                                  /\ Downloading(files, c.todo, v) /\ Downloading(new, rest, v)
                                  /\ c.kind = "install" => Has(c.package.files, <<"version">>, <<"version", v>>)
  <2>1. PICK v \in Releases : /\ Downloading(files, c.todo, v)
                              /\ c.kind = "install" => Has(c.package.files, <<"version">>, <<"version", v>>)
    BY <1>1, <1>11 DEF IInv, Sourced, SourcedBy, c
  <2>2. w \in {ClearDist, VersionOf(v), SourceOf(v)} /\ Downloading(new, rest, v)
    BY <1>1, <1>2, <2>1, DownloadStep DEF w, rest
  <2> QED
    BY <2>1, <2>2
<1>12. Sourced'
  <2> HIDE DEF new
  <2> QED
    BY <1>5, <1>6, <1>11 DEF Sourced, SourcedBy, c
<1>13. ASSUME c.kind \in {"extract", "install"} PROVE ExtractedBy(c', new)
  <2>1. ExtractedBy(c, files)
    BY <1>1, <1>13 DEF IInv, Extracting, c
  <2>2. CASE c.kind = "extract"
    BY <1>4, <1>5, <2>1, <2>2, ExtractStep
  <2>3. CASE c.kind = "install"
    <3>1. c.stage = "source"
      BY <1>2, <2>3 DEF CommandFit
    <3>2. PICK v \in Releases : /\ w \in {ClearDist, VersionOf(v), SourceOf(v)}
                                /\ Has(c.package.files, <<"version">>, <<"version", v>>)
      BY <1>11, <2>3, <3>1
    <3> QED
      BY <1>2, <1>5, <2>1, <2>3, <3>2, InstallStep
  <2> QED
    BY <1>13, <2>2, <2>3
<1>14. Extracting'
  <2> HIDE DEF new
  <2> QED
    BY <1>5, <1>6, <1>13 DEF Extracting, c
<1>15. Installed'
  BY <1>1, <1>2 DEF Installed
<1>16. Freshness'
  <2>1. ASSUME c.kind = "workspace" PROVE Fresh(rest, new)
    <3>1. Fresh(c.todo, files)
      BY <1>1, <2>1 DEF IInv, Freshness, c
    <3> QED
      BY <1>1, <1>2, <1>4, <3>1, FreshTail DEF w, rest
  <2> HIDE DEF new
  <2> QED
    BY <1>5, <1>6, <2>1 DEF Freshness, c
<1>17. Generating'
  <2>1. ASSUME c.kind = "build", c.stage = "generate", NEW x \in ToSet(rest) PROVE x.at \in NetworkPaths
    BY <1>1, <1>4, <2>1 DEF IInv, Generating, c
  <2> QED
    BY <1>5, <2>1 DEF Generating, c
<1>18. Named(disk["build"])'
  <2>1. CASE root # "build"
    BY <1>6, <2>1 DEF IInv, Roots
  <2>2. CASE root = "build" /\ c.stage = "source"
    <3>1. c.kind # "extract"
      BY <1>2, <2>2 DEF CommandFit
    <3>2. PICK v \in Releases : Downloading(files, c.todo, v)
      BY <1>11, <2>2, <3>1
    <3>3. Named(files)
      BY <2>2 DEF IInv
    <3>4. Named(new)
      BY <1>1, <1>2, <3>2, <3>3, DownloadNamed DEF w
    <3> QED
      BY <1>6, <2>2, <3>4
  <2>3. CASE root = "build" /\ c.stage # "source"
    <3>1. c.kind = "build" /\ c.stage = "generate"
      BY <1>2, <2>3 DEF CommandFit
    <3>2. w.at \in NetworkPaths
      BY <1>1, <1>4, <3>1 DEF IInv, Generating, c
    <3>3. w.put # Gone
      BY <1>4, <3>2, NetworkPathFacts DEF ClearDist, Put, Fit
    <3>4. Named(files)
      BY <2>3 DEF IInv
    <3>5. Named(new)
      BY <3>2, <3>3, <3>4, NetworkPathFacts, OtherNamed
    <3> QED
      BY <1>6, <2>3, <3>5
  <2> QED
    BY <2>1, <2>2, <2>3
<1> QED
  BY <1>7, <1>8, <1>9, <1>10, <1>12, <1>14, <1>15, <1>16, <1>17, <1>18 DEF IInv

\* A command cut short leaves a directory whose files fit.
LEMMA LeaveKeeps ==
  ASSUME IInv, command # Idle, command' = Idle, UNCHANGED <<latest, packages, commands, installed, current>>,
         cuts' \in 0..MaxCuts,
         NEW files, disk' = [disk EXCEPT ![command.root] = files],
         FilesFit(files, PathsOf(command.root)),
         command.root = "build" => Named(files)
  PROVE  IInv'
<1>1. command.root \in Roots /\ installed = Nothing
  BY RunningFacts
<1>2. /\ DOMAIN disk' = Roots /\ disk'[command.root] = files
      /\ \A other \in Roots : other # command.root => disk'[other] = disk[other]
  <2>1. DOMAIN disk = Roots
    BY DEF IInv, Directories
  <2> QED
    BY <1>1, <2>1, DiskWrite
<1>3. Counters' /\ Archives'
  BY DEF IInv, Counters, Archives
<1>4. Directories'
  BY <1>2 DEF IInv, Directories
<1>5. Named(disk["build"])'
  BY <1>2 DEF IInv, Roots
<1>6. Running' /\ Sourced' /\ Extracting' /\ Freshness' /\ Generating'
  BY DEF Running, Sourced, Extracting, Freshness, Generating
<1>7. Installed'
  BY <1>1 DEF Installed
<1> QED
  BY <1>3, <1>4, <1>5, <1>6, <1>7 DEF IInv

\* Cuts are counted up to their bound.
LEMMA CutFacts ==
  ASSUME IInv, Cut
  PROVE  cuts' \in 0..MaxCuts
BY ArtifactsAssumption DEF IInv, Counters, Cut

\* A write that is cut short fits its path, and names no other release.
LEMMA TornWrite ==
  ASSUME IInv, command # Idle, command.todo # <<>>, Head(command.todo).put \notin {Gone, Folder}
  PROVE  LET new == Written(disk[command.root], [Head(command.todo) EXCEPT !.put = Torn])
         IN  FilesFit(new, PathsOf(command.root)) /\ (command.root = "build" => Named(new))
<1> DEFINE c == command
           files == disk[c.root]
           w == Head(c.todo)
           torn == Put(w.at, Torn)
<1>1. /\ CommandFit(c) /\ c.root \in Roots
      /\ FilesFit(files, PathsOf(c.root)) /\ PathsOf(c.root) \subseteq Paths
      /\ Writable(c.todo, files, PathsOf(c.root)) /\ DOMAIN files \subseteq Paths
  BY RunningFacts DEF FilesFit
<1>2. /\ w \in ToSet(c.todo) /\ (w = ClearDist \/ Fit(w, PathsOf(c.root)))
      /\ \A h \in Inside : w.at = h[2] => h[1] \in DOMAIN files
  BY <1>1, WritableHead
<1>3. w # ClearDist
  BY DEF ClearDist, Put
<1>4. Fit(w, PathsOf(c.root)) /\ w.put # Folder /\ w.put # Gone
  BY <1>2, <1>3
<1> HIDE DEF w
<1>5. [w EXCEPT !.put = Torn] = torn /\ Fit(torn, PathsOf(c.root))
  BY <1>4, TornFits
<1>6. torn.at = w.at /\ torn.put # Gone
  BY DEF Put, Torn, Gone
<1>7. FilesFit(Written(files, torn), PathsOf(c.root))
  <2> HIDE DEF torn, c
  <2> QED
    BY <1>1, <1>2, <1>5, <1>6, WriteFits
<1>8. ASSUME c.root = "build" PROVE Named(Written(files, torn))
  <2>1. Named(files)
    BY <1>8 DEF IInv
  <2>2. CASE c.stage = "source"
    <3>1. c.kind # "extract"
      BY <1>1, <1>8 DEF CommandFit
    <3>2. PICK v \in Releases : Downloading(files, c.todo, v)
      BY <2>2, <3>1 DEF IInv, Sourced, SourcedBy
    <3> QED
      BY <1>1, <1>4, <2>1, <3>2, DownloadNamed DEF w
  <2>3. CASE c.stage # "source"
    <3>1. c.kind = "build" /\ c.stage = "generate"
      BY <1>1, <1>8, <2>3 DEF CommandFit
    <3>2. w.at \in NetworkPaths
      BY <1>2, <3>1 DEF IInv, Generating
    <3> HIDE DEF torn
    <3> QED
      BY <1>6, <2>1, <3>2, NetworkPathFacts, OtherNamed
  <2> QED
    BY <2>2, <2>3
<1> QED
  BY <1>5, <1>7, <1>8 DEF w

\* A command is cut short between two writes, or within one.
LEMMA InterruptKeeps ==
  ASSUME IInv, Interrupt
  PROVE  IInv'
<1>1. /\ command # Idle /\ command' = Idle
      /\ UNCHANGED <<latest, packages, commands, built, installed, current>>
  BY DEF Interrupt, history
<1>2. cuts' \in 0..MaxCuts
  BY CutFacts DEF Interrupt, IInv, Counters
<1>3. CASE UNCHANGED disk
  BY <1>1, <1>2, <1>3, StopKeeps DEF IInv, Counters
<1>4. CASE /\ command.todo # <<>>
           /\ Head(command.todo).put \notin {Gone, Folder}
           /\ disk' = [disk EXCEPT ![command.root] =
                          Written(@, [Head(command.todo) EXCEPT !.put = Torn])]
  <2> DEFINE new == Written(disk[command.root], [Head(command.todo) EXCEPT !.put = Torn])
  <2>1. FilesFit(new, PathsOf(command.root)) /\ (command.root = "build" => Named(new))
    BY <1>1, <1>4, TornWrite
  <2>2. disk' = [disk EXCEPT ![command.root] = new]
    BY <1>4
  <2> HIDE DEF new
  <2> QED
    BY <1>1, <1>2, <2>1, <2>2, LeaveKeeps
<1> QED
  BY <1>3, <1>4 DEF Interrupt

\* A command that goes on to its next part.
LEMMA TurnKeeps ==
  ASSUME IInv, command # Idle, NEW c, CommandFit(c), command' = c,
         UNCHANGED <<latest, disk, packages, commands, cuts, installed, current>>,
         Writable(c.todo, disk[c.root], PathsOf(c.root)),
         c.stage = "source" /\ c.kind # "extract" => SourcedBy(c, disk[c.root]),
         c.kind \in {"extract", "install"} => ExtractedBy(c, disk[c.root]),
         c.kind = "workspace" => Fresh(c.todo, disk[c.root]),
         c.kind = "build" => \A w \in ToSet(c.todo) : w.at \in NetworkPaths
  PROVE  IInv'
<1>1. Counters' /\ Directories' /\ Archives' /\ Named(disk["build"])'
  BY DEF IInv, Counters, Directories, Archives
<1>2. installed' = Nothing
  BY RunningFacts
<1>3. Running' /\ Sourced' /\ Extracting' /\ Freshness' /\ Generating'
  BY <1>2 DEF Running, Sourced, Extracting, Freshness, Generating
<1>4. Installed'
  BY <1>2 DEF Installed
<1> QED
  BY <1>1, <1>3, <1>4 DEF IInv

\* A command that goes on to generate.
Turned(c, package, todo) == [c EXCEPT !.stage = "generate", !.package = package, !.todo = todo]

\* A command that goes on to generate is otherwise as it was.
LEMMA TurnedFacts ==
  ASSUME NEW c, CommandFit(c), c.kind \in {"build", "workspace"}, NEW package, NEW todo
  PROVE  LET new == Turned(c, package, todo)
         IN  /\ CommandFit(new) /\ new.todo = todo /\ new.package = package /\ new.stage = "generate"
             /\ new.kind = c.kind /\ new.root = c.root
<1> DEFINE new == Turned(c, package, todo)
<1>1. c \in [kind : Kinds \cup {"install"}, stage : {"source", "generate"}, root : Roots,
             todo : {c.todo}, package : {c.package}]
  BY DEF CommandFit
<1>2. new = [kind |-> c.kind, stage |-> "generate", root |-> c.root, todo |-> todo, package |-> package]
  <2>1. ASSUME NEW n, n = [c EXCEPT !.stage = "generate", !.package = package, !.todo = todo]
        PROVE  n = [kind |-> c.kind, stage |-> "generate", root |-> c.root, todo |-> todo, package |-> package]
    BY <1>1, <2>1
  <2> QED
    BY <2>1 DEF Turned
<1>3. /\ new.todo = todo /\ new.package = package /\ new.stage = "generate"
      /\ new.kind = c.kind /\ new.root = c.root
      /\ new \in [kind : Kinds \cup {"install"}, stage : {"source", "generate"}, root : Roots,
                  todo : {todo}, package : {package}]
  BY <1>1, <1>2
<1> HIDE DEF new
<1>4. CommandFit(new)
  BY <1>3 DEF CommandFit
<1> QED
  BY <1>3, <1>4 DEF new

\* A build that has its release reads the network and goes on to generate.
LEMMA LoadKeeps ==
  ASSUME IInv, Load
  PROVE  IInv'
<1>1. /\ command # Idle /\ command.stage = "source" /\ command.todo = <<>> /\ command.kind = "build"
      /\ UNCHANGED <<latest, disk, packages, commands, cuts, built, installed, current>>
  BY DEF Load, Through, history
<1>2. CommandFit(command) /\ command.root = "build"
  BY <1>1, RunningFacts DEF CommandFit
<1>3. PICK v \in Releases : Downloading(disk["build"], <<>>, v)
  BY <1>1, <1>2 DEF IInv, Sourced, SourcedBy
<1>4. disk["build"][<<"version">>] = <<"version", v>>
  BY <1>3 DEF Downloading, OneDist, Has
<1>5. PICK cfg \in Networks :
        command' = IF Valid(cfg)
                   THEN [command EXCEPT !.stage = "generate", !.package = cfg,
                            !.todo = Generated(cfg, commands["build"], disk["build"][<<"version">>])]
                   ELSE Idle
  BY DEF Load
<1>6. CASE Valid(cfg)
  <2> DEFINE all == Generated(cfg, commands["build"], <<"version", v>>)
  <2>1. List(all) /\ Housed(all) /\ \A w \in ToSet(all) : Fit(w, NetworkPaths)
    BY GeneratedFacts
  <2> DEFINE c == Turned(command, cfg, all)
  <2>2. command' = c
    BY <1>4, <1>5, <1>6 DEF Turned
  <2> HIDE DEF all
  <2>4. /\ CommandFit(c) /\ c.todo = all /\ c.package = cfg /\ c.stage = "generate"
        /\ c.kind = "build" /\ c.root = "build"
    <3>1. command.kind \in {"build", "workspace"}
      BY <1>1
    <3>2. /\ CommandFit(c) /\ c.todo = all /\ c.package = cfg /\ c.stage = "generate"
          /\ c.kind = command.kind /\ c.root = command.root
      BY <1>2, <3>1, TurnedFacts
    <3> QED
      BY <1>1, <1>2, <3>2
  <2>5. \A w \in ToSet(all) : Fit(w, BuildPaths) /\ w.at \in NetworkPaths
    <3>1. NetworkPaths \subseteq BuildPaths
      BY DEF BuildPaths
    <3> QED
      BY <2>1, <3>1, FitWithin DEF Fit
  <2>6. Writable(all, disk["build"], BuildPaths)
    BY <2>1, <2>5, HousedWritable
  <2>7. PathsOf("build") = BuildPaths
    BY DEF PathsOf
  <2> HIDE DEF c
  <2> QED
    BY <1>1, <2>2, <2>4, <2>5, <2>6, <2>7, TurnKeeps
<1>7. CASE ~Valid(cfg)
  BY <1>1, <1>5, <1>7, StopKeeps DEF IInv, Counters
<1> QED
  BY <1>6, <1>7

\* An install that has extracted goes on to download the release that .version
\* names.
LEMMA FetchKeeps ==
  ASSUME IInv, Fetch
  PROVE  IInv'
<1> DEFINE c == command
           k == c.package
           files == disk[c.root]
           version == files[<<"version">>]
<1>1. /\ c # Idle /\ c.stage = "source" /\ c.todo = <<>> /\ c.kind = "extract"
      /\ UNCHANGED <<latest, packages, commands, cuts, built, installed, current>>
  BY DEF Fetch, Through, history
<1>2. /\ CommandFit(c) /\ c.root \in Roots /\ c.root # "build"
      /\ PathsOf(c.root) = WorkspacePaths /\ FilesFit(files, WorkspacePaths)
      /\ WorkspacePaths \subseteq Paths
  <2>1. CommandFit(c) /\ c.root \in Roots /\ FilesFit(files, PathsOf(c.root)) /\ PathsOf(c.root) \subseteq Paths
    BY <1>1, RunningFacts
  <2>2. c.root # "build"
    BY <1>1, <2>1 DEF CommandFit
  <2> QED
    BY <2>1, <2>2 DEF PathsOf
<1>3. ExtractedBy(c, files)
  BY <1>1 DEF IInv, Extracting
<1>4. Has(files, <<"version">>, k.files[<<"version">>]) /\ <<"version">> \in DOMAIN k.files
  <2>1. ToSet(<<>>) = {}
    BY Tuples
  <2> QED
    BY <1>1, <1>3, <2>1 DEF ExtractedBy, PackageFit
<1>5. version = Torn \/ (version = <<"version", version[2]>> /\ version[2] \in Releases)
  <2>1. Fits(<<"version">>, version)
    BY <1>2, <1>4 DEF FilesFit, Has
  <2>2. Kind(<<"version">>) = "version"
    BY KindOf DEF Plain
  <2> QED
    BY <2>1, <2>2 DEF Fits, Holds
<1>6. CASE version # Torn /\ command' = [c EXCEPT !.kind = "install", !.todo = Download(version[2])] /\ UNCHANGED disk
  <2>1. PICK v \in Releases : version = <<"version", v>> /\ version[2] = v
    BY <1>5, <1>6
  <2>2. Download(v) = <<ClearDist, VersionOf(v), SourceOf(v)>> /\ Writable(Download(v), files, WorkspacePaths)
    <3>1. SourcePaths \subseteq WorkspacePaths
      BY DEF WorkspacePaths
    <3> QED
      BY <3>1, DownloadFacts
  <2> DEFINE new == [kind |-> "install", stage |-> "source", root |-> c.root, todo |-> Download(v), package |-> k]
  <2>3. command' = new
    <3>1. c \in [kind : Kinds \cup {"install"}, stage : {"source", "generate"}, root : Roots,
                 todo : {c.todo}, package : {c.package}]
      BY <1>2 DEF CommandFit
    <3> QED
      BY <1>1, <1>6, <2>1, <3>1
  <2>4. /\ new.kind = "install" /\ new.stage = "source" /\ new.root = c.root
        /\ new.todo = Download(v) /\ new.package = k
        /\ new \in [kind : Kinds \cup {"install"}, stage : {"source", "generate"}, root : Roots,
                    todo : {new.todo}, package : {new.package}]
    BY <1>2
  <2> HIDE DEF new
  <2>5. CommandFit(new)
    BY <1>2, <2>4 DEF CommandFit
  <2>6. Downloading(files, Download(v), v)
    BY <2>2 DEF Downloading
  <2>7. Has(k.files, <<"version">>, <<"version", v>>)
    BY <1>4, <2>1 DEF Has
  <2>8. SourcedBy(new, files)
    BY <2>4, <2>6, <2>7 DEF SourcedBy
  <2>9. ExtractedBy(new, files)
    <3>1. ToSet(<<>>) = {}
      BY Tuples
    <3> QED
      BY <1>1, <1>3, <2>4, <3>1 DEF ExtractedBy
  <2>10. UNCHANGED <<latest, disk, packages, commands, cuts, installed, current>>
    BY <1>1, <1>6
  <2>11. Writable(new.todo, disk[new.root], PathsOf(new.root))
    BY <1>2, <2>2, <2>4
  <2> QED
    BY <1>1, <2>3, <2>4, <2>5, <2>8, <2>9, <2>10, <2>11, TurnKeeps
<1>7. CASE /\ version = Torn /\ command' = Idle
           /\ \/ UNCHANGED disk
              \/ disk' = [disk EXCEPT ![c.root] = Written(@, Put(<<"dist">>, Gone))]
  <2>1. cuts' \in 0..MaxCuts
    BY <1>1 DEF IInv, Counters
  <2>2. CASE UNCHANGED disk
    BY <1>1, <1>7, <2>1, <2>2, StopKeeps DEF IInv, Counters
  <2>3. CASE disk' = [disk EXCEPT ![c.root] = Written(@, Put(<<"dist">>, Gone))]
    <3> DEFINE new == Written(files, ClearDist)
    <3>1. disk' = [disk EXCEPT ![c.root] = new]
      BY <2>3 DEF ClearDist
    <3>2. FilesFit(new, WorkspacePaths)
      <4>1. ClearDist.at = <<"dist">>
        BY DEF ClearDist, Put
      <4>2. \A h \in Inside : ClearDist.at = h[2] => h[1] \in DOMAIN files
        BY <4>1, InsideFacts
      <4> QED
        BY <1>2, <4>2, WriteFits
    <3> HIDE DEF new
    <3> QED
      BY <1>1, <1>2, <1>7, <2>1, <3>1, <3>2, LeaveKeeps
  <2> QED
    BY <1>7, <2>2, <2>3
<1> QED
  BY <1>6, <1>7 DEF Fetch

\* What an organization.yaml and a khoai-config.yaml that parse hold.
LEMMA ReadFacts ==
  ASSUME NEW files, NEW paths, FilesFit(files, paths)
  PROVE  /\ <<"org">> \in DOMAIN files /\ files[<<"org">>] # Torn =>
              files[<<"org">>] = <<"org", files[<<"org">>][2]>> /\ files[<<"org">>][2] \in Orgs
         /\ <<"network">> \in DOMAIN files /\ files[<<"network">>] # Torn =>
              files[<<"network">>][2] \in Seq(Codes)
<1>1. Kind(<<"org">>) = "org" /\ Kind(<<"network">>) = "network"
  BY KindOf DEF Plain
<1>2. ASSUME <<"org">> \in DOMAIN files, files[<<"org">>] # Torn
      PROVE  files[<<"org">>] = <<"org", files[<<"org">>][2]>> /\ files[<<"org">>][2] \in Orgs
  <2>1. Fits(<<"org">>, files[<<"org">>])
    BY <1>2 DEF FilesFit
  <2> QED
    BY <1>1, <1>2, <2>1 DEF Fits, Holds
<1>3. ASSUME <<"network">> \in DOMAIN files, files[<<"network">>] # Torn
      PROVE  files[<<"network">>][2] \in Seq(Codes)
  <2>1. Fits(<<"network">>, files[<<"network">>])
    BY <1>3 DEF FilesFit
  <2> QED
    BY <1>1, <1>3, <2>1 DEF Fits, Holds
<1> QED
  BY <1>2, <1>3

\* A build of a workspace that cannot read its files ends.
LEMMA LoadWorkspaceFailsKeeps ==
  ASSUME IInv, LoadWorkspaceFails
  PROVE  IInv'
BY StopKeeps DEF LoadWorkspaceFails, history, IInv, Counters

\* A build of a workspace reads organization.yaml, and goes on to write the nodes
\* that are missing.
LEMMA LoadWorkspaceKeeps ==
  ASSUME IInv, LoadWorkspace
  PROVE  IInv'
<1> DEFINE files == disk[command.root]
           org == files[<<"org">>]
           known == <<"network">> \in DOMAIN files /\ files[<<"network">>] # Torn
           codes == IF known THEN files[<<"network">>][2] ELSE <<>>
           nodeWrites == IF org = Torn THEN <<>> ELSE Missing(files, org[2])
           codeWrites == IF codes = <<>> THEN <<>> ELSE Contracts(codes)
           todo == nodeWrites \o codeWrites
<1>1. /\ command # Idle /\ command.stage = "source" /\ command.todo = <<>> /\ command.kind = "workspace"
      /\ <<"org">> \in DOMAIN files
      /\ command' = [command EXCEPT !.stage = "generate", !.package = [codes |-> codes], !.todo = todo]
      /\ UNCHANGED <<latest, disk, packages, commands, cuts, built, installed, current>>
  BY DEF LoadWorkspace, Through, history
<1>2. /\ CommandFit(command) /\ command.root # "build"
      /\ PathsOf(command.root) = WorkspacePaths /\ FilesFit(files, WorkspacePaths)
  <2>1. CommandFit(command) /\ FilesFit(files, PathsOf(command.root))
    BY <1>1, RunningFacts
  <2>2. command.root # "build"
    BY <1>1, <2>1 DEF CommandFit
  <2> QED
    BY <2>1, <2>2 DEF PathsOf
<1>3. org = Torn \/ org[2] \in Orgs
  BY <1>1, <1>2, ReadFacts
<1>4. codes \in Seq(Codes)
  <2>1. CASE known
    BY <1>2, <2>1, ReadFacts
  <2>2. CASE ~known
    BY <2>2
  <2> QED
    BY <2>1, <2>2
<1> HIDE DEF files, codes, org
<1>5. nodeWrites = <<>> \/ \E o \in Orgs : nodeWrites = Missing(files, o)
  BY <1>3
<1>6. codeWrites = <<>> \/ \E some \in Seq(Codes) : codeWrites = Contracts(some)
  BY <1>4
<1> HIDE DEF nodeWrites, codeWrites
<1>7. Writable(todo, files, WorkspacePaths) /\ Fresh(todo, files)
  BY <1>2, <1>5, <1>6, WorkspaceWrites
<1> DEFINE package == [codes |-> codes]
<1> HIDE DEF todo, package
<1> DEFINE c == Turned(command, package, todo)
<1>9. /\ CommandFit(c) /\ c.todo = todo /\ c.stage = "generate"
      /\ c.kind = "workspace" /\ c.root = command.root
  <2>1. command.kind \in {"build", "workspace"}
    BY <1>1
  <2>2. /\ CommandFit(c) /\ c.todo = todo /\ c.stage = "generate"
        /\ c.kind = command.kind /\ c.root = command.root
    BY <1>2, <2>1, TurnedFacts
  <2> QED
    BY <1>1, <2>2
<1>10. command' = c
  BY <1>1 DEF package, Turned
<1> HIDE DEF c
<1>11. Writable(c.todo, disk[c.root], PathsOf(c.root)) /\ Fresh(c.todo, disk[c.root])
  BY <1>2, <1>7, <1>9 DEF files
<1> QED
  BY <1>1, <1>9, <1>10, <1>11, TurnKeeps

\* `khoai artifact package` archives orgs/d of the build directory.
LEMMA PackageKeeps ==
  ASSUME IInv, NEW d \in Packaged, Package(d)
  PROVE  IInv'
<1> DEFINE files == FilesOf(disk["build"], d)
           key == <<d, files[<<"version">>]>>
<1>1. FilesFit(files, OrgPaths)
  <2>1. FilesFit(disk["build"], BuildPaths)
    BY DEF IInv, Directories, Roots, PathsOf
  <2>2. d \in Dirs
    BY NotBuild
  <2> QED
    BY <2>1, <2>2, PackagedFits
<1>2. PICK whole \in BOOLEAN :
        /\ IF whole THEN UNCHANGED cuts ELSE Cut
        /\ packages' = Entered(packages, key, [dir |-> d, files |-> files, whole |-> whole, from |-> built])
  BY DEF Package, FilesOf, ShortOf
<1>3. /\ command = Idle /\ <<"version">> \in DOMAIN files
      /\ UNCHANGED <<latest, disk, command, commands, built, installed, current>>
  BY DEF Package, FilesOf, ShortOf, history
<1> HIDE DEF files
<1> DEFINE k == [dir |-> d, files |-> files, whole |-> whole, from |-> built]
<1>4. PackageFit(k)
  BY <1>1, <1>3 DEF PackageFit
<1> HIDE DEF k
<1>5. /\ DOMAIN packages' = DOMAIN packages \cup {key} /\ packages'[key] = k
      /\ \A other \in DOMAIN packages : other # key => packages'[other] = packages[other]
  BY <1>2 DEF Entered, k
<1>6. Archives'
  <2>1. key[1] \in Packaged
    OBVIOUS
  <2> HIDE DEF key
  <2> QED
    BY <1>4, <1>5, <2>1 DEF IInv, Archives
<1>7. cuts' \in 0..MaxCuts
  BY <1>2, CutFacts DEF IInv, Counters
<1>8. Counters' /\ Directories' /\ Named(disk["build"])'
  BY <1>3, <1>7 DEF IInv, Counters, Directories
<1>9. Running' /\ Sourced' /\ Extracting' /\ Freshness' /\ Generating'
  BY <1>3 DEF Running, Sourced, Extracting, Freshness, Generating
<1>10. Installed'
  BY <1>3 DEF IInv, Installed
<1> QED
  BY <1>6, <1>8, <1>9, <1>10 DEF IInv

\* The organization edits its workspace: a node more, or the chaincodes it lacks.
LEMMA EditWorkspaceKeeps ==
  ASSUME IInv, NEW d \in Packaged, EditWorkspace(d)
  PROVE  IInv'
<1> DEFINE files == disk[d]
<1>1. /\ command = Idle /\ installed' = Nothing /\ current' = NoName
      /\ UNCHANGED <<latest, command, packages, commands, cuts, built>>
  BY DEF EditWorkspace
<1>2. d \in Roots /\ d # "build" /\ PathsOf(d) = WorkspacePaths /\ WorkspacePaths \subseteq Paths
  BY NotBuild DEF Roots, PathsOf, Paths
<1>3. FilesFit(files, WorkspacePaths)
  BY <1>2 DEF IInv, Directories
<1>4. \E w : /\ disk' = [disk EXCEPT ![d] = Written(files, w)]
             /\ Fit(w, WorkspacePaths)
             /\ \A h \in Inside : w.at # h[2]
  <2>1. \A h \in Inside : <<"org">> # h[2] /\ <<"network">> # h[2]
    BY NotInside
  <2>2. Kind(<<"org">>) = "org" /\ Kind(<<"network">>) = "network"
    BY KindOf DEF Plain
  <2>3. <<"org">> \in WorkspacePaths /\ <<"network">> \in WorkspacePaths
    BY DEF WorkspacePaths, OrgPaths, Plain
  <2>4. CASE /\ <<"org">> \in DOMAIN files /\ files[<<"org">>] # Torn
             /\ disk' = [disk EXCEPT ![d] = Written(@, Put(<<"org">>,
                    <<"org", [files[<<"org">>][2] EXCEPT !.nodes = Append(@, NewNode)]>>))]
    <3> DEFINE org == files[<<"org">>][2]
               more == [org EXCEPT !.nodes = Append(@, NewNode)]
               w == Put(<<"org">>, <<"org", more>>)
    <3>1. org \in Orgs
      BY <1>3, <2>4, ReadFacts
    <3>2. more \in Orgs
      <4> HIDE DEF org
      <4>1. NewNode \in Nodes
        BY DEF Nodes
      <4>2. org.nodes \in Seq(Nodes) /\ org.name \in DOMAIN Dir
        BY <3>1 DEF Orgs
      <4>3. Append(org.nodes, NewNode) \in Seq(Nodes)
        BY <4>1, <4>2
      <4>4. more = [name |-> org.name, nodes |-> Append(org.nodes, NewNode)]
        BY <3>1 DEF Orgs
      <4> QED
        BY <4>2, <4>3, <4>4 DEF Orgs
    <3>3. disk' = [disk EXCEPT ![d] = Written(files, w)]
      BY <2>4
    <3> HIDE DEF more
    <3>4. Fits(<<"org">>, <<"org", more>>) /\ <<"org", more>> # Gone
      BY <2>2, <3>2 DEF Fits, Holds, Gone
    <3>5. w.at = <<"org">> /\ w.put = <<"org", more>> /\ w \in [at : {w.at}, put : {w.put}]
      BY DEF Put
    <3> HIDE DEF w
    <3> QED
      BY <2>1, <2>3, <3>3, <3>4, <3>5 DEF Fit
  <2>5. CASE disk' = [disk EXCEPT ![d] = Written(@, Put(<<"network">>, <<"network", NewCodes>>))]
    <3> DEFINE w == Put(<<"network">>, <<"network", NewCodes>>)
    <3>1. NewCodes \in Seq(Codes)
      BY ArtifactsAssumption
    <3>2. Fits(<<"network">>, <<"network", NewCodes>>) /\ <<"network", NewCodes>> # Gone
      BY <2>2, <3>1 DEF Fits, Holds, Gone
    <3>3. disk' = [disk EXCEPT ![d] = Written(files, w)]
      BY <2>5
    <3>4. w.at = <<"network">> /\ w.put = <<"network", NewCodes>> /\ w \in [at : {w.at}, put : {w.put}]
      BY DEF Put
    <3> HIDE DEF w
    <3> QED
      BY <2>1, <2>3, <3>2, <3>3, <3>4 DEF Fit
  <2> QED
    BY <2>4, <2>5 DEF EditWorkspace
<1>5. PICK w : /\ disk' = [disk EXCEPT ![d] = Written(files, w)]
               /\ Fit(w, WorkspacePaths)
               /\ \A h \in Inside : w.at # h[2]
  BY <1>4
<1>6. FilesFit(Written(files, w), WorkspacePaths)
  BY <1>2, <1>3, <1>5, WriteFits
<1> DEFINE new == Written(files, w)
<1>7. /\ DOMAIN disk' = Roots /\ disk'[d] = new
      /\ \A other \in Roots : other # d => disk'[other] = disk[other]
  <2>1. DOMAIN disk = Roots
    BY DEF IInv, Directories
  <2> HIDE DEF new
  <2> QED
    BY <1>2, <1>5, <2>1, DiskWrite DEF new
<1>8. Counters' /\ Archives'
  BY <1>1 DEF IInv, Counters, Archives
<1>9. Directories'
  BY <1>2, <1>6, <1>7 DEF IInv, Directories
<1>10. Named(disk["build"])'
  BY <1>2, <1>7 DEF IInv, Roots
<1>11. Running' /\ Sourced' /\ Extracting' /\ Freshness' /\ Generating' /\ Installed'
  BY <1>1 DEF Running, Sourced, Extracting, Freshness, Generating, Installed
<1> QED
  BY <1>8, <1>9, <1>10, <1>11 DEF IInv

\* Every step keeps the invariant.
LEMMA NextIInv == IInv /\ [Next]_vars => IInv'
<1>1. ASSUME IInv, Next PROVE IInv'
  BY <1>1, BuildKeeps, UpdateKeeps, StepKeeps, InterruptKeeps, LoadKeeps, FinishBuildKeeps, FinishUpdateKeeps,
     PackageKeeps, EditWorkspaceKeeps, BuildWorkspaceKeeps, InstallKeeps, FetchKeeps, FinishInstallKeeps,
     LoadWorkspaceKeeps, LoadWorkspaceFailsKeeps, FinishWorkspaceKeeps DEF Next
<1>2. ASSUME IInv, UNCHANGED vars PROVE IInv'
  BY <1>2 DEF vars, IInv, Counters, Directories, Archives, Running, Sourced, Extracting, Installed, Freshness, Generating
<1> QED
  BY <1>1, <1>2

\* At every moment the invariant holds.
THEOREM InvariantHolds == Spec => []IInv
BY InitIInv, NextIInv, PTL DEF Spec

\* Files that fit are files.
LEMMA FitFiles ==
  ASSUME NEW files, NEW paths, FilesFit(files, paths)
  PROVE  Files(files)
BY DEF FilesFit, Files, Fits, Holds

\* Whatever the commands do and wherever they are cut short, disk, archives,
\* commands and counters keep their types.
THEOREM Typed == Spec => []TypeOK
<1>1. ASSUME IInv PROVE TypeOK
  <2>1. latest \in 1..MaxRelease /\ commands \in [Kinds -> Nat] /\ cuts \in 0..MaxCuts /\ current \in Packaged \cup {NoName}
    BY <1>1 DEF IInv, Counters, Releases
  <2>2. DOMAIN disk = {"build"} \cup Packaged /\ \A root \in DOMAIN disk : Files(disk[root])
    BY <1>1, FitFiles DEF IInv, Directories, Roots
  <2>3. command # Idle =>
           /\ command.kind \in Kinds \cup {"install"}
           /\ command.stage \in {"source", "generate"}
           /\ command.root \in DOMAIN disk
    BY <1>1, <2>2 DEF IInv, Running, CommandFit, Roots
  <2>4. \A key \in DOMAIN packages : key[1] \in Packaged /\ Files(packages[key].files)
    BY <1>1, FitFiles DEF IInv, Archives, PackageFit
  <2> QED
    BY <2>1, <2>2, <2>3, <2>4 DEF TypeOK
<1> QED
  BY <1>1, InvariantHolds, PTL

\* An archive under dist of the build directory is of the release that .version
\* names, also after a build or an update that was cut short (install.sh): the
\* old archive goes before .version is written, and the new one comes after.
THEOREM SourceIsNamed == Spec => []SourceNamed
<1>1. ASSUME IInv PROVE SourceNamed
  BY <1>1 DEF IInv, Named, SourceNamed, Sources, Has
<1> QED
  BY <1>1, InvariantHolds, PTL

\* A build of a workspace writes no file of a node it has, nor its keys.
LEMMA StepKeepsNodes ==
  ASSUME IInv, [Next]_vars, command # Idle, command.kind = "workspace",
         NEW p \in DOMAIN disk[command.root], Precious(p)
  PROVE  p \in DOMAIN disk'[command.root] /\ disk'[command.root][p] = disk[command.root][p]
<1> DEFINE files == disk[command.root]
           w == Head(command.todo)
<1>1. /\ CommandFit(command) /\ command.root \in Roots
      /\ PathsOf(command.root) \subseteq Paths /\ DOMAIN files \subseteq Paths
      /\ Writable(command.todo, files, PathsOf(command.root))
  BY RunningFacts DEF FilesFit
<1>2. DOMAIN disk = Roots /\ Fresh(command.todo, files) /\ List(command.todo)
  BY <1>1 DEF IInv, Directories, Freshness, Writable
<1>3. ASSUME command.todo # <<>>
      PROVE  /\ w = ClearDist \/ (w.put # Gone /\ w.at # p)
             /\ p[1] # "dist"
  <2>1. w = ClearDist \/ Fit(w, PathsOf(command.root))
    BY <1>1, <1>3, WritableHead
  <2>2. Precious(w.at) => w.at \notin DOMAIN files
    BY <1>1, <1>2, <1>3, FreshTail
  <2> QED
    BY <2>1, <2>2 DEF Fit, Precious
<1>4. ASSUME NEW new, new.put # Gone, new.at # p
      PROVE  Has(Written(files, new), p, files[p])
  BY <1>4, PutWrite DEF Has
<1>5. ASSUME p[1] # "dist" PROVE Has(Written(files, ClearDist), p, files[p])
  <2>1. /\ DOMAIN Written(files, ClearDist) = {q \in DOMAIN files : q[1] # "dist"}
        /\ \A q \in DOMAIN Written(files, ClearDist) : Written(files, ClearDist)[q] = files[q]
    BY <1>1, GoneWrite DEF ClearDist
  <2> QED
    BY <1>5, <2>1 DEF Has
<1>6. ASSUME NEW new, disk' = [disk EXCEPT ![command.root] = new], Has(new, p, files[p])
      PROVE  p \in DOMAIN disk'[command.root] /\ disk'[command.root][p] = files[p]
  BY <1>1, <1>2, <1>6 DEF Has
<1>7. CASE Step
  <2>1. command.todo # <<>> /\ disk' = [disk EXCEPT ![command.root] = Written(files, w)]
    BY <1>7 DEF Step
  <2>2. Has(Written(files, w), p, files[p])
    <3> HIDE DEF files, w
    <3> QED
      BY <1>3, <1>4, <1>5, <2>1
  <2> HIDE DEF w
  <2> QED
    BY <1>6, <2>1, <2>2
<1>8. CASE Interrupt
  <2>1. CASE UNCHANGED disk
    BY <2>1
  <2>2. CASE ~UNCHANGED disk
    <3> DEFINE torn == Put(w.at, Torn)
    <3>1. /\ command.todo # <<>> /\ w.put \notin {Gone, Folder}
          /\ disk' = [disk EXCEPT ![command.root] = Written(files, [w EXCEPT !.put = Torn])]
      BY <1>8, <2>2 DEF Interrupt
    <3>2. w # ClearDist
      BY <3>1 DEF ClearDist, Put
    <3>3. Fit(w, PathsOf(command.root))
      BY <1>1, <3>1, <3>2, WritableHead
    <3> HIDE DEF w
    <3>4. [w EXCEPT !.put = Torn] = torn
      BY <3>1, <3>3, TornFits
    <3>5. torn.at = w.at /\ torn.put # Gone
      BY DEF Put, Torn, Gone
    <3>6. w.at # p
      BY <1>3, <3>1, <3>2
    <3>7. disk' = [disk EXCEPT ![command.root] = Written(files, torn)]
      BY <3>1, <3>4
    <3> HIDE DEF torn
    <3>8. Has(Written(files, torn), p, files[p])
      BY <1>4, <3>5, <3>6
    <3> QED
      BY <1>6, <3>7, <3>8
  <2> QED
    BY <2>1, <2>2
<1>9. CASE ~Step /\ ~Interrupt
  <2>1. UNCHANGED disk
    <3>1. ~Fetch
      BY DEF Fetch
    <3>2. \A d \in Packaged : ~EditWorkspace(d)
      BY DEF EditWorkspace
    <3> QED
      BY <1>9, <3>1, <3>2 DEF Next, vars, history, Build, Update, BeginLatest, Begin, Load, FinishBuild, FinishUpdate,
         Package, BuildWorkspace, Install, FinishInstall, LoadWorkspace, LoadWorkspaceFails, FinishWorkspace
  <2> QED
    BY <2>1
<1> QED
  BY <1>7, <1>8, <1>9

\* A build in the workspace of an organization (generateWorkspaceNodeArtifacts in
\* utils.go) leaves its keys, and all there is of its nodes, as they are, however
\* often organization.yaml names a node.
THEOREM NodesKept == Spec => KeepsNodes
<1>1. ASSUME IInv, [Next]_vars, NEW d \in Packaged, command # Idle, command.kind = "workspace", command.root = d,
             NEW p \in DOMAIN disk[d], Precious(p)
      PROVE  p \in DOMAIN disk'[d] /\ disk'[d][p] = disk[d][p]
  <2>1. p \in DOMAIN disk[command.root]
    BY <1>1
  <2>2. p \in DOMAIN disk'[command.root] /\ disk'[command.root][p] = disk[command.root][p]
    BY <1>1, <2>1, StepKeepsNodes
  <2> QED
    BY <1>1, <2>2
<1>2. IInv /\ [Next]_vars =>
        [\A d \in Packaged :
           (command # Idle /\ command.kind = "workspace" /\ command.root = d) =>
             \A p \in DOMAIN disk[d] :
               Precious(p) => p \in DOMAIN disk'[d] /\ disk'[d][p] = disk[d][p]]_vars
  BY <1>1
<1> QED
  BY <1>2, InvariantHolds, PTL DEF Spec, KeepsNodes

-----------------------------------------------------------------------------
(* Networks whose names do not collide.                                    *)

\* Display names that sanitize keeps apart, a port for each node, and a file
\* for each chaincode.
Unambiguous(cfg) ==
  /\ \A o, p \in ToSet(cfg.orgs) : Dir[o.name] = Dir[p.name] => o.name = p.name
  /\ \A m, n \in ToSet(Members(cfg)) : m.node.port = n.node.port => m = n
  /\ \A c, d \in ToSet(cfg.codes) : c.base = d.base => c = d

\* A network that passes validateNetwork has no two organizations with a name,
\* and no organization two nodes with an id.
LEMMA ValidFacts ==
  ASSUME NEW cfg \in Networks, Valid(cfg)
  PROVE  /\ \A i, j \in 1..Len(cfg.orgs) : cfg.orgs[i].name = cfg.orgs[j].name => i = j
         /\ \A o, p \in ToSet(cfg.orgs) : o.name = p.name => o = p
         /\ \A o \in ToSet(cfg.orgs) : \A i, j \in 1..Len(o.nodes) : o.nodes[i].id = o.nodes[j].id => i = j
<1>1. /\ List(cfg.orgs) /\ DOMAIN cfg.orgs = 1..Len(cfg.orgs)
      /\ \A i \in 1..Len(cfg.orgs) : cfg.orgs[i] \in ToSet(cfg.orgs)
      /\ \A o \in ToSet(cfg.orgs) : \E i \in 1..Len(cfg.orgs) : cfg.orgs[i] = o
  BY NetworkTypes, ListFacts
<1>2. IsInjective([i \in DOMAIN cfg.orgs |-> cfg.orgs[i].name])
  BY DEF Valid, Distinct
<1>3. ASSUME NEW i \in 1..Len(cfg.orgs), NEW j \in 1..Len(cfg.orgs), cfg.orgs[i].name = cfg.orgs[j].name
      PROVE  i = j
  BY <1>1, <1>2, <1>3 DEF IsInjective
<1>4. ASSUME NEW o \in ToSet(cfg.orgs), NEW p \in ToSet(cfg.orgs), o.name = p.name PROVE o = p
  BY <1>1, <1>3, <1>4
<1>5. ASSUME NEW o \in ToSet(cfg.orgs), NEW i \in 1..Len(o.nodes), NEW j \in 1..Len(o.nodes),
             o.nodes[i].id = o.nodes[j].id
      PROVE  i = j
  <2>1. IsInjective([k \in DOMAIN o.nodes |-> o.nodes[k].id])
    BY DEF Valid, Distinct
  <2>2. o \in Orgs
    BY NetworkTypes, ListOf
  <2>3. DOMAIN o.nodes = 1..Len(o.nodes)
    BY <2>2, OrgTypes, ListFacts
  <2> QED
    BY <1>5, <2>1, <2>3 DEF IsInjective
<1> QED
  BY <1>3, <1>4, <1>5

\* The nodes of a network, with the organization of each.
LEMMA MembersFacts ==
  ASSUME NEW cfg \in Networks
  PROVE  /\ List(Members(cfg))
         /\ ToSet(Members(cfg)) =
              UNION {{Me(cfg.orgs[i], j) : j \in 1..Len(cfg.orgs[i].nodes)} : i \in 1..Len(cfg.orgs)}
<1> DEFINE N == Len(cfg.orgs)
           row(i) == [j \in 1..Len(cfg.orgs[i].nodes) |-> Me(cfg.orgs[i], j)]
           s == [i \in 1..N |-> row(i)]
<1>1. N \in Nat /\ DOMAIN cfg.orgs = 1..N /\ \A i \in 1..N : cfg.orgs[i] \in Orgs
  BY NetworkTypes, LenProperties, ElementOfSeq
<1>2. ASSUME NEW i \in 1..N
      PROVE  /\ DOMAIN cfg.orgs[i].nodes = 1..Len(cfg.orgs[i].nodes)
             /\ List(row(i)) /\ ToSet(row(i)) = {Me(cfg.orgs[i], j) : j \in 1..Len(cfg.orgs[i].nodes)}
  <2> DEFINE K == Len(cfg.orgs[i].nodes)
             T == {Me(cfg.orgs[i], j) : j \in 1..K}
             r == row(i)
  <2>1. DOMAIN cfg.orgs[i].nodes = 1..K /\ K \in Nat
    BY <1>1, OrgTypes, ListFacts
  <2>2. r = [j \in 1..K |-> Me(cfg.orgs[i], j)] /\ \A j \in 1..K : r[j] = Me(cfg.orgs[i], j) /\ r[j] \in T
    OBVIOUS
  <2> HIDE DEF K, T, r
  <2>3. r \in Seq(T) /\ Len(r) = K
    BY <2>1, <2>2
  <2>4. List(r) /\ ToSet(r) \subseteq T
    BY <2>3, ListOf
  <2>5. \A j \in 1..K : Me(cfg.orgs[i], j) \in ToSet(r)
    BY <2>2, <2>3, <2>4, ListFacts
  <2>6. T \subseteq ToSet(r)
    BY <2>5 DEF T
  <2> QED
    BY <2>1, <2>4, <2>6 DEF r, K, T
<1>3. Members(cfg) = FlattenSeq(s)
  BY <1>1, <1>2 DEF Members, Me
<1>4. \A i \in 1..N : s[i] = row(i)
  OBVIOUS
<1>5. s = [i \in 1..N |-> s[i]]
  OBVIOUS
<1> HIDE DEF s, row
<1>6. \A i \in 1..N : List(s[i])
  BY <1>2, <1>4
<1>7. List(FlattenSeq(s)) /\ ToSet(FlattenSeq(s)) = UNION {ToSet(s[i]) : i \in 1..N}
  <2> HIDE DEF N
  <2> QED
    BY <1>1, <1>5, <1>6, Flattened
<1>8. UNION {ToSet(s[i]) : i \in 1..N} =
        UNION {{Me(cfg.orgs[i], j) : j \in 1..Len(cfg.orgs[i].nodes)} : i \in 1..N}
  BY <1>2, <1>4
<1> QED
  BY <1>3, <1>7, <1>8

\* The members of a network: each node of each of its organizations.
LEMMA MemberFacts ==
  ASSUME NEW cfg \in Networks, NEW m
  PROVE  m \in ToSet(Members(cfg)) <=>
           \E o \in ToSet(cfg.orgs) : \E j \in 1..Len(o.nodes) : m = Me(o, j)
<1>1. /\ \A i \in 1..Len(cfg.orgs) : cfg.orgs[i] \in ToSet(cfg.orgs)
      /\ \A o \in ToSet(cfg.orgs) : \E i \in 1..Len(cfg.orgs) : cfg.orgs[i] = o
  BY NetworkTypes, ListFacts
<1>2. m \in ToSet(Members(cfg)) <=>
        \E i \in 1..Len(cfg.orgs) : \E j \in 1..Len(cfg.orgs[i].nodes) : m = Me(cfg.orgs[i], j)
  BY MembersFacts
<1> QED
  BY <1>1, <1>2

\* The organization's name and the node's id tell a member.
LEMMA SameMember ==
  ASSUME NEW cfg \in Networks, Valid(cfg), NEW m \in ToSet(Members(cfg)), NEW n \in ToSet(Members(cfg)),
         m.org.name = n.org.name, m.node.id = n.node.id
  PROVE  m = n
<1>1. PICK o \in ToSet(cfg.orgs) : \E j \in 1..Len(o.nodes) : m = Me(o, j)
  BY MemberFacts
<1>2. PICK p \in ToSet(cfg.orgs) : \E k \in 1..Len(p.nodes) : n = Me(p, k)
  BY MemberFacts
<1>3. o = p
  BY <1>1, <1>2, ValidFacts DEF Me
<1>4. PICK j \in 1..Len(o.nodes), k \in 1..Len(o.nodes) : m = Me(o, j) /\ n = Me(o, k)
  BY <1>1, <1>2, <1>3
<1>5. j = k
  BY <1>4, ValidFacts DEF Me
<1> QED
  BY <1>4, <1>5

\* The peers of a node: the addresses of all the others.
LEMMA PeersFacts ==
  ASSUME NEW cfg \in Networks, Valid(cfg), NEW me \in ToSet(Members(cfg))
  PROVE  ToSet(Peers(cfg, me)) = {Address(m) : m \in ToSet(Members(cfg)) \ {me}}
<1> DEFINE all == Members(cfg)
           N == Len(all)
           Same(m) == m.node.id = me.node.id /\ m.org.name = me.org.name
           s == [i \in 1..N |-> IF Same(all[i]) THEN <<>> ELSE <<Address(all[i])>>]
<1>1. /\ List(all) /\ N \in Nat /\ DOMAIN all = 1..N
      /\ \A i \in 1..N : all[i] \in ToSet(all)
      /\ \A m \in ToSet(all) : \E i \in 1..N : all[i] = m
  <2>1. List(all)
    BY MembersFacts
  <2> HIDE DEF all
  <2> QED
    BY <2>1, ListFacts
<1>2. Peers(cfg, me) = FlattenSeq(s)
  BY <1>1 DEF Peers
<1>3. \A m \in ToSet(all) : Same(m) <=> m = me
  BY SameMember
<1>4. /\ s = [i \in 1..N |-> s[i]]
      /\ \A i \in 1..N : s[i] = IF all[i] = me THEN <<>> ELSE <<Address(all[i])>>
  BY <1>1, <1>3
<1> HIDE DEF all, N, s, Same
<1>5. \A i \in 1..N : List(s[i]) /\ ToSet(s[i]) = IF all[i] = me THEN {} ELSE {Address(all[i])}
  BY <1>4, Tuples
<1>6. ToSet(FlattenSeq(s)) = UNION {ToSet(s[i]) : i \in 1..N}
  BY <1>1, <1>4, <1>5, Flattened
<1>7. ASSUME NEW a
      PROVE  a \in UNION {ToSet(s[i]) : i \in 1..N} <=> \E m \in ToSet(all) \ {me} : a = Address(m)
  <2>1. a \in UNION {ToSet(s[i]) : i \in 1..N} <=> \E i \in 1..N : all[i] # me /\ a = Address(all[i])
    BY <1>5
  <2> QED
    BY <1>1, <2>1
<1> QED
  BY <1>2, <1>6, <1>7 DEF all

\* The first node with a port is the only one.
LEMMA LookupFacts ==
  ASSUME NEW cfg \in Networks, Unambiguous(cfg), NEW m \in ToSet(Members(cfg))
  PROVE  Lookup(cfg, m.node.port) = Address(m)
<1> DEFINE all == Members(cfg)
           I == {i \in 1..Len(all) : all[i].node.port = m.node.port}
<1>1. /\ List(all) /\ Len(all) \in Nat
      /\ \A i \in 1..Len(all) : all[i] \in ToSet(all)
      /\ \E i \in 1..Len(all) : all[i] = m
  <2>1. List(all) /\ m \in ToSet(all)
    BY MembersFacts
  <2> HIDE DEF all
  <2> QED
    BY <2>1, ListFacts
<1>2. I # {} /\ I \subseteq Nat
  BY <1>1
<1>3. SelectInSeq(all, LAMBDA x : x.node.port = m.node.port) = CHOOSE x \in I : \A y \in I : x <= y
  BY <1>2 DEF SelectInSeq, Min
<1> DEFINE hit == CHOOSE x \in I : \A y \in I : x <= y
<1>4. hit \in I
  <2>1. \E x \in I : \A y \in I : x <= y
    <3> HIDE DEF I
    <3> QED
      BY <1>2, LeastMember
  <2> QED
    BY <2>1
<1>5. all[hit] = m /\ hit # 0
  <2>1. hit \in 1..Len(all) /\ all[hit].node.port = m.node.port
    BY <1>4
  <2>2. \A x, y \in ToSet(all) : x.node.port = y.node.port => x = y
    BY DEF Unambiguous
  <2> HIDE DEF hit, I, all
  <2> QED
    BY <1>1, <2>1, <2>2 DEF all
<1>6. SelectInSeq(all, LAMBDA x : x.node.port = m.node.port) = hit
  BY <1>3
<1> HIDE DEF hit, I
<1> QED
  BY <1>5, <1>6 DEF Lookup

\* The writes of an organization of a network, each at its path.
PlainWrites(org, key, version) ==
  LET d == Dir[org.name]
  IN  {Put(<<"orgs", d, "private">>, <<"private", key>>), Put(<<"orgs", d, "public">>, <<"public", key>>),
       Put(<<"orgs", d, "org">>, <<"org", org>>), Put(<<"orgs", d, "version">>, version),
       Put(<<"orgs", d, "network">>, <<"network", <<>>>>)}

\* The writes of a node.
NodeWrites(me, cfg) ==
  LET d == Dir[me.org.name]
      x == me.node.id
  IN  {Put(<<"orgs", d, "nodes", x>>, Folder),
       Put(<<"orgs", d, "nodes", x, "config">>, ConfigOf(me, Peers(cfg, me))),
       Put(<<"orgs", d, "nodes", x, "main">>, <<"main">>),
       Put(<<"orgs", d, "nodes", x, "image">>, <<"image", NodeHome(me), me.node.port>>)}

\* Where an organization is generated, and where its nodes are.
LEMMA HomePath ==
  ASSUME NEW org, NEW j
  PROVE  /\ OrgHome(org) = <<"orgs", Dir[org.name]>>
         /\ NodeHome(Me(org, j)) = <<"orgs", Dir[org.name], "nodes", org.nodes[j].id>>
<1>1. <<"orgs", Dir[org.name]>> \o <<"nodes", org.nodes[j].id>> = <<"orgs", Dir[org.name], "nodes", org.nodes[j].id>>
  BY Beneath
<1> QED
  BY <1>1 DEF OrgHome, NodeHome, Me

\* The files of a node of a network, written out.
LEMMA NodeWritesFacts ==
  ASSUME NEW org \in Orgs, NEW cfg, NEW j \in 1..Len(org.nodes)
  PROVE  ToSet(NodeFilesOf(org, cfg, j)) = NodeWrites(Me(org, j), cfg)
<1> DEFINE me == Me(org, j)
           d == Dir[org.name]
           x == org.nodes[j].id
           home == <<"orgs", d, "nodes", x>>
<1>1. NodeHome(me) = home /\ home \in NodeHomes
  <2>1. org.nodes[j] \in ToSet(org.nodes) /\ d \in Dirs
    BY OrgTypes, ListFacts
  <2>2. x \in Ids
    BY <2>1, OrgTypes
  <2> QED
    BY <2>1, <2>2, HomePath DEF NodeHomes
<1>2. ToSet(NodeFiles(home, me, Peers(cfg, me))) =
        {Put(home, Folder), Put(home \o <<"config">>, ConfigOf(me, Peers(cfg, me))),
         Put(home \o <<"main">>, <<"main">>),
         Put(home \o <<"image">>, <<"image", home, me.node.port>>)}
  <2> HIDE DEF home, me
  <2> QED
    BY <1>1, NodeFilesFacts
<1>3. ASSUME NEW f PROVE home \o <<f>> = <<"orgs", d, "nodes", x, f>>
  BY Beneath
<1>4. me.org = org /\ me.node = org.nodes[j]
  BY DEF Me
<1> QED
  BY <1>1, <1>2, <1>3, <1>4 DEF NodeFilesOf, NodeWrites

\* The files of an organization of a network, written out.
LEMMA OrgWritesFacts ==
  ASSUME NEW org \in Orgs, NEW cfg, NEW key, NEW v \in Releases
  PROVE  ToSet(OrgFiles(org, cfg, key, <<"version", v>>)) =
           PlainWrites(org, key, <<"version", v>>)
             \cup UNION {NodeWrites(Me(org, j), cfg) : j \in 1..Len(org.nodes)}
<1>1. PlainFiles(OrgHome(org), org, key, <<"version", v>>) = PlainWrites(org, key, <<"version", v>>)
  <2>1. ASSUME NEW f PROVE OrgHome(org) \o <<f>> = <<"orgs", Dir[org.name], f>>
    <3>1. <<"orgs", Dir[org.name]>> \o <<f>> = <<"orgs", Dir[org.name], f>>
      BY Beneath
    <3> QED
      BY <3>1, HomePath
  <2>2. /\ OrgHome(org) \o <<"private">> = <<"orgs", Dir[org.name], "private">>
        /\ OrgHome(org) \o <<"public">> = <<"orgs", Dir[org.name], "public">>
        /\ OrgHome(org) \o <<"org">> = <<"orgs", Dir[org.name], "org">>
        /\ OrgHome(org) \o <<"version">> = <<"orgs", Dir[org.name], "version">>
        /\ OrgHome(org) \o <<"network">> = <<"orgs", Dir[org.name], "network">>
    BY <2>1, Zenon
  <2> QED
    BY <2>2, Zenon DEF PlainFiles, PlainWrites
<1>2. UNION {ToSet(NodeFilesOf(org, cfg, j)) : j \in 1..Len(org.nodes)}
        = UNION {NodeWrites(Me(org, j), cfg) : j \in 1..Len(org.nodes)}
  BY NodeWritesFacts
<1>3. ToSet(OrgFiles(org, cfg, key, <<"version", v>>)) = PlainFiles(OrgHome(org), org, key, <<"version", v>>)
                   \cup UNION {ToSet(NodeFilesOf(org, cfg, j)) : j \in 1..Len(org.nodes)}
  BY OrgFilesFacts
<1> QED
  BY <1>1, <1>2, <1>3

\* Each path of a node is written once.
LEMMA NodeWritesOnce ==
  ASSUME NEW me, NEW cfg, NEW a \in NodeWrites(me, cfg), NEW b \in NodeWrites(me, cfg), a.at = b.at
  PROVE  a = b
<1> DEFINE home == <<"orgs", Dir[me.org.name], "nodes", me.node.id>>
<1>1. a.at = home => a = Put(home, Folder)
  BY DEF NodeWrites, Put
<1>2. b.at = home => b = Put(home, Folder)
  BY DEF NodeWrites, Put
<1>3. CASE a.at # home
  <2>1. \/ a.at[5] = "config" /\ a.put = ConfigOf(me, Peers(cfg, me))
        \/ a.at[5] = "main" /\ a.put = <<"main">>
        \/ a.at[5] = "image" /\ a.put = <<"image", NodeHome(me), me.node.port>>
    BY <1>3 DEF NodeWrites, Put
  <2>2. \/ b.at[5] = "config" /\ b.put = ConfigOf(me, Peers(cfg, me))
        \/ b.at[5] = "main" /\ b.put = <<"main">>
        \/ b.at[5] = "image" /\ b.put = <<"image", NodeHome(me), me.node.port>>
    BY <1>3 DEF NodeWrites, Put
  <2>3. a = Put(a.at, a.put) /\ b = Put(b.at, b.put)
    BY DEF NodeWrites, Put
  <2> QED
    BY <2>1, <2>2, <2>3
<1> QED
  BY <1>1, <1>2, <1>3

\* Each path of an organization is written once.
LEMMA OrgOnce ==
  ASSUME NEW org \in Orgs, NEW cfg, NEW key, NEW v \in Releases,
         \A i, j \in 1..Len(org.nodes) : org.nodes[i].id = org.nodes[j].id => i = j,
         NEW w \in ToSet(OrgFiles(org, cfg, key, <<"version", v>>)),
         NEW x \in ToSet(OrgFiles(org, cfg, key, <<"version", v>>)),
         w.at = x.at
  PROVE  w = x
<1> DEFINE P == PlainWrites(org, key, <<"version", v>>)
           S(j) == NodeWrites(Me(org, j), cfg)
<1>1. /\ w \in P \/ \E j \in 1..Len(org.nodes) : w \in S(j)
      /\ x \in P \/ \E j \in 1..Len(org.nodes) : x \in S(j)
  BY OrgWritesFacts
<1>2. ASSUME NEW a \in P, NEW b \in P, a.at = b.at PROVE a = b
  BY <1>2 DEF PlainWrites, Put
<1>3. ASSUME NEW a \in P, NEW j \in 1..Len(org.nodes), NEW b \in S(j) PROVE a.at # b.at
  <2>1. a.at[3] # "nodes"
    BY DEF PlainWrites, Put
  <2>2. b.at[3] = "nodes"
    BY DEF NodeWrites, Put
  <2> QED
    BY <2>1, <2>2
<1>4. ASSUME NEW i \in 1..Len(org.nodes), NEW a \in S(i), NEW j \in 1..Len(org.nodes), NEW b \in S(j), a.at = b.at
      PROVE  a = b
  <2>1. a.at[4] = org.nodes[i].id /\ b.at[4] = org.nodes[j].id
    BY DEF NodeWrites, Put, Me
  <2>2. i = j
    BY <1>4, <2>1
  <2> QED
    BY <1>4, <2>2, NodeWritesOnce
<1> HIDE DEF P, S
<1> QED
  BY <1>1, <1>2, <1>3, <1>4

\* Where each write of an organization goes.
LEMMA OrgAt ==
  ASSUME NEW org \in Orgs, NEW cfg, NEW key, NEW v \in Releases,
         NEW w \in ToSet(OrgFiles(org, cfg, key, <<"version", v>>))
  PROVE  w.at[1] = "orgs" /\ w.at[2] = Dir[org.name]
<1>1. w \in PlainWrites(org, key, <<"version", v>>) \/ \E j \in 1..Len(org.nodes) : w \in NodeWrites(Me(org, j), cfg)
  BY OrgWritesFacts
<1>2. ASSUME w \in PlainWrites(org, key, <<"version", v>>) PROVE w.at[1] = "orgs" /\ w.at[2] = Dir[org.name]
  BY <1>2 DEF PlainWrites, Put
<1>3. ASSUME NEW j \in 1..Len(org.nodes), w \in NodeWrites(Me(org, j), cfg)
      PROVE  w.at[1] = "orgs" /\ w.at[2] = Dir[org.name]
  BY <1>3 DEF NodeWrites, Put, Me
<1> QED
  BY <1>1, <1>2, <1>3

\* A network whose names do not collide writes each path once.
LEMMA GeneratedOnce ==
  ASSUME NEW cfg \in Networks, Valid(cfg), Unambiguous(cfg), cfg.codes # <<>>, NEW draw, NEW v \in Releases,
         NEW w \in ToSet(Generated(cfg, draw, <<"version", v>>)),
         NEW x \in ToSet(Generated(cfg, draw, <<"version", v>>)),
         w.at = x.at
  PROVE  w = x
<1> DEFINE N == Len(cfg.orgs)
           O(i) == ToSet(OrgFiles(cfg.orgs[i], cfg, <<draw, i>>, <<"version", v>>))
           C == {Put(<<"chaincodes", c.base>>, <<"code", c>>) : c \in ToSet(cfg.codes)}
           abi == Put(<<"abi">>, <<"abi", {c.contract : c \in ToSet(cfg.codes)}>>)
<1>0. ASSUME NEW y \in ToSet(Generated(cfg, draw, <<"version", v>>))
      PROVE  (\E i \in 1..N : y \in O(i)) \/ y \in C \/ y = abi \/ y = Compose(cfg)
  <2>1. (\E i \in 1..N : y \in O(i)) \/ y \in ToSet(Contracts(cfg.codes)) \/ y = Compose(cfg)
    BY GeneratedFacts DEF OrgFilesOf
  <2>2. cfg.codes \in Seq(Codes)
    BY NetworkTypes
  <2>3. ToSet(Contracts(cfg.codes)) = C \cup {abi}
    BY <2>2, ContractsFacts
  <2> QED
    BY <2>1, <2>3
<1>1. /\ \A i \in 1..N : cfg.orgs[i] \in Orgs /\ cfg.orgs[i] \in ToSet(cfg.orgs)
  BY NetworkTypes, ListFacts, ListOf
<1>2. ASSUME NEW i \in 1..N, NEW a \in O(i), NEW j \in 1..N, NEW b \in O(j), a.at = b.at
      PROVE  a = b
  <2>1. Dir[cfg.orgs[i].name] = Dir[cfg.orgs[j].name]
    BY <1>1, <1>2, OrgAt
  <2>2. i = j
    BY <1>1, <2>1, ValidFacts DEF Unambiguous
  <2>3. \A k, l \in 1..Len(cfg.orgs[i].nodes) : cfg.orgs[i].nodes[k].id = cfg.orgs[i].nodes[l].id => k = l
    BY <1>1, ValidFacts
  <2> QED
    BY <1>1, <1>2, <2>2, <2>3, OrgOnce
<1>3. ASSUME NEW i \in 1..N, NEW a \in O(i)
      PROVE  a.at[1] = "orgs"
  BY <1>1, OrgAt
<1>4. ASSUME NEW a \in C, NEW b \in C, a.at = b.at PROVE a = b
  <2>1. PICK c \in ToSet(cfg.codes) : a = Put(<<"chaincodes", c.base>>, <<"code", c>>)
    OBVIOUS
  <2>2. PICK e \in ToSet(cfg.codes) : b = Put(<<"chaincodes", e.base>>, <<"code", e>>)
    OBVIOUS
  <2>3. c.base = e.base
    BY <1>4, <2>1, <2>2 DEF Put
  <2>4. c = e
    BY <2>3 DEF Unambiguous
  <2> QED
    BY <2>1, <2>2, <2>4
<1>5. /\ \A a \in C : a.at[1] = "chaincodes"
      /\ abi.at[1] = "abi" /\ Compose(cfg).at[1] = "compose"
  BY ComposeFacts DEF Put
<1> HIDE DEF O, C, abi, N
<1>6. (\E i \in 1..N : w \in O(i)) \/ w \in C \/ w = abi \/ w = Compose(cfg)
  BY <1>0
<1>7. (\E i \in 1..N : x \in O(i)) \/ x \in C \/ x = abi \/ x = Compose(cfg)
  BY <1>0
<1> QED
  BY <1>2, <1>3, <1>4, <1>5, <1>6, <1>7

-----------------------------------------------------------------------------
(* An organization that is whole, in a build directory or in a workspace.  *)

\* What a node has.
NodeEntries(at, me, cfg) ==
  {Put(at, Folder), Put(at \o <<"config">>, ConfigOf(me, Peers(cfg, me))),
   Put(at \o <<"main">>, <<"main">>),
   Put(at \o <<"image">>, <<"image", NodeHome(me), me.node.port>>)}

\* What an organization has.
OrgEntries(home, org, cfg, key, version) ==
  PlainFiles(home, org, key, version)
    \cup UNION {NodeEntries(home \o <<"nodes", org.nodes[j].id>>, Me(org, j), cfg) : j \in 1..Len(org.nodes)}

\* It is all there, with the two keys of one pair.
OrgHas(files, home, org, cfg, version) ==
  \E key \in Nat \X Nat : \A w \in OrgEntries(home, org, cfg, key, version) : Has(files, w.at, w.put)

\* What a build writes for an organization is what a whole organization has.
LEMMA GeneratedEntries ==
  ASSUME NEW org \in Orgs, NEW cfg, NEW key, NEW v \in Releases
  PROVE  ToSet(OrgFiles(org, cfg, key, <<"version", v>>)) = OrgEntries(OrgHome(org), org, cfg, key, <<"version", v>>)
<1>1. ASSUME NEW j \in 1..Len(org.nodes)
      PROVE  ToSet(NodeFilesOf(org, cfg, j)) = NodeEntries(OrgHome(org) \o <<"nodes", org.nodes[j].id>>, Me(org, j), cfg)
  <2> DEFINE home == NodeHome(Me(org, j))
  <2>1. home = OrgHome(org) \o <<"nodes", org.nodes[j].id>>
    BY DEF NodeHome, Me
  <2>2. home \in NodeHomes
    <3>1. org.nodes[j] \in ToSet(org.nodes) /\ Dir[org.name] \in Dirs
      BY OrgTypes, ListFacts
    <3>2. org.nodes[j].id \in Ids
      BY <3>1, OrgTypes
    <3> QED
      BY <3>1, <3>2, HomePath DEF NodeHomes
  <2>3. NodeFilesOf(org, cfg, j) = NodeFiles(home, Me(org, j), Peers(cfg, Me(org, j)))
    BY DEF NodeFilesOf
  <2> HIDE DEF home
  <2>4. ToSet(NodeFilesOf(org, cfg, j)) = NodeEntries(home, Me(org, j), cfg)
    <3>1. ToSet(NodeFiles(home, Me(org, j), Peers(cfg, Me(org, j)))) =
             {Put(home, Folder), Put(home \o <<"config">>, ConfigOf(Me(org, j), Peers(cfg, Me(org, j)))),
              Put(home \o <<"main">>, <<"main">>),
              Put(home \o <<"image">>, <<"image", home, Me(org, j).node.port>>)}
      BY <2>2, NodeFilesFacts
    <3> QED
      BY <2>3, <3>1 DEF NodeEntries, home
  <2> QED
    BY <2>1, <2>4
<1>2. UNION {ToSet(NodeFilesOf(org, cfg, j)) : j \in 1..Len(org.nodes)}
        = UNION {NodeEntries(OrgHome(org) \o <<"nodes", org.nodes[j].id>>, Me(org, j), cfg) : j \in 1..Len(org.nodes)}
  BY <1>1
<1>3. ToSet(OrgFiles(org, cfg, key, <<"version", v>>)) = PlainFiles(OrgHome(org), org, key, <<"version", v>>)
                   \cup UNION {ToSet(NodeFilesOf(org, cfg, j)) : j \in 1..Len(org.nodes)}
  BY OrgFilesFacts
<1> QED
  BY <1>2, <1>3 DEF OrgEntries

\* An organization all of whose files are there is whole.
LEMMA HasWhole ==
  ASSUME NEW org \in Orgs, NEW files, NEW home, NEW cfg, NEW version, OrgHas(files, home, org, cfg, version)
  PROVE  OrgWhole(files, home, org, cfg, version)
<1>1. PICK key \in Nat \X Nat : \A w \in OrgEntries(home, org, cfg, key, version) : Has(files, w.at, w.put)
  BY DEF OrgHas
<1>2. ASSUME NEW at, NEW c, Put(at, c) \in OrgEntries(home, org, cfg, key, version) PROVE files[at] = c
  <2>1. Put(at, c).at = at /\ Put(at, c).put = c
    BY DEF Put
  <2> QED
    BY <1>1, <1>2, <2>1 DEF Has
<1>3. PlainFiles(home, org, key, version) \subseteq OrgEntries(home, org, cfg, key, version)
  BY DEF OrgEntries
<1>4. /\ files[home \o <<"org">>] = <<"org", org>>
      /\ files[home \o <<"version">>] = version
      /\ files[home \o <<"private">>] = <<"private", key>>
      /\ files[home \o <<"public">>] = <<"public", key>>
  BY <1>2, <1>3 DEF PlainFiles
<1>5. ASSUME NEW node \in ToSet(org.nodes)
      PROVE  LET me == [org |-> org, node |-> node]
             IN  NodeWhole(files, home \o <<"nodes", node.id>>, me, Peers(cfg, me), NodeHome(me))
  <2>1. PICK j \in 1..Len(org.nodes) : org.nodes[j] = node
    BY OrgTypes, ListFacts
  <2> DEFINE me == Me(org, j)
             at == home \o <<"nodes", node.id>>
  <2>2. me = [org |-> org, node |-> node]
    BY <2>1 DEF Me
  <2>3. NodeEntries(at, me, cfg) \subseteq OrgEntries(home, org, cfg, key, version)
    BY <2>1 DEF OrgEntries
  <2> HIDE DEF me, at
  <2>4. /\ files[at] = Folder
        /\ files[at \o <<"config">>] = ConfigOf(me, Peers(cfg, me))
        /\ files[at \o <<"main">>] = <<"main">>
        /\ files[at \o <<"image">>] = <<"image", NodeHome(me), me.node.port>>
    BY <1>2, <2>3 DEF NodeEntries
  <2>5. NodeWhole(files, at, me, Peers(cfg, me), NodeHome(me))
    BY <2>4 DEF NodeWhole, ConfigOf
  <2> QED
    BY <2>2, <2>5 DEF at
<1>6. <<"private", key>> # Torn /\ <<"private", key>>[2] = key /\ <<"public", key>>[2] = key
  BY DEF Torn
<1> QED
  BY <1>4, <1>5, <1>6 DEF OrgWhole

\* A workspace that has all of a package has what the package has.
LEMMA HasWithin ==
  ASSUME NEW small, NEW large, \A p \in DOMAIN small : Has(large, p, small[p]),
         NEW home, NEW org, NEW cfg, NEW version, OrgHas(small, home, org, cfg, version)
  PROVE  OrgHas(large, home, org, cfg, version)
<1>1. PICK key \in Nat \X Nat : \A w \in OrgEntries(home, org, cfg, key, version) : Has(small, w.at, w.put)
  BY DEF OrgHas
<1>2. \A w \in OrgEntries(home, org, cfg, key, version) : Has(large, w.at, w.put)
  BY <1>1 DEF Has
<1> QED
  BY <1>2 DEF OrgHas

\* Each entry of a workspace is one of the build directory, under orgs/d.
LEMMA EntryBeneath ==
  ASSUME NEW org \in Orgs, NEW cfg, NEW key, NEW version,
         NEW w \in OrgEntries(<<>>, org, cfg, key, version)
  PROVE  /\ w.at \in OrgPaths
         /\ Put(OrgHome(org) \o w.at, w.put) \in OrgEntries(OrgHome(org), org, cfg, key, version)
<1> DEFINE home == OrgHome(org)
           d == Dir[org.name]
<1>0. home = <<"orgs", d>>
  BY DEF OrgHome
<1>1. ASSUME w \in PlainFiles(<<>>, org, key, version)
      PROVE  /\ w.at \in OrgPaths
             /\ Put(home \o w.at, w.put) \in OrgEntries(home, org, cfg, key, version)
  <2>1. ASSUME NEW f PROVE <<>> \o <<f>> = <<f>>
    BY Beneath
  <2>2. /\ <<>> \o <<"private">> = <<"private">> /\ <<>> \o <<"public">> = <<"public">>
        /\ <<>> \o <<"org">> = <<"org">> /\ <<>> \o <<"version">> = <<"version">>
        /\ <<>> \o <<"network">> = <<"network">>
    BY <2>1
  <2>3. PlainFiles(<<>>, org, key, version) =
          {Put(<<"private">>, <<"private", key>>), Put(<<"public">>, <<"public", key>>),
           Put(<<"org">>, <<"org", org>>), Put(<<"version">>, version),
           Put(<<"network">>, <<"network", <<>>>>)}
    BY <2>2, Zenon DEF PlainFiles
  <2>4. \E f \in Plain : w.at = <<f>>
    BY <1>1, <2>3 DEF Put, Plain
  <2>5. Put(home \o w.at, w.put) \in PlainFiles(home, org, key, version)
    <3> HIDE DEF home
    <3>1. ASSUME NEW at, NEW c, w = Put(at, c) PROVE Put(home \o w.at, w.put) = Put(home \o at, c)
      BY <3>1 DEF Put
    <3>2. \/ w = Put(<<"private">>, <<"private", key>>) \/ w = Put(<<"public">>, <<"public", key>>)
          \/ w = Put(<<"org">>, <<"org", org>>) \/ w = Put(<<"version">>, version)
          \/ w = Put(<<"network">>, <<"network", <<>>>>)
      BY <1>1, <2>3
    <3> QED
      BY <3>1, <3>2 DEF PlainFiles
  <2> QED
    BY <2>4, <2>5 DEF OrgEntries, OrgPaths
<1>2. ASSUME NEW j \in 1..Len(org.nodes), w \in NodeEntries(<<>> \o <<"nodes", org.nodes[j].id>>, Me(org, j), cfg)
      PROVE  /\ w.at \in OrgPaths
             /\ Put(home \o w.at, w.put) \in OrgEntries(home, org, cfg, key, version)
  <2> DEFINE x == org.nodes[j].id
             me == Me(org, j)
             at == home \o <<"nodes", x>>
  <2>1. x \in Ids
    <3>1. org.nodes[j] \in ToSet(org.nodes)
      BY OrgTypes, ListFacts
    <3> QED
      BY <3>1, OrgTypes
  <2>2. <<>> \o <<"nodes", x>> = <<"nodes", x>>
    BY Beneath
  <2>3. at = <<"orgs", d, "nodes", x>>
    BY <1>0, Beneath
  <2>4. ASSUME NEW f PROVE <<"nodes", x>> \o <<f>> = <<"nodes", x, f>> /\ at \o <<f>> = home \o <<"nodes", x, f>>
    <3>1. <<"nodes", x>> \o <<f>> = <<"nodes", x, f>>
      BY Beneath
    <3>2. <<"orgs", d, "nodes", x>> \o <<f>> = <<"orgs", d, "nodes", x, f>>
      BY Beneath
    <3>3. <<"orgs", d>> \o <<"nodes", x, f>> = <<"orgs", d, "nodes", x, f>>
      BY Beneath
    <3> QED
      BY <1>0, <2>3, <3>1, <3>2, <3>3
  <2>5. NodeEntries(at, me, cfg) \subseteq OrgEntries(home, org, cfg, key, version)
    BY DEF OrgEntries
  <2> HIDE DEF me
  <2>6. w \in NodeEntries(<<"nodes", x>>, me, cfg)
    BY <1>2, <2>2 DEF me
  <2>7. \/ w = Put(<<"nodes", x>>, Folder)
        \/ w = Put(<<"nodes", x, "config">>, ConfigOf(me, Peers(cfg, me)))
        \/ w = Put(<<"nodes", x, "main">>, <<"main">>)
        \/ w = Put(<<"nodes", x, "image">>, <<"image", NodeHome(me), me.node.port>>)
    <3> HIDE DEF x
    <3>1. /\ <<"nodes", x>> \o <<"config">> = <<"nodes", x, "config">>
          /\ <<"nodes", x>> \o <<"main">> = <<"nodes", x, "main">>
          /\ <<"nodes", x>> \o <<"image">> = <<"nodes", x, "image">>
      BY <2>4
    <3> QED
      BY <2>6, <3>1, Zenon DEF NodeEntries
  <2>8. /\ at \o <<"config">> = home \o <<"nodes", x, "config">>
        /\ at \o <<"main">> = home \o <<"nodes", x, "main">>
        /\ at \o <<"image">> = home \o <<"nodes", x, "image">>
    BY <2>4
  <2>9. \A at2, c : Put(at2, c).at = at2 /\ Put(at2, c).put = c
    BY DEF Put
  <2>10. Put(home \o w.at, w.put) \in NodeEntries(at, me, cfg)
    <3> HIDE DEF home, x
    <3>1. CASE w = Put(<<"nodes", x>>, Folder)
      <4>1. Put(home \o w.at, w.put) = Put(at, Folder)
        BY <2>9, <3>1
      <4> QED
        BY <4>1 DEF NodeEntries
    <3>2. CASE w = Put(<<"nodes", x, "config">>, ConfigOf(me, Peers(cfg, me)))
      <4>1. Put(home \o w.at, w.put) = Put(at \o <<"config">>, ConfigOf(me, Peers(cfg, me)))
        BY <2>8, <2>9, <3>2
      <4> QED
        BY <4>1 DEF NodeEntries
    <3>3. CASE w = Put(<<"nodes", x, "main">>, <<"main">>)
      <4>1. Put(home \o w.at, w.put) = Put(at \o <<"main">>, <<"main">>)
        BY <2>8, <2>9, <3>3
      <4> QED
        BY <4>1 DEF NodeEntries
    <3>4. CASE w = Put(<<"nodes", x, "image">>, <<"image", NodeHome(me), me.node.port>>)
      <4>1. Put(home \o w.at, w.put) = Put(at \o <<"image">>, <<"image", NodeHome(me), me.node.port>>)
        BY <2>8, <2>9, <3>4
      <4> QED
        BY <4>1 DEF NodeEntries
    <3> QED
      BY <2>7, <3>1, <3>2, <3>3, <3>4
  <2>11. w.at \in {<<"nodes", x>>} \cup {<<"nodes", x, f>> : f \in Parts}
    BY <2>7, <2>9 DEF Parts
  <2>12. w.at \in OrgPaths
    <3> HIDE DEF x
    <3> QED
      BY <2>1, <2>11 DEF OrgPaths
  <2> HIDE DEF at, x
  <2> QED
    BY <2>5, <2>10, <2>12
<1> HIDE DEF home
<1> QED
  BY <1>1, <1>2 DEF home, OrgEntries

\* The archive of an organization that is whole is whole.
LEMMA PackagedHas ==
  ASSUME NEW files, FilesFit(files, BuildPaths), NEW org \in Orgs, NEW cfg, NEW version,
         OrgHas(files, OrgHome(org), org, cfg, version)
  PROVE  OrgHas(FilesOf(files, Dir[org.name]), <<>>, org, cfg, version)
<1> DEFINE d == Dir[org.name]
           k == FilesOf(files, d)
<1>1. PICK key \in Nat \X Nat : \A w \in OrgEntries(OrgHome(org), org, cfg, key, version) : Has(files, w.at, w.put)
  BY DEF OrgHas
<1>2. DOMAIN k = ShortOf(files, d) /\ \A p \in DOMAIN k : k[p] = files[<<"orgs", d>> \o p]
  BY DEF FilesOf
<1> HIDE DEF k
<1>3. OrgHome(org) = <<"orgs", d>> /\ d \in Dirs
  BY OrgTypes DEF OrgHome
<1>4. ASSUME NEW w \in OrgEntries(<<>>, org, cfg, key, version) PROVE Has(k, w.at, w.put)
  <2>1. w.at \in OrgPaths /\ Put(OrgHome(org) \o w.at, w.put) \in OrgEntries(OrgHome(org), org, cfg, key, version)
    BY EntryBeneath
  <2>2. Has(files, OrgHome(org) \o w.at, w.put)
    <3>1. /\ Put(OrgHome(org) \o w.at, w.put).at = OrgHome(org) \o w.at
          /\ Put(OrgHome(org) \o w.at, w.put).put = w.put
      BY DEF Put
    <3> QED
      BY <1>1, <2>1, <3>1
  <2>3. Has(files, <<"orgs", d>> \o w.at, w.put)
    BY <1>3, <2>2
  <2>4. w.at \in ShortOf(files, d)
    BY <1>3, <2>1, <2>3, ShortFacts DEF Has
  <2> QED
    BY <1>2, <2>3, <2>4 DEF Has
<1> QED
  BY <1>4 DEF OrgHas, k

-----------------------------------------------------------------------------
(* What a build that succeeds, and an install of it, leave.                *)

\* The networks the commands may read have names that do not collide.
NamesApart == \A cfg \in Networks : Valid(cfg) /\ cfg.codes # <<>> => Unambiguous(cfg)

\* A network that can be built, and a release.
BuildFit(b) ==
  /\ b.network \in Networks /\ Valid(b.network) /\ b.network.codes # <<>>
  /\ \E v \in Releases : b.version = <<"version", v>>

\* All that the generator writes is there, or still to be written.
GeneratedBut(files, cfg, draw, version, todo) ==
  /\ todo \subseteq ToSet(Generated(cfg, draw, version))
  /\ \A w \in ToSet(Generated(cfg, draw, version)) : Has(files, w.at, w.put) \/ w \in todo

GeneratedOn(files, cfg, version) == \E draw \in Nat : GeneratedBut(files, cfg, draw, version, {})

\* A build that generates has written what it no longer has to write.
Progress ==
  command # Idle /\ command.kind = "build" /\ command.stage = "generate" =>
    /\ command.package \in Networks /\ Valid(command.package)
    /\ command.package.codes # <<>> =>
         \E v \in Releases, draw \in Nat :
           /\ Has(disk["build"], <<"version">>, <<"version", v>>)
           /\ GeneratedBut(disk["build"], command.package, draw, <<"version", v>>, ToSet(command.todo))

\* What the last build wrote is still there.
BuiltStays ==
  built # Nothing =>
    /\ BuildFit(built)
    /\ command # Idle => command.kind # "build"
    /\ GeneratedOn(disk["build"], built.network, built.version)

\* A package made from a build that had succeeded is whole.
PackageWhole(k) ==
  k.from # Nothing =>
    /\ BuildFit(k.from)
    /\ \A org \in ToSet(k.from.network.orgs) :
         Dir[org.name] = k.dir => OrgHas(k.files, <<>>, org, k.from.network, k.from.version)

\* Wherever a package is: in the archive, on its way, installed.
PackagesWhole ==
  /\ \A key \in DOMAIN packages : PackageWhole(packages[key])
  /\ command # Idle /\ command.kind \in {"extract", "install"} => PackageWhole(command.package)
  /\ installed # Nothing => PackageWhole(installed)

\* Beside IInv: a success is told at the end of a list of writes, and this says
\* that what left the list is on the disk.
WholeInv == Progress /\ BuiltStays /\ PackagesWhole

\* Nothing is built, packaged or installed.
LEMMA InitWhole == Init => WholeInv
<1>1. DOMAIN <<>> = {}
  BY Tuples DEF List
<1> QED
  BY <1>1 DEF Init, WholeInv, Progress, BuiltStays, PackagesWhole

\* A command begins, with a package of the archives if it extracts one.
Begins(kind, root, todo, package) ==
  /\ kind \in Kinds
  /\ command' = [kind |-> kind, stage |-> "source", root |-> root, todo |-> todo, package |-> package]
  /\ kind = "build" => built' = Nothing
  /\ kind = "extract" => \E key \in DOMAIN packages : package = packages[key]
  /\ installed' = Nothing

\* Some command begins.
Begun == \E kind, root, todo, package : Begins(kind, root, todo, package)

\* Which actions change what.
LEMMA CommandChanges ==
  ASSUME Next
  PROVE  \/ command' = Idle
         \/ Begun
         \/ Step \/ Load \/ Fetch \/ LoadWorkspace
<1>1. ASSUME Build \/ Update \/ \E d \in Packaged : BuildWorkspace(d)
      PROVE  Begun
  <2>1. PICK kind, root :
        /\ kind \in {"build", "update", "workspace"} /\ BeginLatest(kind, root)
        /\ kind = "build" => built' = Nothing
    BY <1>1 DEF Build, Update, BuildWorkspace
  <2>2. PICK release : Begin(kind, root, Download(release), Nothing)
    BY <2>1 DEF BeginLatest
  <2>3. /\ command' = [kind |-> kind, stage |-> "source", root |-> root, todo |-> Download(release), package |-> Nothing]
        /\ installed' = Nothing
    BY <2>2 DEF Begin
  <2>4. kind \in Kinds /\ kind # "extract"
    BY <2>1 DEF Kinds
  <2>5. Begins(kind, root, Download(release), Nothing)
    BY <2>1, <2>3, <2>4 DEF Begins
  <2> QED
    BY <2>5 DEF Begun
<1>2. ASSUME NEW key \in DOMAIN packages, Install(key)
      PROVE  Begun
  <2> DEFINE k == packages[key]
  <2>1. /\ command' = [kind |-> "extract", stage |-> "source", root |-> k.dir, todo |-> Extracted(k), package |-> k]
        /\ installed' = Nothing
    BY <1>2 DEF Install, Begin
  <2>2. "extract" \in Kinds /\ "extract" # "build"
    BY DEF Kinds
  <2>3. \E other \in DOMAIN packages : k = packages[other]
    OBVIOUS
  <2> HIDE DEF k
  <2>4. Begins("extract", k.dir, Extracted(k), k)
    BY <2>1, <2>2, <2>3 DEF Begins
  <2> QED
    BY <2>4 DEF Begun
<1>3. ASSUME Interrupt \/ FinishBuild \/ FinishUpdate \/ FinishInstall \/ LoadWorkspaceFails \/ FinishWorkspace
             \/ \E d \in Packaged : Package(d) \/ EditWorkspace(d)
      PROVE  command' = Idle
  BY <1>3 DEF Interrupt, FinishBuild, FinishUpdate, FinishInstall, LoadWorkspaceFails, FinishWorkspace, Package, EditWorkspace
<1> QED
  BY <1>1, <1>2, <1>3 DEF Next

\* Only packaging adds an archive, and only its last step makes a build or an
\* install one that succeeded.
LEMMA OtherChanges ==
  ASSUME Next
  PROVE  /\ packages' = packages \/ \E d \in Packaged : Package(d)
         /\ built' \in {built, Nothing} \/ FinishBuild
         /\ installed' \in {installed, Nothing} \/ FinishInstall
<1>1. packages' = packages \/ \E d \in Packaged : Package(d)
  BY DEF Next, history, Build, Update, BeginLatest, Begin, Step, Interrupt, Load, FinishBuild, FinishUpdate,
     EditWorkspace, BuildWorkspace, Install, Fetch, FinishInstall, LoadWorkspace, LoadWorkspaceFails, FinishWorkspace
<1>2. built' \in {built, Nothing} \/ FinishBuild
  BY DEF Next, history, Build, Update, Step, Interrupt, Load, FinishUpdate, Package,
     EditWorkspace, BuildWorkspace, Install, Fetch, FinishInstall, LoadWorkspace, LoadWorkspaceFails, FinishWorkspace
<1>3. installed' \in {installed, Nothing} \/ FinishInstall
  BY DEF Next, history, Build, Update, BeginLatest, Begin, Step, Interrupt, Load, FinishBuild, FinishUpdate, Package,
     EditWorkspace, BuildWorkspace, Install, Fetch, LoadWorkspace, LoadWorkspaceFails, FinishWorkspace
<1> QED
  BY <1>1, <1>2, <1>3

\* Only a build that generates touches what a build has generated.
LEMMA BuildDisk ==
  ASSUME IInv, Next, command # Idle => command.kind # "build" \/ command.stage # "generate",
         NEW p \in NetworkPaths, NEW c, Has(disk["build"], p, c)
  PROVE  Has(disk'["build"], p, c)
<1> DEFINE files == disk["build"]
<1>0. p[1] \notin {"dist", "version"} /\ "build" \in Roots /\ DOMAIN disk = Roots
  BY NetworkPathFacts DEF IInv, Directories, Roots
<1>1. ASSUME NEW w, w.put # Gone, w.at[1] \in {"dist", "version"} PROVE Has(Written(files, w), p, c)
  <2>1. w.at # p
    BY <1>0, <1>1
  <2> HIDE DEF files
  <2> QED
    BY <1>1, <2>1, PutWrite DEF Has, files
<1>2. Has(Written(files, ClearDist), p, c)
  <2>1. FilesFit(files, BuildPaths) /\ BuildPaths \subseteq Paths
    BY DEF IInv, Directories, Roots, PathsOf, Paths
  <2>2. DOMAIN files \subseteq Paths
    BY <2>1 DEF FilesFit
  <2>3. /\ DOMAIN Written(files, ClearDist) = {q \in DOMAIN files : q[1] # "dist"}
        /\ \A q \in DOMAIN Written(files, ClearDist) : Written(files, ClearDist)[q] = files[q]
    BY <2>2, GoneWrite DEF ClearDist
  <2> QED
    BY <1>0, <2>3 DEF Has
<1>3. ASSUME command # Idle, command.root = "build", command.todo # <<>>
      PROVE  Head(command.todo) = ClearDist \/ (Head(command.todo).put # Gone /\ Head(command.todo).at[1] \in {"dist", "version"})
  <2>1. CommandFit(command) /\ FilesFit(files, PathsOf("build")) /\ PathsOf("build") \subseteq Paths
    BY <1>3, RunningFacts
  <2>2. command.stage = "source" /\ command.kind # "extract"
    BY <1>3, <2>1 DEF CommandFit
  <2>3. PICK v \in Releases : Downloading(files, command.todo, v)
    BY <1>3, <2>2 DEF IInv, Sourced, SourcedBy
  <2>4. DOMAIN files \subseteq Paths
    BY <2>1 DEF FilesFit
  <2>5. Head(command.todo) \in {ClearDist, VersionOf(v), SourceOf(v)}
    BY <1>3, <2>3, <2>4, DownloadStep
  <2> QED
    BY <2>5 DEF VersionOf, SourceOf, Put, Gone
<1>4. CASE Step
  <2> DEFINE w == Head(command.todo)
  <2>1. command # Idle /\ command.todo # <<>> /\ disk' = [disk EXCEPT ![command.root] = Written(@, w)]
    BY <1>4 DEF Step
  <2>2. command.root \in Roots
    BY <2>1, RunningFacts
  <2>3. CASE command.root = "build"
    <3>1. disk'["build"] = Written(files, w)
      BY <1>0, <2>1, <2>3
    <3>2. Has(Written(files, w), p, c)
      BY <1>1, <1>2, <1>3, <2>1, <2>3
    <3> QED
      BY <3>1, <3>2
  <2>4. CASE command.root # "build"
    BY <1>0, <2>1, <2>2, <2>4
  <2> QED
    BY <2>3, <2>4
<1>5. CASE Interrupt
  <2>1. CASE UNCHANGED disk
    BY <2>1
  <2>2. CASE ~UNCHANGED disk
    <3> DEFINE w == Head(command.todo)
    <3>1. /\ command # Idle /\ command.todo # <<>> /\ w.put \notin {Gone, Folder}
          /\ disk' = [disk EXCEPT ![command.root] = Written(@, [w EXCEPT !.put = Torn])]
      BY <1>5, <2>2 DEF Interrupt
    <3>2. CASE command.root = "build"
      <4>1. w # ClearDist
        BY <3>1 DEF ClearDist, Put
      <4>2. w.at[1] \in {"dist", "version"}
        BY <1>3, <3>1, <3>2, <4>1
      <4>3. Fit(w, PathsOf(command.root))
        BY <3>1, <4>1, RunningFacts, WritableHead
      <4> HIDE DEF w
      <4>4. [w EXCEPT !.put = Torn] = Put(w.at, Torn)
        BY <3>1, <4>3, TornFits
      <4>5. Has(Written(files, Put(w.at, Torn)), p, c)
        <5>1. Put(w.at, Torn).at = w.at /\ Put(w.at, Torn).put # Gone
          BY DEF Put, Torn, Gone
        <5> QED
          BY <1>1, <4>2, <5>1
      <4>6. disk'["build"] = Written(files, Put(w.at, Torn))
        BY <1>0, <3>1, <3>2, <4>4
      <4> QED
        BY <4>5, <4>6
    <3>3. CASE command.root # "build"
      BY <1>0, <3>1, <3>3
    <3> QED
      BY <3>2, <3>3
  <2> QED
    BY <2>1, <2>2
<1>6. CASE Fetch
  <2>1. command # Idle /\ command.kind = "extract"
    BY <1>6 DEF Fetch, Through
  <2>2. command.root # "build"
    BY <2>1, RunningFacts DEF CommandFit
  <2>3. UNCHANGED disk \/ disk' = [disk EXCEPT ![command.root] = Written(@, Put(<<"dist">>, Gone))]
    BY <1>6 DEF Fetch
  <2> QED
    BY <1>0, <2>2, <2>3
<1>7. CASE \E d \in Packaged : EditWorkspace(d)
  <2>1. PICK d \in Packaged : \E w : disk' = [disk EXCEPT ![d] = Written(@, w)]
    BY <1>7 DEF EditWorkspace
  <2>2. d # "build"
    BY NotBuild
  <2> QED
    BY <1>0, <2>1, <2>2
<1>8. CASE ~Step /\ ~Interrupt /\ ~Fetch /\ ~(\E d \in Packaged : EditWorkspace(d))
  <2>1. UNCHANGED disk
    BY <1>8 DEF Next, history, Build, Update, BeginLatest, Begin, Load, FinishBuild, FinishUpdate,
         Package, BuildWorkspace, Install, FinishInstall, LoadWorkspace, LoadWorkspaceFails, FinishWorkspace
  <2> QED
    BY <2>1
<1> QED
  BY <1>4, <1>5, <1>6, <1>7, <1>8

\* What is generated goes to paths of the network.
LEMMA GeneratedAt ==
  ASSUME NEW cfg \in Networks, NEW draw, NEW v \in Releases,
         NEW w \in ToSet(Generated(cfg, draw, <<"version", v>>))
  PROVE  w.at \in NetworkPaths /\ w.put # Gone
BY GeneratedFacts DEF Fit

\* What a build that succeeded has generated stays until the next build begins.
LEMMA BuiltStaysKeeps ==
  ASSUME IInv, WholeInv, Next, built' # Nothing
  PROVE  /\ BuildFit(built')
         /\ command' # Idle => command'.kind # "build"
         /\ GeneratedOn(disk'["build"], built'.network, built'.version)
<1>1. CASE FinishBuild
  <2>1. /\ command # Idle /\ command.kind = "build" /\ command.stage = "generate" /\ command.todo = <<>>
        /\ command' = Idle /\ disk' = disk
        /\ command.package.codes # <<>>
        /\ built' = [network |-> command.package, version |-> disk["build"][<<"version">>]]
    BY <1>1 DEF FinishBuild, Through
  <2>2. command.package \in Networks /\ Valid(command.package)
    BY <2>1 DEF WholeInv, Progress
  <2>3. PICK v \in Releases, draw \in Nat :
          /\ Has(disk["build"], <<"version">>, <<"version", v>>)
          /\ GeneratedBut(disk["build"], command.package, draw, <<"version", v>>, ToSet(command.todo))
    BY <2>1 DEF WholeInv, Progress
  <2>4. built'.network = command.package /\ built'.version = <<"version", v>>
    BY <2>1, <2>3 DEF Has
  <2>5. ToSet(command.todo) = {}
    BY <2>1, Tuples
  <2>6. BuildFit(built')
    BY <2>1, <2>2, <2>4 DEF BuildFit
  <2>7. GeneratedOn(disk'["build"], built'.network, built'.version)
    BY <2>1, <2>3, <2>4, <2>5 DEF GeneratedOn
  <2> QED
    BY <2>1, <2>6, <2>7
<1>2. CASE ~FinishBuild
  <2>1. built' = built /\ built # Nothing
    BY <1>2, OtherChanges
  <2>2. /\ BuildFit(built)
        /\ command # Idle => command.kind # "build"
        /\ GeneratedOn(disk["build"], built.network, built.version)
    BY <2>1 DEF WholeInv, BuiltStays
  <2>3. PICK v \in Releases : built.version = <<"version", v>>
    BY <2>2 DEF BuildFit
  <2>4. built.network \in Networks
    BY <2>2 DEF BuildFit
  <2>5. PICK draw \in Nat : GeneratedBut(disk["build"], built.network, draw, <<"version", v>>, {})
    BY <2>2, <2>3 DEF GeneratedOn
  <2>6. ASSUME NEW w \in ToSet(Generated(built.network, draw, <<"version", v>>))
        PROVE  Has(disk'["build"], w.at, w.put)
    <3>1. Has(disk["build"], w.at, w.put)
      BY <2>5 DEF GeneratedBut
    <3>2. w.at \in NetworkPaths
      BY <2>4, GeneratedAt
    <3> QED
      BY <2>2, <3>1, <3>2, BuildDisk
  <2>7. GeneratedOn(disk'["build"], built.network, <<"version", v>>)
    BY <2>6 DEF GeneratedOn, GeneratedBut
  <2>8. command' # Idle => command'.kind # "build"
    <3>1. CASE command' = Idle
      BY <3>1
    <3>2. CASE Load
      BY <2>2, <3>2 DEF Load, Through
    <3>3. CASE Step \/ Fetch \/ LoadWorkspace
      <4>1. command # Idle
        BY <3>3 DEF Step, Fetch, LoadWorkspace, Through
      <4>2. CommandFit(command)
        BY <4>1, RunningFacts
      <4>3. CASE Step
        BY <2>2, <4>1, <4>2, <4>3, CommandFacts DEF Step
      <4>4. CASE Fetch
        <5>1. command.kind = "extract" /\ command \in [kind : Kinds \cup {"install"}, stage : {"source", "generate"}, root : Roots,
                      todo : {command.todo}, package : {command.package}]
          BY <4>2, <4>4 DEF Fetch, CommandFit
        <5>2. command' = Idle \/ \E todo : command' = [command EXCEPT !.kind = "install", !.todo = todo]
          BY <4>4 DEF Fetch
        <5> QED
          BY <5>1, <5>2
      <4>5. CASE LoadWorkspace
        <5>1. command.kind = "workspace"
          BY <4>5 DEF LoadWorkspace
        <5>2. PICK package, todo : command' = Turned(command, package, todo)
          BY <4>5 DEF LoadWorkspace, Turned
        <5>3. command.kind \in {"build", "workspace"}
          BY <5>1
        <5>4. Turned(command, package, todo).kind = command.kind
          BY <4>2, <5>3, TurnedFacts
        <5> QED
          BY <5>1, <5>2, <5>4
      <4> QED
        BY <3>3, <4>3, <4>4, <4>5
    <3>4. CASE Begun
      BY <2>1, <3>4 DEF Begun, Begins
    <3> QED
      BY <3>1, <3>2, <3>3, <3>4, CommandChanges
  <2> QED
    BY <2>1, <2>2, <2>3, <2>7, <2>8
<1> QED
  BY <1>1, <1>2

\* A write of the generator: one less to be done.
LEMMA GenerateStep ==
  ASSUME NEW files, NEW cfg \in Networks, Valid(cfg), Unambiguous(cfg), cfg.codes # <<>>,
         NEW draw, NEW v \in Releases, NEW todo, NEW rest, NEW w, todo = rest \cup {w},
         GeneratedBut(files, cfg, draw, <<"version", v>>, todo),
         Has(files, <<"version">>, <<"version", v>>)
  PROVE  /\ GeneratedBut(Written(files, w), cfg, draw, <<"version", v>>, rest)
         /\ Has(Written(files, w), <<"version">>, <<"version", v>>)
<1> DEFINE all == ToSet(Generated(cfg, draw, <<"version", v>>))
           new == Written(files, w)
<1>1. w \in all /\ rest \subseteq all /\ \A x \in all : Has(files, x.at, x.put) \/ x \in rest \cup {w}
  BY DEF GeneratedBut
<1>2. w.at \in NetworkPaths /\ w.put # Gone
  BY <1>1, GeneratedAt
<1>3. /\ DOMAIN new = DOMAIN files \cup {w.at} /\ new[w.at] = w.put
      /\ \A p \in DOMAIN files : p # w.at => new[p] = files[p]
  BY <1>2, PutWrite
<1>4. \A x \in all : x.at = w.at => x = w
  BY <1>1, GeneratedOnce
<1>5. w.at # <<"version">>
  <2>1. w.at[1] # "version" /\ <<"version">>[1] = "version"
    BY <1>2, NetworkPathFacts
  <2> QED
    BY <2>1
<1> HIDE DEF all, new
<1>6. ASSUME NEW x \in all PROVE Has(new, x.at, x.put) \/ x \in rest
  <2>1. CASE x = w
    BY <1>3, <2>1 DEF Has
  <2>2. CASE x # w
    BY <1>1, <1>3, <1>4, <2>2 DEF Has
  <2> QED
    BY <2>1, <2>2
<1>7. Has(new, <<"version">>, <<"version", v>>)
  BY <1>3, <1>5 DEF Has
<1> QED
  BY <1>1, <1>6, <1>7 DEF GeneratedBut, all, new

\* A write of a running build takes it off the list and undoes no earlier one:
\* no two writes of it are at the same path.
LEMMA ProgressKeeps ==
  ASSUME NamesApart, IInv, WholeInv, Next
  PROVE  Progress'
<1> SUFFICES ASSUME command' # Idle, command'.kind = "build", command'.stage = "generate"
    PROVE  /\ command'.package \in Networks /\ Valid(command'.package)
           /\ command'.package.codes # <<>> =>
                \E v \in Releases, draw \in Nat :
                  /\ Has(disk'["build"], <<"version">>, <<"version", v>>)
                  /\ GeneratedBut(disk'["build"], command'.package, draw, <<"version", v>>, ToSet(command'.todo))
  BY DEF Progress
<1>1. CASE Step
  <2> DEFINE c == command
             w == Head(c.todo)
             rest == Tail(c.todo)
             files == disk["build"]
  <2>1. /\ c # Idle /\ c.todo # <<>> /\ command' = [c EXCEPT !.todo = rest]
        /\ disk' = [disk EXCEPT ![c.root] = Written(@, w)]
    BY <1>1 DEF Step
  <2>2. CommandFit(c) /\ Writable(c.todo, disk[c.root], PathsOf(c.root))
    BY <2>1, RunningFacts
  <2>3. ToSet(c.todo) = ToSet(rest) \cup {w}
    BY <2>1, <2>2, WritableHead
  <2> HIDE DEF rest
  <2>4. /\ command'.todo = rest /\ command'.kind = c.kind
        /\ command'.stage = c.stage /\ command'.package = c.package
    BY <2>1, <2>2, CommandFacts
  <2> HIDE DEF w
  <2>5. c.root = "build" /\ disk'["build"] = Written(files, w)
    <3>1. c.root = "build"
      BY <2>2, <2>4 DEF CommandFit
    <3>2. "build" \in DOMAIN disk
      BY DEF IInv, Directories, Roots
    <3> QED
      BY <2>1, <3>1, <3>2
  <2>6. c.package \in Networks /\ Valid(c.package)
    BY <2>1, <2>4 DEF WholeInv, Progress
  <2>7. ASSUME c.package.codes # <<>>
        PROVE  \E v \in Releases, draw \in Nat :
                  /\ Has(disk'["build"], <<"version">>, <<"version", v>>)
                  /\ GeneratedBut(disk'["build"], c.package, draw, <<"version", v>>, ToSet(rest))
    <3>1. PICK v \in Releases, draw \in Nat :
            /\ Has(files, <<"version">>, <<"version", v>>)
            /\ GeneratedBut(files, c.package, draw, <<"version", v>>, ToSet(c.todo))
      BY <2>1, <2>4, <2>7 DEF WholeInv, Progress
    <3>2. Unambiguous(c.package)
      BY <2>6, <2>7 DEF NamesApart
    <3> HIDE DEF files, c
    <3>3. /\ GeneratedBut(Written(files, w), c.package, draw, <<"version", v>>, ToSet(rest))
          /\ Has(Written(files, w), <<"version">>, <<"version", v>>)
      BY <2>3, <2>6, <2>7, <3>1, <3>2, GenerateStep
    <3> QED
      BY <2>5, <3>3
  <2> QED
    BY <2>4, <2>6, <2>7
<1>2. CASE Load
  <2>1. /\ command # Idle /\ command.stage = "source" /\ command.todo = <<>> /\ command.kind = "build"
        /\ disk' = disk
    BY <1>2 DEF Load, Through
  <2>2. CommandFit(command) /\ command.root = "build"
    BY <2>1, RunningFacts DEF CommandFit
  <2>3. PICK v \in Releases : Downloading(disk["build"], <<>>, v)
    BY <2>1, <2>2 DEF IInv, Sourced, SourcedBy
  <2>4. Has(disk["build"], <<"version">>, <<"version", v>>)
    BY <2>3 DEF Downloading, OneDist
  <2>5. PICK cfg \in Networks :
        command' = IF Valid(cfg)
                   THEN [command EXCEPT !.stage = "generate", !.package = cfg,
                            !.todo = Generated(cfg, commands["build"], disk["build"][<<"version">>])]
                   ELSE Idle
    BY <1>2 DEF Load
  <2> DEFINE draw == commands["build"]
             todo == Generated(cfg, draw, <<"version", v>>)
  <2>6. Valid(cfg) /\ command' = Turned(command, cfg, todo)
    BY <2>4, <2>5 DEF Has, Turned
  <2>7. draw \in Nat
    BY DEF IInv, Counters, Kinds
  <2> HIDE DEF draw
  <2>8. command'.todo = todo /\ command'.package = cfg
    <3>1. command.kind \in {"build", "workspace"}
      BY <2>1
    <3> HIDE DEF todo
    <3> QED
      BY <2>2, <2>6, <3>1, TurnedFacts
  <2>9. GeneratedBut(disk["build"], cfg, draw, <<"version", v>>, ToSet(todo))
    BY DEF GeneratedBut
  <2> HIDE DEF todo
  <2> QED
    BY <2>1, <2>4, <2>6, <2>7, <2>8, <2>9
<1>3. CASE Fetch
  <2>1. command # Idle /\ command.kind = "extract"
    BY <1>3 DEF Fetch, Through
  <2>2. command \in [kind : Kinds \cup {"install"}, stage : {"source", "generate"}, root : Roots,
                     todo : {command.todo}, package : {command.package}]
    BY <2>1, RunningFacts DEF CommandFit
  <2>3. command' = Idle \/ \E todo : command' = [command EXCEPT !.kind = "install", !.todo = todo]
    BY <1>3 DEF Fetch
  <2> QED
    BY <2>2, <2>3
<1>4. CASE LoadWorkspace
  <2>1. command # Idle /\ command.kind = "workspace"
    BY <1>4 DEF LoadWorkspace, Through
  <2>2. PICK package, todo : command' = Turned(command, package, todo)
    BY <1>4 DEF LoadWorkspace, Turned
  <2>3. CommandFit(command) /\ command.kind \in {"build", "workspace"}
    BY <2>1, RunningFacts
  <2>4. Turned(command, package, todo).kind = command.kind
    BY <2>3, TurnedFacts
  <2> QED
    BY <2>1, <2>2, <2>4
<1>5. CASE Begun
  BY <1>5 DEF Begun, Begins
<1> QED
  BY <1>1, <1>2, <1>3, <1>4, <1>5, CommandChanges

\* A package takes the organization of a build that had succeeded whole.
LEMMA PackageIsWhole ==
  ASSUME IInv, WholeInv, NEW d \in Packaged, built # Nothing,
         NEW org \in ToSet(built.network.orgs), Dir[org.name] = d
  PROVE  OrgHas(FilesOf(disk["build"], d), <<>>, org, built.network, built.version)
<1> DEFINE cfg == built.network
           files == disk["build"]
<1>1. BuildFit(built) /\ GeneratedOn(files, cfg, built.version)
  BY DEF WholeInv, BuiltStays
<1>2. PICK v \in Releases : built.version = <<"version", v>>
  BY <1>1 DEF BuildFit
<1>3. PICK draw \in Nat : \A w \in ToSet(Generated(cfg, draw, <<"version", v>>)) : Has(files, w.at, w.put)
  BY <1>1, <1>2 DEF GeneratedOn, GeneratedBut
<1>4. cfg \in Networks
  BY <1>1 DEF BuildFit
<1>5. PICK i \in 1..Len(cfg.orgs) : cfg.orgs[i] = org
  BY <1>4, NetworkTypes, ListFacts
<1>6. org \in Orgs
  BY <1>4, NetworkTypes, ListOf
<1>7. Len(cfg.orgs) \in Nat
  BY <1>4, NetworkTypes, ListFacts
<1> HIDE DEF cfg
<1>8. ToSet(OrgFiles(org, cfg, <<draw, i>>, <<"version", v>>)) \subseteq ToSet(Generated(cfg, draw, <<"version", v>>))
  BY <1>4, <1>5, GeneratedFacts DEF OrgFilesOf
<1>9. OrgHas(files, OrgHome(org), org, cfg, <<"version", v>>)
  <2>1. \A w \in OrgEntries(OrgHome(org), org, cfg, <<draw, i>>, <<"version", v>>) : Has(files, w.at, w.put)
    BY <1>3, <1>6, <1>8, GeneratedEntries
  <2>2. <<draw, i>> \in Nat \X Nat
    BY <1>7
  <2> QED
    BY <2>1, <2>2 DEF OrgHas
<1>10. FilesFit(files, BuildPaths)
  BY DEF IInv, Directories, Roots, PathsOf
<1> HIDE DEF files
<1>11. OrgHas(FilesOf(files, Dir[org.name]), <<>>, org, cfg, <<"version", v>>)
  BY <1>6, <1>9, <1>10, PackagedHas
<1> QED
  BY <1>2, <1>11 DEF files, cfg

\* A package stays whole in its archive, on its way to the workspace, and there.
LEMMA PackagesWholeKeeps ==
  ASSUME IInv, WholeInv, Next
  PROVE  PackagesWhole'
<1>1. \A key \in DOMAIN packages' : PackageWhole(packages'[key])
  <2>1. CASE packages' = packages
    BY <2>1 DEF WholeInv, PackagesWhole
  <2>2. CASE \E d \in Packaged : Package(d)
    <3>1. PICK d \in Packaged : Package(d)
      BY <2>2
    <3> DEFINE files == FilesOf(disk["build"], d)
               key == <<d, files[<<"version">>]>>
    <3>2. PICK whole \in BOOLEAN :
            packages' = Entered(packages, key, [dir |-> d, files |-> files, whole |-> whole, from |-> built])
      BY <3>1 DEF Package, FilesOf, ShortOf
    <3> DEFINE k == [dir |-> d, files |-> files, whole |-> whole, from |-> built]
    <3>3. PackageWhole(k)
      <4>1. k.from = built /\ k.dir = d /\ k.files = files
        OBVIOUS
      <4> HIDE DEF k, files
      <4>2. ASSUME built # Nothing, NEW org \in ToSet(built.network.orgs), Dir[org.name] = d
            PROVE  OrgHas(files, <<>>, org, built.network, built.version)
        BY <4>2, PackageIsWhole DEF files
      <4>3. built # Nothing => BuildFit(built)
        BY DEF WholeInv, BuiltStays
      <4> QED
        BY <4>1, <4>2, <4>3 DEF PackageWhole
    <3> HIDE DEF k, files
    <3>4. /\ DOMAIN packages' = DOMAIN packages \cup {key} /\ packages'[key] = k
          /\ \A other \in DOMAIN packages : other # key => packages'[other] = packages[other]
      BY <3>2 DEF Entered, k
    <3> HIDE DEF key
    <3> QED
      BY <3>3, <3>4 DEF WholeInv, PackagesWhole
  <2> QED
    BY <2>1, <2>2, OtherChanges
<1>2. ASSUME command' # Idle, command'.kind \in {"extract", "install"}
      PROVE  PackageWhole(command'.package)
  <2>1. CASE Step
    <3>1. /\ command # Idle /\ command' = [command EXCEPT !.todo = Tail(command.todo)]
      BY <2>1 DEF Step
    <3>2. CommandFit(command)
      BY <3>1, RunningFacts
    <3>3. command'.kind = command.kind /\ command'.package = command.package
      BY <3>1, <3>2, CommandFacts
    <3> QED
      BY <1>2, <3>1, <3>3 DEF WholeInv, PackagesWhole
  <2>2. CASE Fetch
    <3>1. command # Idle /\ command.kind = "extract"
      BY <2>2 DEF Fetch, Through
    <3>2. command \in [kind : Kinds \cup {"install"}, stage : {"source", "generate"}, root : Roots,
                       todo : {command.todo}, package : {command.package}]
      BY <3>1, RunningFacts DEF CommandFit
    <3>3. PICK todo : command' = [command EXCEPT !.kind = "install", !.todo = todo]
      BY <1>2, <2>2 DEF Fetch
    <3>4. command'.package = command.package
      BY <3>2, <3>3
    <3> QED
      BY <3>1, <3>4 DEF WholeInv, PackagesWhole
  <2>3. CASE Load \/ LoadWorkspace
    <3>1. command # Idle /\ command.kind \in {"build", "workspace"}
      BY <2>3 DEF Load, LoadWorkspace, Through
    <3>2. PICK package, todo : command' = Turned(command, package, todo)
      <4>1. CASE Load
        BY <1>2, <4>1 DEF Load, Turned
      <4>2. CASE LoadWorkspace
        BY <4>2 DEF LoadWorkspace, Turned
      <4> QED
        BY <2>3, <4>1, <4>2
    <3>3. CommandFit(command)
      BY <3>1, RunningFacts
    <3>4. Turned(command, package, todo).kind = command.kind
      BY <3>1, <3>3, TurnedFacts
    <3> QED
      BY <1>2, <3>1, <3>2, <3>4
  <2>4. CASE Begun
    <3>1. PICK kind, root, todo, package : Begins(kind, root, todo, package)
      BY <2>4 DEF Begun
    <3>2. command'.kind = kind /\ command'.package = package
      BY <3>1 DEF Begins
    <3>3. kind = "extract"
      BY <1>2, <3>1, <3>2 DEF Begins, Kinds
    <3> QED
      BY <3>1, <3>2, <3>3 DEF Begins, WholeInv, PackagesWhole
  <2> QED
    BY <1>2, <2>1, <2>2, <2>3, <2>4, CommandChanges
<1>3. ASSUME installed' # Nothing PROVE PackageWhole(installed')
  <2>1. CASE FinishInstall
    <3>1. command # Idle /\ command.kind = "install" /\ installed' = command.package
      BY <2>1 DEF FinishInstall, Through
    <3> QED
      BY <3>1 DEF WholeInv, PackagesWhole
  <2>2. CASE ~FinishInstall
    <3>1. installed' = installed
      BY <1>3, <2>2, OtherChanges
    <3> QED
      BY <1>3, <3>1 DEF WholeInv, PackagesWhole
  <2> QED
    BY <2>1, <2>2
<1> QED
  BY <1>1, <1>2, <1>3 DEF PackagesWhole

\* Every step keeps it, when the names of no network collide.
LEMMA NextWhole ==
  ASSUME NamesApart
  PROVE  IInv /\ WholeInv /\ [Next]_vars => WholeInv'
<1>1. ASSUME IInv, WholeInv, Next PROVE WholeInv'
  <2>1. BuiltStays'
    BY <1>1, BuiltStaysKeeps DEF BuiltStays
  <2> QED
    BY <1>1, <2>1, ProgressKeeps, PackagesWholeKeeps DEF WholeInv
<1>2. ASSUME WholeInv, UNCHANGED vars PROVE WholeInv'
  BY <1>2 DEF vars, WholeInv, Progress, BuiltStays, PackagesWhole
<1> QED
  BY <1>1, <1>2

\* What the compose file lists: the address of each node and where it is built.
LEMMA ComposeLists ==
  ASSUME NEW cfg \in Networks
  PROVE  ToSet(Compose(cfg).put[2]) =
           {[address |-> Address(m), home |-> NodeHome(m)] : m \in ToSet(Members(cfg))}
<1> DEFINE all == Members(cfg)
           N == Len(all)
           S == {[address |-> Address(m), home |-> NodeHome(m)] : m \in ToSet(all)}
           s == [i \in 1..N |-> [address |-> Address(all[i]), home |-> NodeHome(all[i])]]
<1>1. /\ N \in Nat /\ DOMAIN all = 1..N
      /\ \A i \in 1..N : all[i] \in ToSet(all)
      /\ \A m \in ToSet(all) : \E i \in 1..N : all[i] = m
  <2>1. List(all)
    BY MembersFacts
  <2> HIDE DEF all
  <2> QED
    BY <2>1, ListFacts
<1>2. Compose(cfg).put[2] = s
  BY <1>1 DEF Compose, Put
<1>3. s = [i \in 1..N |-> s[i]] /\ \A i \in 1..N : s[i] \in S
  BY <1>1
<1>4. \A x \in S : \E i \in 1..N : s[i] = x
  BY <1>1
<1> HIDE DEF s, S, N
<1>5. s \in Seq(S) /\ Len(s) = N
  BY <1>1, <1>3
<1>6. List(s) /\ ToSet(s) \subseteq S
  BY <1>5, ListOf
<1>7. S \subseteq ToSet(s)
  BY <1>4, <1>5, <1>6, ListFacts
<1> QED
  BY <1>2, <1>6, <1>7 DEF S

\* The config.yaml of a node, in a build directory that is whole.
LEMMA ConfigThere ==
  ASSUME NEW cfg \in Networks, NEW files, NEW version,
         \A org \in ToSet(cfg.orgs) : OrgWhole(files, OrgHome(org), org, cfg, version),
         NEW m \in ToSet(Members(cfg))
  PROVE  /\ files[NodeHome(m) \o <<"config">>][2].address = Address(m)
         /\ files[NodeHome(m) \o <<"config">>][2].peers = Peers(cfg, m)
         /\ files[NodeHome(m) \o <<"config">>][2].listen = m.node.port
<1>1. PICK o \in ToSet(cfg.orgs) : \E j \in 1..Len(o.nodes) : m = Me(o, j)
  BY MemberFacts
<1>2. PICK j \in 1..Len(o.nodes) : m = Me(o, j)
  BY <1>1
<1>3. o.nodes[j] \in ToSet(o.nodes)
  <2>1. o \in Orgs
    BY NetworkTypes, ListOf
  <2> QED
    BY <2>1, OrgTypes, ListFacts
<1>4. m = [org |-> o, node |-> o.nodes[j]] /\ m.org = o /\ m.node = o.nodes[j]
  BY <1>2 DEF Me
<1>5. NodeWhole(files, OrgHome(o) \o <<"nodes", o.nodes[j].id>>, m, Peers(cfg, m), NodeHome(m))
  BY <1>3, <1>4 DEF OrgWhole
<1>6. NodeHome(m) = OrgHome(o) \o <<"nodes", o.nodes[j].id>>
  BY <1>4 DEF NodeHome
<1>7. files[NodeHome(m) \o <<"config">>] = <<"config",
           [org |-> m.org.name, id |-> m.node.id, address |-> Address(m),
            listen |-> m.node.port, peers |-> Peers(cfg, m)]>>
  BY <1>5, <1>6 DEF NodeWhole
<1> QED
  BY <1>7

\* Addresses agree in a network that is whole.
LEMMA Agree ==
  ASSUME NEW cfg \in Networks, Valid(cfg), Unambiguous(cfg), NEW files, NEW version,
         \A org \in ToSet(cfg.orgs) : OrgWhole(files, OrgHome(org), org, cfg, version),
         files[<<"compose">>] = Compose(cfg).put
  PROVE  AddressesAgree(files, cfg)
<1> DEFINE all == ToSet(Members(cfg))
           Of(m) == files[NodeHome(m) \o <<"config">>][2]
<1>1. \A m \in all : Of(m).address = Address(m) /\ Of(m).peers = Peers(cfg, m) /\ Of(m).listen = m.node.port
  BY ConfigThere
<1>2. \A m, n \in all : Address(m) = Address(n) => m = n
  BY DEF Address, Unambiguous
<1>3. ASSUME NEW m \in all PROVE Address(m)[2] = m.node.port
  BY DEF Address
<1> HIDE DEF Of, all
<1>4. ASSUME NEW m \in all
      PROVE  {x \in all : Of(m).address \in ToSet(Of(x).peers)} = all \ {m}
  <2>1. ASSUME NEW x \in all PROVE Of(m).address \in ToSet(Of(x).peers) <=> x # m
    <3>1. ToSet(Of(x).peers) = {Address(y) : y \in all \ {x}}
      BY <1>1, PeersFacts DEF all
    <3>2. Address(m) \in {Address(y) : y \in all \ {x}} <=> x # m
      BY <1>2
    <3> QED
      BY <1>1, <3>1, <3>2
  <2> QED
    BY <2>1
<1>5. ASSUME NEW m \in all
      PROVE  \E s \in ToSet(files[<<"compose">>][2]) :
                   /\ s.address = Of(m).address /\ s.home = NodeHome(m)
                   /\ s.address[2] = Of(m).listen
  <2> DEFINE s == [address |-> Address(m), home |-> NodeHome(m)]
  <2>1. s \in ToSet(files[<<"compose">>][2])
    BY ComposeLists DEF all
  <2>2. s.address = Address(m) /\ s.home = NodeHome(m)
    OBVIOUS
  <2> HIDE DEF s
  <2> QED
    BY <1>1, <1>3, <2>1, <2>2
<1>6. ASSUME NEW m \in all PROVE Lookup(cfg, m.node.port) = Of(m).address
  BY <1>1, LookupFacts DEF all
<1> QED
  BY <1>4, <1>5, <1>6 DEF AddressesAgree, all, Of

\* What BuiltWhole says follows: all of the generator's writes are there.
LEMMA BuiltIsWhole ==
  ASSUME NamesApart, WholeInv
  PROVE  BuiltWhole
<1> DEFINE files == disk["build"]
           cfg == built.network
<1> SUFFICES ASSUME built # Nothing
    PROVE  /\ \A org \in ToSet(cfg.orgs) : OrgWhole(files, OrgHome(org), org, cfg, built.version)
           /\ Torn \notin {files[<<"abi">>], files[<<"compose">>]}
           /\ \A c \in ToSet(cfg.codes) :
                   /\ files[<<"chaincodes", c.base>>] = <<"code", c>>
                   /\ c.contract \in files[<<"abi">>][2]
           /\ {s.home : s \in ToSet(files[<<"compose">>][2])} = {NodeHome(m) : m \in ToSet(Members(cfg))}
           /\ AddressesAgree(files, cfg)
  BY DEF BuiltWhole
<1>1. BuildFit(built) /\ GeneratedOn(files, cfg, built.version)
  BY DEF WholeInv, BuiltStays
<1>2. PICK v \in Releases : built.version = <<"version", v>>
  BY <1>1 DEF BuildFit
<1>3. PICK draw \in Nat : \A w \in ToSet(Generated(cfg, draw, <<"version", v>>)) : Has(files, w.at, w.put)
  BY <1>1, <1>2 DEF GeneratedOn, GeneratedBut
<1>4. cfg \in Networks /\ Valid(cfg) /\ cfg.codes # <<>> /\ Unambiguous(cfg)
  BY <1>1 DEF BuildFit, NamesApart
<1> HIDE DEF files, cfg
<1>5. ToSet(Generated(cfg, draw, <<"version", v>>)) =
        (UNION {ToSet(OrgFilesOf(cfg, draw, <<"version", v>>, i)) : i \in 1..Len(cfg.orgs)})
          \cup ToSet(Contracts(cfg.codes)) \cup {Compose(cfg)}
  BY <1>4, GeneratedFacts
<1>6. ASSUME NEW at, NEW c, Put(at, c) \in ToSet(Generated(cfg, draw, <<"version", v>>)) PROVE files[at] = c
  <2>1. Put(at, c).at = at /\ Put(at, c).put = c
    BY DEF Put
  <2> QED
    BY <1>3, <1>6, <2>1 DEF Has
<1>7. ASSUME NEW org \in ToSet(cfg.orgs) PROVE OrgWhole(files, OrgHome(org), org, cfg, <<"version", v>>)
  <2>1. PICK i \in 1..Len(cfg.orgs) : cfg.orgs[i] = org
    BY <1>4, NetworkTypes, ListFacts
  <2>2. org \in Orgs /\ Len(cfg.orgs) \in Nat
    BY <1>4, NetworkTypes, ListOf, ListFacts
  <2>3. ToSet(OrgFiles(org, cfg, <<draw, i>>, <<"version", v>>)) \subseteq ToSet(Generated(cfg, draw, <<"version", v>>))
    BY <1>5, <2>1 DEF OrgFilesOf
  <2>4. \A w \in OrgEntries(OrgHome(org), org, cfg, <<draw, i>>, <<"version", v>>) : Has(files, w.at, w.put)
    BY <1>3, <2>2, <2>3, GeneratedEntries
  <2>5. <<draw, i>> \in Nat \X Nat
    BY <2>2
  <2>6. OrgHas(files, OrgHome(org), org, cfg, <<"version", v>>)
    BY <2>4, <2>5 DEF OrgHas
  <2> QED
    BY <2>2, <2>6, HasWhole
<1>8. ToSet(Contracts(cfg.codes)) =
        {Put(<<"chaincodes", c.base>>, <<"code", c>>) : c \in ToSet(cfg.codes)}
          \cup {Put(<<"abi">>, <<"abi", {c.contract : c \in ToSet(cfg.codes)}>>)}
  BY <1>4, NetworkTypes, ContractsFacts
<1>9. ASSUME NEW c \in ToSet(cfg.codes)
      PROVE  files[<<"chaincodes", c.base>>] = <<"code", c>> /\ c.contract \in files[<<"abi">>][2]
  <2>1. files[<<"chaincodes", c.base>>] = <<"code", c>>
    <3>1. Put(<<"chaincodes", c.base>>, <<"code", c>>) \in ToSet(Contracts(cfg.codes))
      BY <1>8
    <3>2. Put(<<"chaincodes", c.base>>, <<"code", c>>) \in ToSet(Generated(cfg, draw, <<"version", v>>))
      BY <1>5, <3>1, Zenon
    <3> QED
      BY <1>6, <3>2, Zenon
  <2>2. files[<<"abi">>] = <<"abi", {e.contract : e \in ToSet(cfg.codes)}>>
    BY <1>5, <1>6, <1>8
  <2> QED
    BY <2>1, <2>2
<1>10. files[<<"compose">>] = Compose(cfg).put
  BY <1>3, <1>5, ComposeFacts DEF Has
<1>11. {s.home : s \in ToSet(files[<<"compose">>][2])} = {NodeHome(m) : m \in ToSet(Members(cfg))}
  <2>1. ToSet(files[<<"compose">>][2]) = {[address |-> Address(m), home |-> NodeHome(m)] : m \in ToSet(Members(cfg))}
    BY <1>4, <1>10, ComposeLists
  <2> DEFINE At(m) == [address |-> Address(m), home |-> NodeHome(m)]
  <2>2. ASSUME NEW m \in ToSet(Members(cfg)) PROVE \E s \in ToSet(files[<<"compose">>][2]) : s.home = NodeHome(m)
    <3>1. At(m) \in ToSet(files[<<"compose">>][2]) /\ At(m).home = NodeHome(m)
      BY <2>1
    <3> QED
      BY <3>1
  <2>3. ASSUME NEW s \in ToSet(files[<<"compose">>][2]) PROVE \E m \in ToSet(Members(cfg)) : s.home = NodeHome(m)
    <3>1. PICK m \in ToSet(Members(cfg)) : s = At(m)
      BY <2>1
    <3>2. s.home = NodeHome(m)
      BY <3>1
    <3> QED
      BY <3>2
  <2> QED
    BY <2>2, <2>3
<1>12. AddressesAgree(files, cfg)
  BY <1>4, <1>7, <1>10, Agree
<1>13. Torn \notin {files[<<"abi">>], files[<<"compose">>]}
  <2>1. Put(<<"abi">>, <<"abi", {c.contract : c \in ToSet(cfg.codes)}>>) \in ToSet(Generated(cfg, draw, <<"version", v>>))
    BY <1>5, <1>8, Zenon
  <2>2. files[<<"abi">>] = <<"abi", {c.contract : c \in ToSet(cfg.codes)}>>
    BY <1>6, <2>1, Zenon
  <2>3. Compose(cfg).put[1] = "compose"
    BY DEF Compose, Put
  <2>4. files[<<"abi">>] # Torn
    BY <2>2 DEF Torn
  <2>5. files[<<"compose">>] # Torn
    BY <1>10, <2>3 DEF Torn
  <2> QED
    BY <2>4, <2>5
<1> QED
  BY <1>2, <1>7, <1>9, <1>11, <1>12, <1>13

\* What InstalledWhole says follows from the package and the release being there.
LEMMA InstalledIsWhole ==
  ASSUME IInv, PackagesWhole
  PROVE  InstalledWhole
<1> DEFINE k == installed
           files == disk[k.dir]
<1> SUFFICES ASSUME k # Nothing
    PROVE  /\ \A p \in DOMAIN k.files : files[p] = k.files[p]
           /\ {<<"version", v>> : v \in Sources(files)} = {files[<<"version">>]}
           /\ k.from # Nothing =>
                   \A org \in ToSet(k.from.network.orgs) :
                       Dir[org.name] = k.dir =>
                           OrgWhole(files, <<>>, org, k.from.network, k.from.version)
  BY DEF InstalledWhole
<1>1. InstalledOn(k, files)
  BY DEF IInv, Installed
<1>2. \A p \in DOMAIN k.files : Has(files, p, k.files[p])
  BY <1>1 DEF InstalledOn
<1>3. PICK v \in Releases : OneDist(files, v) /\ <<"dist", v>> \in DOMAIN files
  BY <1>1 DEF InstalledOn
<1>4. Sources(files) = {v}
  BY <1>3 DEF OneDist, Sources
<1>5. files[<<"version">>] = <<"version", v>>
  BY <1>3 DEF OneDist, Has
<1>6. ASSUME k.from # Nothing, NEW org \in ToSet(k.from.network.orgs), Dir[org.name] = k.dir
      PROVE  OrgWhole(files, <<>>, org, k.from.network, k.from.version)
  <2>1. /\ BuildFit(k.from)
        /\ OrgHas(k.files, <<>>, org, k.from.network, k.from.version)
    BY <1>6 DEF PackagesWhole, PackageWhole
  <2>2. org \in Orgs
    BY <2>1, NetworkTypes, ListOf DEF BuildFit
  <2> HIDE DEF files, k
  <2>3. OrgHas(files, <<>>, org, k.from.network, k.from.version)
    BY <1>2, <2>1, HasWithin
  <2> QED
    BY <2>2, <2>3, HasWhole
<1> QED
  BY <1>2, <1>4, <1>5, <1>6 DEF Has

\* A build that succeeds (generateArtifacts in utils.go) leaves every organization
\* of its network with its keys, settings and nodes, every chaincode, and a
\* docker-compose.yaml of these nodes, each under the address its peers have for
\* it; also over what builds that were cut short left there.  It takes networks
\* whose names stay apart on the disk.
THEOREM BuildsWhole ==
  ASSUME NamesApart
  PROVE  Spec => []BuiltWhole
<1>1. Spec => []WholeInv
  BY InitWhole, NextWhole, InvariantHolds, PTL DEF Spec
<1>2. WholeInv => BuiltWhole
  BY BuiltIsWhole
<1> QED
  BY <1>1, <1>2, PTL

\* An install that succeeds (installOrganization in cmd_org.go) leaves every file
\* of its package and the release that .version names, and all of the organization
\* when the package was made from a build that had succeeded; also over what an
\* install that was cut short left there.
THEOREM InstallsWhole ==
  ASSUME NamesApart
  PROVE  Spec => []InstalledWhole
<1>1. Spec => []WholeInv
  BY InitWhole, NextWhole, InvariantHolds, PTL DEF Spec
<1>2. IInv /\ WholeInv => InstalledWhole
  BY InstalledIsWhole DEF WholeInv
<1> QED
  BY <1>1, <1>2, InvariantHolds, PTL

-----------------------------------------------------------------------------
(* The page and the terminal client: what a user is shown, and what has    *)
(* run.  What is on the connection at each await (LinesFit), and that a    *)
(* challenge belongs to the attempt that asked for it (ChallengesOwned),   *)
(* are what SuccessRan and KeysKept rest on: neither is inductive alone.   *)

\* What is on the connection of an attempt fits the await it is at.
LinesFit ==
  \A a \in Attempts :
    /\ stage[a] \in {"idle", "signing"} => line[a] = "none"
    /\ line[a] = "NONCE" => stage[a] \in {"nonce", "dropped"}
    /\ line[a] = "EXECUTE" => stage[a] \in {"execute", "dropped"}

\* An attempt has its challenge for the keys it asked with, and signs no other.
ChallengesOwned ==
  /\ \A a \in DOMAIN challenges : stage[a] # "idle" /\ challenges[a] = asker[a]
  /\ \A a \in Attempts : message[a].nonce \in {a, NoChallenge}

\* What has run was sent, and the answer Success to a command tells that it ran.
RanSent ==
  /\ \A a \in ran : stage[a] \notin {"idle", "nonce", "signing"}
  /\ \A a \in Attempts : stage[a] = "execute" /\ line[a] = "Success" => a \in ran

\* What the page, the terminals and the node keep between them.
ConsoleInv == ConsoleTypeOK /\ LinesFit /\ ChallengesOwned /\ RanSent /\ SuccessRan /\ KeysKept

USE ConsoleAssumption DEF Attempts

\* Changing fields of a command leaves a command.
LEMMA ArgsFields ==
  ASSUME NEW c \in Command, NEW g \in Functions
  PROVE  /\ [c EXCEPT !.args = g] \in Command
         /\ [c EXCEPT !.args = g].nonce = c.nonce
BY DEF Command

\* So does filling in the test pair and a challenge.
LEMMA ContinueFields ==
  ASSUME NEW c \in Command, NEW p \in Pairs \cup {NoPair}, NEW n \in Attempts
  PROVE  /\ [c EXCEPT !.pair = p, !.nonce = n] \in Command
         /\ [c EXCEPT !.pair = p, !.nonce = n].nonce = n
BY DEF Command

\* Nobody has clicked and nothing is sent.
LEMMA ConsoleInvInit == ConsoleInit => ConsoleInv
BY DEF ConsoleInit, ConsoleInv, ConsoleTypeOK, LinesFit, ChallengesOwned, RanSent, SuccessRan, KeysKept, Place,
       Command, Blank

-----------------------------------------------------------------------------
\* The user changes keys and choices, or leaves the page.
LEMMA UserInv == ASSUME ConsoleInv, User PROVE ConsoleInv'
<1>1. CASE (\E p \in Pairs : SaveAuth(p)) \/ Logout \/ (\E f \in Functions : Select(f))
  BY <1>1 DEF ConsoleInv, ConsoleTypeOK, LinesFit, ChallengesOwned, RanSent, SuccessRan, KeysKept, SaveAuth,
              Logout, Select, nodeVars
<1>2. CASE Reload
  <2>1. \A a \in Attempts : stage'[a] \in {stage[a], "dropped"} /\ (stage[a] = "idle" => stage'[a] = stage[a])
    BY <1>2 DEF Reload, ConsoleInv, ConsoleTypeOK
  <2>2. UNCHANGED <<auth, selected, message, line, challenges, ran, stops, asker>>
    BY <1>2 DEF Reload, page, nodeVars
  <2>3. stage' \in [Attempts -> Place]
    BY <1>2 DEF Reload, ConsoleInv, ConsoleTypeOK, Place
  <2> QED
    BY <2>1, <2>2, <2>3 DEF ConsoleInv, ConsoleTypeOK, LinesFit, ChallengesOwned, RanSent, SuccessRan, KeysKept
<1> QED
  BY <1>1, <1>2 DEF User

\* An attempt goes on from one await to the next, on the page or in the terminal.
LEMMA ClientInv ==
  ASSUME ConsoleInv, NEW a \in Attempts,
         Click(a) \/ MakeCommand(a) \/ Dispatch(a) \/ Show(a) \/ Start(a) \/ Continue(a) \/ Finish(a)
  PROVE  ConsoleInv'
<1> USE DEF ConsoleInv, LinesFit, ChallengesOwned, RanSent, SuccessRan, KeysKept, page, nodeVars, Goto,
            Answered
<1> message[a] \in Command
  BY DEF ConsoleTypeOK
<1>1. CASE Click(a)
  <2>1. PICK c \in Command : c.nonce = message[a].nonce /\ message' = [message EXCEPT ![a] = c]
    <3>1. selected \in Functions
      BY DEF ConsoleTypeOK
    <3>2. message' = [message EXCEPT ![a] = [message[a] EXCEPT !.args = selected]]
      BY <1>1, Zenon DEF Click
    <3> QED
      BY <3>1, <3>2, ArgsFields, Zenon
  <2>2. /\ message' \in [Attempts -> Command] /\ message'[a].nonce = message[a].nonce
        /\ \A b \in Attempts : b # a => message'[b] = message[b]
    BY <2>1 DEF ConsoleTypeOK
  <2>3. /\ a \in Clicks /\ stage[a] = "idle" /\ auth # NoPair
        /\ stage' = [stage EXCEPT ![a] = "nonce"]
        /\ asker' = [asker EXCEPT ![a] = auth]
        /\ line' = [line EXCEPT ![a] = "NONCE"]
        /\ UNCHANGED <<auth, selected, challenges, ran, stops>>
    BY <1>1 DEF Click
  <2>4. ConsoleTypeOK'
    BY <2>2, <2>3 DEF ConsoleTypeOK, Place
  <2>5. LinesFit' /\ ChallengesOwned'
    BY <2>2, <2>3 DEF ConsoleTypeOK
  <2>6. RanSent' /\ SuccessRan' /\ KeysKept'
    BY <2>2, <2>3 DEF ConsoleTypeOK
  <2> QED
    BY <2>4, <2>5, <2>6
<1>2. CASE MakeCommand(a)
  <2>1. PICK c \in Command : c.nonce \in {a, NoChallenge} /\ message' = [message EXCEPT ![a] = c]
    <3>1. auth \in Pairs \cup {NoPair} /\ selected \in Functions /\ message[a].args \in Functions
      BY DEF ConsoleTypeOK, Command
    <3>2. PICK n \in {a, NoChallenge} :
            message' = [message EXCEPT ![a] = [pair |-> auth, function |-> selected,
                                               args |-> message[a].args, nonce |-> n]]
      <4>1. (IF line[a] = "Success" THEN a ELSE NoChallenge) \in {a, NoChallenge}
        OBVIOUS
      <4> QED
        BY <1>2, <4>1, Zenon DEF MakeCommand
    <3>3. PICK c : c = [pair |-> auth, function |-> selected, args |-> message[a].args, nonce |-> n]
      OBVIOUS
    <3>4. c \in Command /\ c.nonce = n
      BY <3>1, <3>3 DEF Command
    <3> QED
      BY <3>2, <3>3, <3>4, Zenon
  <2>2. /\ message' \in [Attempts -> Command] /\ message'[a].nonce \in {a, NoChallenge}
        /\ \A b \in Attempts : b # a => message'[b] = message[b]
    BY <2>1 DEF ConsoleTypeOK
  <2>3. /\ stage[a] = "nonce"
        /\ \E place \in {"dropped", "signing"} : stage' = [stage EXCEPT ![a] = place]
        /\ line' = [line EXCEPT ![a] = "none"]
        /\ UNCHANGED <<auth, selected, challenges, ran, stops, asker>>
    BY <1>2 DEF MakeCommand
  <2>4. ConsoleTypeOK'
    BY <2>2, <2>3 DEF ConsoleTypeOK, Place
  <2>5. LinesFit' /\ ChallengesOwned'
    BY <2>2, <2>3 DEF ConsoleTypeOK
  <2>6. RanSent' /\ SuccessRan' /\ KeysKept'
    BY <2>2, <2>3 DEF ConsoleTypeOK
  <2> QED
    BY <2>4, <2>5, <2>6
<1>3. CASE Dispatch(a)
  BY <1>3 DEF Dispatch, ConsoleTypeOK, Place
<1>4. CASE Show(a)
  BY <1>4 DEF Show, ConsoleTypeOK, Place
<1>5. CASE Start(a)
  BY <1>5 DEF Start, ConsoleTypeOK, Place
<1>6. CASE Continue(a)
  <2>1. CASE line[a] = "Success"
    <3>1. PICK c \in Command : c.nonce = a /\ message' = [message EXCEPT ![a] = c]
      <4>1. message' = [message EXCEPT ![a] =
                          [message[a] EXCEPT !.pair = TestPair, !.nonce = a]]
        BY <1>6, <2>1, Zenon DEF Continue
      <4>2. TestPair \in Pairs \cup {NoPair} /\ a \in Attempts \cup {NoChallenge}
        OBVIOUS
      <4> QED
        BY <4>1, <4>2, ContinueFields, Zenon
    <3>2. /\ message' \in [Attempts -> Command] /\ message'[a].nonce = a
          /\ \A b \in Attempts : b # a => message'[b] = message[b]
      BY <3>1 DEF ConsoleTypeOK
    <3>3. /\ stage[a] = "nonce"
          /\ stage' = [stage EXCEPT ![a] = "execute"]
          /\ line' = [line EXCEPT ![a] = "EXECUTE"]
          /\ UNCHANGED <<auth, selected, challenges, ran, stops, asker>>
      BY <1>6, <2>1 DEF Continue
    <3>4. ConsoleTypeOK'
      BY <3>2, <3>3 DEF ConsoleTypeOK, Place
    <3>5. LinesFit' /\ ChallengesOwned'
      BY <3>2, <3>3 DEF ConsoleTypeOK
    <3>6. RanSent' /\ SuccessRan' /\ KeysKept'
      BY <3>2, <3>3 DEF ConsoleTypeOK
    <3> QED
      BY <3>4, <3>5, <3>6
  <2>2. CASE line[a] # "Success"
    BY <1>6, <2>2 DEF Continue, ConsoleTypeOK, Place
  <2> QED
    BY <2>1, <2>2
<1>7. CASE Finish(a)
  BY <1>7 DEF Finish, ConsoleTypeOK, Place
<1> QED
  BY <1>1, <1>2, <1>3, <1>4, <1>5, <1>6, <1>7

-----------------------------------------------------------------------------
\* The node draws a challenge, uses it up, lets it expire, or forgets them all.
LEMMA NodeInv ==
  ASSUME ConsoleInv, NEW a \in Attempts, HandleNonce(a) \/ HandleExecute(a) \/ Expire(a) \/ Restart
  PROVE  ConsoleInv'
<1> USE DEF ConsoleInv, LinesFit, ChallengesOwned, RanSent, SuccessRan, KeysKept, page, Without
<1>1. CASE HandleNonce(a)
  BY <1>1 DEF HandleNonce, ConsoleTypeOK
<1>2. CASE HandleExecute(a)
  <2>1. message[a].nonce \in DOMAIN challenges => message[a].nonce = a
    BY DEF ConsoleTypeOK
  <2>2. \/ ran' = ran
        \/ ran' = ran \cup {a} /\ message[a].pair = asker[a]
    BY <1>2, <2>1 DEF HandleExecute
  <2>3. /\ line'[a] = "Success" => a \in ran'
        /\ line'[a] \in {"Success", "Error"}
        /\ \A b \in Attempts : b # a => line'[b] = line[b]
        /\ line' \in [Attempts -> {"none", "NONCE", "EXECUTE", "Success", "Error", "lost"}]
    BY <1>2 DEF HandleExecute, ConsoleTypeOK
  <2>4. /\ DOMAIN challenges' \subseteq DOMAIN challenges
        /\ \A b \in DOMAIN challenges' : challenges'[b] = challenges[b]
        /\ UNCHANGED <<auth, selected, stage, message, asker, stops>>
        /\ stage[a] \in {"execute", "dropped"}
    BY <1>2 DEF HandleExecute
  <2> QED
    BY <2>2, <2>3, <2>4 DEF ConsoleTypeOK
<1>3. CASE Expire(a)
  BY <1>3 DEF Expire, ConsoleTypeOK
<1>4. CASE Restart
  <2>1. /\ \A b \in Attempts : \/ line'[b] = line[b]
                               \/ line'[b] = "lost" /\ line[b] # "none"
        /\ line' \in [Attempts -> {"none", "NONCE", "EXECUTE", "Success", "Error", "lost"}]
    BY <1>4 DEF Restart, ConsoleTypeOK
  <2>2. DOMAIN challenges' = {} /\ UNCHANGED <<auth, selected, stage, message, asker, ran>>
    BY <1>4 DEF Restart
  <2>3. stops' \in 0..MaxStops
    BY <1>4 DEF Restart, ConsoleTypeOK
  <2> QED
    BY <2>1, <2>2, <2>3 DEF ConsoleTypeOK
<1> QED
  BY <1>1, <1>2, <1>3, <1>4

\* Restart needs no attempt, so it is taken apart from those that do.
LEMMA RestartInv == ASSUME ConsoleInv, Restart PROVE ConsoleInv'
<1>1. CASE Attempts = {}
  BY <1>1 DEF ConsoleInv, ConsoleTypeOK, LinesFit, ChallengesOwned, RanSent, SuccessRan, KeysKept, Restart, page
<1>2. CASE Attempts # {}
  BY <1>2, NodeInv
<1> QED
  BY <1>1, <1>2

\* Every step keeps the invariant.
LEMMA ConsoleInvNext == ConsoleInv /\ [ConsoleNext]_consoleVars => ConsoleInv'
<1> SUFFICES ASSUME ConsoleInv, [ConsoleNext]_consoleVars PROVE ConsoleInv'
  OBVIOUS
<1>1. CASE UNCHANGED consoleVars
  BY <1>1 DEF consoleVars, ConsoleInv, ConsoleTypeOK, LinesFit, ChallengesOwned, RanSent, SuccessRan, KeysKept
<1>2. CASE ConsoleNext
  BY <1>2, UserInv, ClientInv, NodeInv, RestartInv DEF ConsoleNext, ClientStep
<1> QED
  BY <1>1, <1>2

\* The invariant the properties below follow from.
THEOREM ConsoleInvariant == ConsoleSpec => []ConsoleInv
BY ConsoleInvInit, ConsoleInvNext, PTL DEF ConsoleSpec

\* Success is shown only for a command that the node ran.
THEOREM SuccessAlwaysRan == ConsoleSpec => []SuccessRan
<1>1. ConsoleInv => SuccessRan
  BY DEF ConsoleInv
<1> QED
  BY <1>1, ConsoleInvariant, PTL

\* What runs was signed with the keys that its challenge was drawn for.
THEOREM KeysAlwaysKept == ConsoleSpec => []KeysKept
<1>1. ConsoleInv => KeysKept
  BY DEF ConsoleInv
<1> QED
  BY <1>1, ConsoleInvariant, PTL

\* The keys and choices of the page, the attempts and the node keep their types.
THEOREM ConsoleTypeCorrect == ConsoleSpec => []ConsoleTypeOK
<1>1. ConsoleInv => ConsoleTypeOK
  BY DEF ConsoleInv
<1> QED
  BY <1>1, ConsoleInvariant, PTL
=============================================================================
