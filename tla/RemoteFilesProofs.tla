------------------------- MODULE RemoteFilesProofs --------------------------
(***************************************************************************)
(* Proofs about file_client.go: removing and downloading directories       *)
(* (RemoteFiles), for any trees, calls, odd entries and files that the     *)
(* printer writes meanwhile.                                               *)
(***************************************************************************)
EXTENDS RemoteFiles, SequenceTheorems, WellFoundedInduction, TLAPS

-----------------------------------------------------------------------------
(* Paths. *)

LEMMA PathIs ==
  ASSUME NEW p \in Path
  PROVE  Len(p) \in Nat /\ DOMAIN p = 1..Len(p) /\ \A i \in 1..Len(p) : p[i] \in STRING
BY DEF Path

LEMMA PathEqual ==
  ASSUME NEW p \in Path, NEW q \in Path, Len(p) = Len(q), \A i \in 1..Len(p) : p[i] = q[i]
  PROVE  p = q
BY SeqEqual DEF Path

LEMMA FirstNames ==
  ASSUME NEW q \in Path, NEW n \in 0..Len(q)
  PROVE  /\ SubSeq(q, 1, n) \in Path
         /\ Len(SubSeq(q, 1, n)) = n
         /\ \A i \in 1..n : SubSeq(q, 1, n)[i] = q[i]
BY DEF Path

\* What comes first is the same, name by name.
LEMMA FirstNamesAre ==
  ASSUME NEW p \in Path, NEW q \in Path, Len(p) <= Len(q)
  PROVE  p = SubSeq(q, 1, Len(p)) <=> \A i \in 1..Len(p) : p[i] = q[i]
<1> DEFINE s == SubSeq(q, 1, Len(p))
<1>1. Len(p) \in 0..Len(q)
  BY PathIs
<1>2. s \in Path /\ Len(s) = Len(p) /\ \A i \in 1..Len(p) : s[i] = q[i]
  BY <1>1, FirstNames
<1> HIDE DEF s
<1>3. p = s <=> \A i \in 1..Len(p) : p[i] = q[i]
  BY <1>2, PathEqual
<1> QED BY <1>3 DEF s

LEMMA BelowIs ==
  ASSUME NEW p \in Path, NEW q \in Path
  PROVE  Below(p, q) <=> Len(p) <= Len(q) /\ \A i \in 1..Len(p) : p[i] = q[i]
<1>1. Len(p) <= Len(p)
  BY PathIs
<1>2. SubSeq(p, 1, Len(p)) = p
  BY <1>1, FirstNamesAre
<1> QED BY <1>2, FirstNamesAre DEF Below, IsPrefix

LEMMA RootPath == <<>> \in Path /\ <<>> \in Plain
BY DEF Path, Plain

LEMMA BelowRoot ==
  ASSUME NEW q \in Path PROVE <<>> \in Path /\ Below(<<>>, q)
<1>1. <<>> \in Path /\ Len(<<>>) = 0
  BY DEF Path
<1> QED BY <1>1, BelowIs, PathIs

LEMMA BelowItself ==
  ASSUME NEW p \in Path PROVE Below(p, p)
BY BelowIs, PathIs

LEMMA BelowTransitive ==
  ASSUME NEW p \in Path, NEW q \in Path, NEW r \in Path, Below(p, q), Below(q, r)
  PROVE  Below(p, r)
BY BelowIs, PathIs

\* Two paths that a third one is below are on one way.
LEMMA BelowOneWay ==
  ASSUME NEW p \in Path, NEW q \in Path, NEW r \in Path, Below(p, r), Below(q, r), Len(p) <= Len(q)
  PROVE  Below(p, q)
BY BelowIs, PathIs

LEMMA BelowEqual ==
  ASSUME NEW p \in Path, NEW q \in Path, Below(p, q), Len(p) = Len(q)
  PROVE  p = q
BY BelowIs, PathIs, PathEqual

LEMMA StrictlyBelow ==
  ASSUME NEW p \in Path, NEW q \in Path, Below(p, q), p # q
  PROVE  Len(p) < Len(q) /\ p = SubSeq(q, 1, Len(p)) /\ Len(p) \in 0..(Len(q) - 1)
<1>1. Len(p) < Len(q)
  BY BelowIs, BelowEqual, PathIs
<1>2. p = SubSeq(q, 1, Len(p))
  BY BelowIs, FirstNamesAre
<1> QED BY <1>1, <1>2, PathIs

-----------------------------------------------------------------------------
(* Joined paths. *)

LEMMA JoinIs ==
  ASSUME NEW p \in Path, NEW q \in Path
  PROVE  /\ p \o q \in Path
         /\ Len(p \o q) = Len(p) + Len(q)
         /\ \A i \in 1..Len(p) : (p \o q)[i] = p[i]
         /\ \A i \in 1..Len(q) : (p \o q)[Len(p) + i] = q[i]
BY DEF Path

LEMMA BeyondIs ==
  ASSUME NEW p \in Path, NEW q \in Path, Below(p, q)
  PROVE  /\ Beyond(p, q) \in Path
         /\ Len(Beyond(p, q)) = Len(q) - Len(p)
         /\ \A i \in 1..(Len(q) - Len(p)) : Beyond(p, q)[i] = q[Len(p) + i]
<1>1. Len(p) <= Len(q) /\ Len(p) \in Nat /\ Len(q) \in Nat /\ q \in Seq(STRING)
  BY BelowIs, PathIs DEF Path
<1> QED BY <1>1 DEF Beyond, Path

LEMMA JoinBelow ==
  ASSUME NEW p \in Path, NEW q \in Path PROVE Below(p, p \o q)
<1> DEFINE r == p \o q
<1>1. r \in Path /\ Len(p) <= Len(r) /\ \A i \in 1..Len(p) : p[i] = r[i]
  BY JoinIs, PathIs
<1> HIDE DEF r
<1>2. Below(p, r)
  BY <1>1, BelowIs
<1> QED BY <1>2 DEF r

\* A path is what it is below and what is beyond that.
LEMMA JoinBeyond ==
  ASSUME NEW p \in Path, NEW q \in Path, Below(p, q)
  PROVE  p \o Beyond(p, q) = q
<1> DEFINE b == Beyond(p, q)
           r == p \o b
<1>1. b \in Path /\ Len(b) = Len(q) - Len(p) /\ \A i \in 1..Len(b) : b[i] = q[Len(p) + i]
  BY BeyondIs
<1>2. Len(p) \in Nat /\ Len(q) \in Nat /\ Len(p) <= Len(q) /\ \A i \in 1..Len(p) : p[i] = q[i]
  BY BelowIs, PathIs
<1> HIDE DEF b
<1>3. /\ r \in Path /\ Len(r) = Len(p) + Len(b)
      /\ \A i \in 1..Len(p) : r[i] = p[i]
      /\ \A i \in 1..Len(b) : r[Len(p) + i] = b[i]
  BY <1>1, JoinIs
<1> HIDE DEF r
<1>4. ASSUME NEW i \in 1..Len(r) PROVE r[i] = q[i]
  <2>1. CASE i <= Len(p)
    BY <1>2, <1>3, <2>1
  <2>2. CASE i > Len(p)
    <3>1. i - Len(p) \in 1..Len(b) /\ Len(p) + (i - Len(p)) = i
      BY <1>1, <1>2, <1>3, <2>2
    <3> QED BY <3>1, <1>1, <1>3
  <2> QED BY <2>1, <2>2, <1>2
<1>5. r = q
  BY <1>1, <1>2, <1>3, <1>4, PathEqual
<1> QED BY <1>5 DEF r, b

LEMMA BeyondJoin ==
  ASSUME NEW p \in Path, NEW q \in Path
  PROVE  Beyond(p, p \o q) = q
<1> DEFINE r == p \o q
           b == Beyond(p, r)
<1>1. r \in Path /\ Below(p, r) /\ Len(r) = Len(p) + Len(q)
      /\ \A i \in 1..Len(q) : r[Len(p) + i] = q[i]
  BY JoinIs, JoinBelow
<1> HIDE DEF r
<1>2. b \in Path /\ Len(b) = Len(r) - Len(p) /\ \A i \in 1..(Len(r) - Len(p)) : b[i] = r[Len(p) + i]
  BY <1>1, BeyondIs
<1> HIDE DEF b
<1>3. b = q
  BY <1>1, <1>2, PathIs, PathEqual
<1> QED BY <1>3 DEF r, b

\* What is joined to one path keeps its order.
LEMMA BelowBeyond ==
  ASSUME NEW p \in Path, NEW q \in Path, NEW r \in Path
  PROVE  Below(p \o q, p \o r) <=> Below(q, r)
<1> DEFINE a == p \o q
           b == p \o r
<1>1. /\ a \in Path /\ Len(a) = Len(p) + Len(q)
      /\ \A i \in 1..Len(p) : a[i] = p[i]
      /\ \A i \in 1..Len(q) : a[Len(p) + i] = q[i]
  BY JoinIs
<1>2. /\ b \in Path /\ Len(b) = Len(p) + Len(r)
      /\ \A i \in 1..Len(p) : b[i] = p[i]
      /\ \A i \in 1..Len(r) : b[Len(p) + i] = r[i]
  BY JoinIs
<1>3. Len(p) \in Nat /\ Len(q) \in Nat /\ Len(r) \in Nat
  BY PathIs
<1> HIDE DEF a, b
<1>4. ASSUME Below(a, b) PROVE Below(q, r)
  <2>1. Len(a) <= Len(b) /\ \A i \in 1..Len(a) : a[i] = b[i]
    BY <1>1, <1>2, <1>4, BelowIs
  <2>2. ASSUME NEW i \in 1..Len(q) PROVE q[i] = r[i]
    <3>1. Len(p) + i \in 1..Len(a) /\ i \in 1..Len(r)
      BY <1>1, <1>2, <1>3, <2>1
    <3> QED BY <1>1, <1>2, <2>1, <3>1
  <2> QED BY <1>1, <1>2, <1>3, <2>1, <2>2, BelowIs
<1>5. ASSUME Below(q, r) PROVE Below(a, b)
  <2>1. Len(q) <= Len(r) /\ \A i \in 1..Len(q) : q[i] = r[i]
    BY <1>5, BelowIs
  <2>2. ASSUME NEW i \in 1..Len(a) PROVE a[i] = b[i]
    <3>1. CASE i \in 1..Len(p)
      BY <1>1, <1>2, <3>1
    <3>2. CASE i - Len(p) \in 1..Len(q)
      <4>1. Len(p) + (i - Len(p)) = i /\ i - Len(p) \in 1..Len(r)
        BY <1>1, <1>3, <2>1, <3>2
      <4> QED BY <1>1, <1>2, <2>1, <3>2, <4>1
    <3> QED BY <1>1, <1>3, <3>1, <3>2
  <2>3. Len(a) <= Len(b)
    BY <1>1, <1>2, <1>3, <2>1
  <2> QED BY <1>1, <1>2, <2>2, <2>3, BelowIs
<1> QED BY <1>4, <1>5 DEF a, b

LEMMA JoinAssociative ==
  ASSUME NEW p \in Path, NEW q \in Path, NEW r \in Path
  PROVE  (p \o q) \o r = p \o (q \o r)
BY DEF Path

-----------------------------------------------------------------------------
(* Cleaning. *)

LEMMA LeastNatural ==
  ASSUME NEW T \in SUBSET Nat, NEW n \in T
  PROVE  \E x \in T : \A y \in T : x <= y
<1> DEFINE R == {ss \in Nat \X Nat : ss[1] < ss[2]}
<1>1. IsWellFoundedOn(R, Nat)
  BY NatLessThanWellFounded DEF OpToRel
<1>2. \A x, y \in Nat : <<y, x>> \notin R => x <= y
  OBVIOUS
<1>3. T \subseteq Nat /\ T # {}
  OBVIOUS
<1> HIDE DEF R
<1>4. PICK x \in T : \A y \in T : ~(<<y, x>> \in R)
  BY <1>1, <1>3, WFMin, Zenon
<1> QED BY <1>2, <1>3, <1>4

\* What holds at 0 and is handed on holds up to N.
LEMMA Upwards ==
  ASSUME NEW N \in Nat, NEW T, 0 \in T, \A n \in 0..N : n \in T /\ n < N => n + 1 \in T
  PROVE  \A n \in 0..N : n \in T
<1> DEFINE U == {n \in 0..N : n \notin T}
<1> SUFFICES ASSUME NEW m \in U PROVE FALSE
  OBVIOUS
<1>1. U \in SUBSET Nat
  OBVIOUS
<1>2. PICK x \in U : \A y \in U : x <= y
  <2> HIDE DEF U
  <2> QED BY <1>1, LeastNatural
<1>3. x - 1 \in 0..N /\ x - 1 \notin U /\ x - 1 < N /\ x \notin T
  BY <1>2
<1> QED BY <1>3

Cleaned(p, rooted, f, n) == IF n = 0 THEN <<>> ELSE Enter(f[n - 1], p[n], rooted)

LEMMA CleaningIs ==
  ASSUME NEW p \in Path, NEW rooted \in BOOLEAN
  PROVE  \A n \in 0..Len(p) : Cleaning(p, rooted)[n] = Cleaned(p, rooted, Cleaning(p, rooted), n)
<1> DEFINE Known(q, f) == f = [n \in 0..q |-> Cleaned(p, rooted, f, n)]
           T == {q \in 0..Len(p) : \E f : Known(q, f)}
<1>1. 0 \in T
  <2> DEFINE f == [n \in 0..0 |-> <<>>]
  <2>1. f = [n \in 0..0 |-> Cleaned(p, rooted, f, n)]
    BY DEF Cleaned
  <2>2. \E g : Known(0, g)
    BY <2>1
  <2> QED BY <2>2, PathIs
<1>2. ASSUME NEW q \in 0..Len(p), q \in T, q < Len(p) PROVE q + 1 \in T
  <2>1. PICK f : Known(q, f)
    BY <1>2
  <2> DEFINE g == [n \in 0..(q + 1) |-> IF n = q + 1 THEN Enter(f[q], p[q + 1], rooted) ELSE f[n]]
  <2>2. ASSUME NEW n \in 0..(q + 1) PROVE g[n] = Cleaned(p, rooted, g, n)
    <3>1. CASE n = q + 1
      BY <3>1, PathIs DEF Cleaned
    <3>2. CASE n \in 0..q
      <4>1. f[n] = Cleaned(p, rooted, f, n)
        BY <2>1, <3>2
      <4>2. n # 0 => n - 1 \in 0..q /\ g[n - 1] = f[n - 1]
        BY <3>2
      <4> QED BY <3>2, <4>1, <4>2 DEF Cleaned
    <3> QED BY <3>1, <3>2
  <2>3. g = [n \in 0..(q + 1) |-> g[n]]
    OBVIOUS
  <2>4. \E h : Known(q + 1, h)
    <3> HIDE DEF g
    <3>1. Known(q + 1, g)
      BY <2>2, <2>3
    <3> HIDE DEF Known
    <3> QED BY <3>1
  <2> QED BY <1>2, <2>4, PathIs
<1>3. Len(p) \in T
  <2> HIDE DEF T
  <2>1. Len(p) \in Nat /\ Len(p) \in 0..Len(p)
    BY PathIs
  <2> QED BY <1>1, <1>2, <2>1, Upwards
<1> DEFINE Is(f) == Known(Len(p), f)
<1>4. \E f : Is(f)
  BY <1>3
<1>5. Cleaning(p, rooted) = CHOOSE f : Is(f)
  BY DEF Cleaning, Cleaned
<1>6. Is(Cleaning(p, rooted))
  <2> HIDE DEF Is
  <2> QED BY <1>4, <1>5
<1> QED BY <1>6

LEMMA AppendIs ==
  ASSUME NEW S, NEW p \in Seq(S), NEW e \in S
  PROVE  /\ Append(p, e) \in Seq(S)
         /\ Len(Append(p, e)) = Len(p) + 1
         /\ \A i \in 1..Len(p) : Append(p, e)[i] = p[i]
         /\ Append(p, e)[Len(p) + 1] = e
BY AppendProperties

LEMMA EnterType ==
  ASSUME NEW done \in Path, NEW name \in STRING, NEW rooted \in BOOLEAN
  PROVE  /\ Enter(done, name, rooted) \in Path
         /\ rooted /\ done \in Plain => Enter(done, name, rooted) \in Plain
<1> DEFINE a == Append(done, name)
<1>1. /\ a \in Path
      /\ Len(a) = Len(done) + 1
      /\ \A i \in 1..Len(done) : a[i] = done[i]
      /\ a[Len(done) + 1] = name
  <2>1. done \in Seq(STRING)
    BY DEF Path
  <2>2. a \in Seq(STRING)
    BY <2>1, AppendIs
  <2>3. Len(a) = Len(done) + 1
    BY <2>1, AppendIs
  <2>4. \A i \in 1..Len(done) : a[i] = done[i]
    BY <2>1, AppendIs
  <2>5. a[Len(done) + 1] = name
    BY <2>1, AppendIs
  <2> QED BY <2>2, <2>3, <2>4, <2>5 DEF Path
<1>2. done \in Plain /\ name \notin {".", ".."} => a \in Plain
  <2>1. Len(done) \in Nat
    BY PathIs
  <2> HIDE DEF a
  <2> QED BY <1>1, <2>1 DEF Plain
<1>3. ASSUME done # <<>>
      PROVE  Front(done) \in Path /\ (done \in Plain => Front(done) \in Plain)
  <2>1. Len(done) - 1 \in 0..Len(done)
    BY <1>3 DEF Path
  <2> DEFINE f == SubSeq(done, 1, Len(done) - 1)
  <2>2. f \in Path /\ Len(f) = Len(done) - 1 /\ \A i \in 1..(Len(done) - 1) : f[i] = done[i]
    BY <2>1, FirstNames
  <2> HIDE DEF f
  <2>3. done \in Plain => f \in Plain
    BY <2>2, PathIs DEF Plain
  <2> QED BY <2>2, <2>3 DEF Front, f
<1> QED BY <1>1, <1>2, <1>3 DEF Enter

LEMMA CleaningType ==
  ASSUME NEW p \in Path, NEW rooted \in BOOLEAN
  PROVE  /\ Cleaning(p, rooted)[Len(p)] \in Path
         /\ rooted => Cleaning(p, rooted)[Len(p)] \in Plain
<1> DEFINE f == Cleaning(p, rooted)
           N == Len(p)
           T == {n \in 0..N : f[n] \in Path /\ (rooted => f[n] \in Plain)}
<1>1. \A n \in 0..N : f[n] = Cleaned(p, rooted, f, n)
  BY CleaningIs
<1>2. N \in Nat /\ \A i \in 1..N : p[i] \in STRING
  BY PathIs
<1> HIDE DEF f, N
<1>3. 0 \in T
  <2>1. <<>> \in Plain /\ <<>> \in Path
    BY DEF Plain, Path
  <2> QED BY <1>1, <1>2, <2>1 DEF Cleaned
<1>4. ASSUME NEW n \in 0..N, n \in T, n < N PROVE n + 1 \in T
  <2>1. n + 1 \in 1..N /\ n + 1 \in 0..N /\ (n + 1) - 1 = n /\ n + 1 # 0
    BY <1>2, <1>4
  <2>2. f[n + 1] = Enter(f[n], p[n + 1], rooted)
    BY <1>1, <2>1 DEF Cleaned
  <2> QED BY <1>2, <1>4, <2>1, <2>2, EnterType
<1>5. N \in T
  <2> HIDE DEF T
  <2>1. N \in 0..N
    BY <1>2
  <2> QED BY <1>2, <1>3, <1>4, <2>1, Upwards
<1> QED BY <1>5 DEF f, N

\* A plain path is as it is.
LEMMA CleaningPlain ==
  ASSUME NEW p \in Plain, NEW rooted \in BOOLEAN
  PROVE  Cleaning(p, rooted)[Len(p)] = p
<1> DEFINE f == Cleaning(p, rooted)
           N == Len(p)
           T == {n \in 0..N : f[n] = SubSeq(p, 1, n)}
<1>1. p \in Path /\ N \in Nat /\ \A i \in 1..N : p[i] \notin {".", ".."}
  BY PathIs DEF Plain
<1>2. \A n \in 0..N : f[n] = Cleaned(p, rooted, f, n)
  BY <1>1, CleaningIs
<1>3. SubSeq(p, 1, 0) = <<>>
  BY <1>1 DEF Path
<1>4. ASSUME NEW n \in 0..N, n < N PROVE Append(SubSeq(p, 1, n), p[n + 1]) = SubSeq(p, 1, n + 1)
  BY <1>1, <1>4 DEF Path
<1> HIDE DEF f
<1>5. 0 \in T
  <2>1. 0 \in 0..N /\ f[0] = <<>>
    BY <1>1, <1>2 DEF Cleaned
  <2> QED BY <1>3, <2>1
<1>6. ASSUME NEW n \in 0..N, n \in T, n < N PROVE n + 1 \in T
  <2>1. n + 1 \in 1..N /\ n + 1 \in 0..N /\ (n + 1) - 1 = n /\ n + 1 # 0
    BY <1>1, <1>6
  <2>2. f[n + 1] = Enter(SubSeq(p, 1, n), p[n + 1], rooted)
    BY <1>2, <1>6, <2>1 DEF Cleaned
  <2>3. f[n + 1] = Append(SubSeq(p, 1, n), p[n + 1])
    BY <1>1, <2>1, <2>2 DEF Enter
  <2> QED BY <1>4, <1>6, <2>1, <2>3
<1>7. N \in T
  <2> HIDE DEF T
  <2>1. N \in 0..N
    BY <1>1
  <2> QED BY <1>1, <1>5, <1>6, <2>1, Upwards
<1>8. SubSeq(p, 1, N) = p
  BY <1>1 DEF Path
<1> QED BY <1>7, <1>8 DEF f

LEMMA CleanType == \A p \in Path : Clean(p) \in Path /\ CleanRoot(p) \in Plain
BY CleaningType DEF Clean, CleanRoot

LEMMA CleanPlain == \A p \in Plain : Clean(p) = p /\ CleanRoot(p) = p
BY CleaningPlain DEF Clean, CleanRoot

\* A name that is none of the special ones is entered as it is.
LEMMA OneName ==
  ASSUME NEW name \in STRING, name \notin {".", ".."}
  PROVE  <<name>> \in Plain
BY DEF Plain, Path

LEMMA JoinPlain ==
  ASSUME NEW p \in Plain, NEW q \in Plain
  PROVE  p \o q \in Plain
<1>1. p \in Path /\ q \in Path /\ Len(p) \in Nat /\ Len(q) \in Nat
  BY PathIs DEF Plain
<1> DEFINE r == p \o q
<1>2. /\ r \in Path /\ Len(r) = Len(p) + Len(q)
      /\ \A i \in 1..Len(p) : r[i] = p[i]
      /\ \A i \in 1..Len(q) : r[Len(p) + i] = q[i]
  BY <1>1, JoinIs
<1> HIDE DEF r
<1>3. ASSUME NEW i \in 1..Len(r) PROVE r[i] \notin {".", ".."}
  <2>1. CASE i \in 1..Len(p)
    BY <1>2, <2>1 DEF Plain
  <2>2. CASE i - Len(p) \in 1..Len(q)
    <3>1. Len(p) + (i - Len(p)) = i
      BY <1>1, <1>2
    <3> QED BY <1>2, <2>2, <3>1 DEF Plain
  <2> QED BY <1>1, <1>2, <2>1, <2>2
<1>4. r \in Plain
  BY <1>2, <1>3 DEF Plain
<1> QED BY <1>4 DEF r

LEMMA EntryIsSavedIn ==
  ASSUME NEW dir \in Path, NEW name \in STRING, name \notin {".", ".."}
  PROVE  LocalEntryPath(dir, <<name>>) = {dir \o <<name>>}
<1>1. Clean(<<name>>) = <<name>>
  BY OneName, CleanPlain
<1>2. <<name>> # <<>> /\ <<name>>[1] = name
  OBVIOUS
<1> QED BY <1>1, <1>2, Zenon DEF LocalEntryPath

LEMMA EntryIsSavedBelow ==
  ASSUME NEW dir \in Path, NEW name \in Path, NEW p \in LocalEntryPath(dir, name)
  PROVE  p \in Path \ {<<>>} /\ Below(dir, p)
<1> DEFINE clean == Clean(name)
<1>1. clean \in Path
  BY CleanType
<1>2. clean # <<>> /\ p = dir \o clean
  BY DEF LocalEntryPath
<1> HIDE DEF clean
<1>3. Len(clean) > 0
  BY <1>1, <1>2 DEF Path
<1>4. p \in Path /\ Below(dir, p) /\ Len(p) = Len(dir) + Len(clean)
  BY <1>1, <1>2, JoinIs, JoinBelow
<1>5. Len(dir) \in Nat /\ Len(clean) \in Nat /\ Len(<<>>) = 0
  BY <1>1, PathIs
<1> QED BY <1>3, <1>4, <1>5

-----------------------------------------------------------------------------
(* Trees. *)

LEMMA PlainPath == \A p \in Plain : p \in Path
BY DEF Plain

LEMMA TreePath ==
  ASSUME NEW t, GoodTree(t), NEW p \in DOMAIN t
  PROVE  p \in Plain /\ p \in Path /\ p # <<>> /\ t[p] \in Node
BY PlainPath DEF GoodTree

\* Whatever is above a path of the tree is a directory.
LEMMA WayTo ==
  ASSUME NEW t, GoodTree(t), NEW q \in DOMAIN t, NEW p \in Path, Below(p, q), p # q
  PROVE  IsDir(t, p)
<1>1. q \in Path
  BY TreePath
<1>2. p = SubSeq(q, 1, Len(p)) /\ Len(p) \in 0..(Len(q) - 1)
  BY <1>1, StrictlyBelow
<1>3. CASE Len(p) = 0
  <2>1. p = <<>>
    BY <1>3 DEF Path
  <2> QED BY <2>1 DEF IsDir
<1>4. CASE Len(p) # 0
  <2>1. Len(p) \in 1..(Len(q) - 1)
    BY <1>1, <1>2, <1>4, PathIs
  <2> QED BY <1>2, <2>1 DEF GoodTree
<1> QED BY <1>3, <1>4

LEMMA GoodWhen ==
  ASSUME NEW t, DOMAIN t \subseteq Plain \ {<<>>}, t = [p \in DOMAIN t |-> t[p]],
         \A p \in DOMAIN t : t[p] \in Node,
         \A p \in DOMAIN t : \A q \in Path : Below(q, p) /\ q # p => IsDir(t, q)
  PROVE  GoodTree(t)
<1>1. ASSUME NEW p \in DOMAIN t, NEW n \in 1..(Len(p) - 1) PROVE IsDir(t, SubSeq(p, 1, n))
  <2>1. p \in Path /\ Len(p) \in Nat
    BY PlainPath, PathIs
  <2>2. n \in 0..Len(p) /\ n < Len(p)
    BY <2>1
  <2> DEFINE q == SubSeq(p, 1, n)
  <2>3. q \in Path /\ Len(q) = n /\ \A i \in 1..n : q[i] = p[i]
    BY <2>1, <2>2, FirstNames
  <2> HIDE DEF q
  <2>4. Below(q, p) /\ q # p
    BY <2>1, <2>2, <2>3, BelowIs
  <2> QED BY <2>3, <2>4 DEF q
<1> QED BY <1>1 DEF GoodTree

\* There is nothing below what is no directory.
LEMMA NoneBelow ==
  ASSUME NEW t, GoodTree(t), NEW p \in Path, ~IsDir(t, p), NEW q \in DOMAIN t, Below(p, q)
  PROVE  q = p
BY WayTo

LEMMA NoLinkAbove ==
  ASSUME NEW t, GoodTree(t), NEW q \in DOMAIN t, NEW p \in Path, Below(p, q)
  PROVE  LinksAbove(t, p) = {} /\ Followed(t, p) = p
<1>1. ASSUME NEW k \in LinksAbove(t, p) PROVE FALSE
  <2>1. k \in DOMAIN t /\ t[k].kind = "link" /\ k # p /\ Below(k, p) /\ k \in Path
    BY TreePath DEF LinksAbove
  <2>2. Below(k, q) /\ k # q
    <3>1. q \in Path
      BY TreePath
    <3>2. Below(k, q)
      BY <2>1, <3>1, BelowTransitive
    <3>3. Len(k) < Len(p) /\ Len(p) <= Len(q) /\ Len(k) \in Nat /\ Len(p) \in Nat /\ Len(q) \in Nat
      BY <2>1, <3>1, StrictlyBelow, BelowIs, PathIs
    <3> QED BY <3>2, <3>3
  <2>3. IsDir(t, k)
    BY <2>1, <2>2, WayTo
  <2> QED BY <2>1, <2>3, TreePath DEF IsDir
<1> QED BY <1>1 DEF Followed

\* Either no link is on the way, or one is and nothing is in the tree from there on.
LEMMA FollowedIs ==
  ASSUME NEW t, GoodTree(t), NEW p \in Path
  PROVE  \/ LinksAbove(t, p) = {} /\ Followed(t, p) = p
         \/ /\ \A q \in DOMAIN t : ~Below(p, q)
            /\ \E k \in LinksAbove(t, p) : Followed(t, p) = t[k].to \o Beyond(k, p)
<1>1. CASE LinksAbove(t, p) = {}
  BY <1>1 DEF Followed
<1>2. CASE LinksAbove(t, p) # {}
  <2>1. \A q \in DOMAIN t : ~Below(p, q)
    BY <1>2, NoLinkAbove
  <2> DEFINE k == CHOOSE q \in LinksAbove(t, p) : TRUE
  <2>2. k \in LinksAbove(t, p)
    BY <1>2
  <2>3. Followed(t, p) = t[k].to \o Beyond(k, p)
    BY <1>2 DEF Followed
  <2> HIDE DEF k
  <2> QED BY <2>1, <2>2, <2>3
<1> QED BY <1>1, <1>2

LEMMA BeyondPlain ==
  ASSUME NEW p \in Path, NEW q \in Plain, Below(p, q)
  PROVE  Beyond(p, q) \in Plain
<1> DEFINE b == Beyond(p, q)
<1>1. q \in Path /\ Len(q) \in Nat /\ Len(p) \in Nat
  BY PlainPath, PathIs
<1>2. b \in Path /\ Len(b) = Len(q) - Len(p) /\ \A i \in 1..(Len(q) - Len(p)) : b[i] = q[Len(p) + i]
  BY <1>1, BeyondIs
<1> HIDE DEF b
<1>3. ASSUME NEW i \in 1..Len(b) PROVE b[i] \notin {".", ".."}
  <2>1. Len(p) + i \in 1..Len(q)
    BY <1>1, <1>2
  <2> QED BY <1>2, <2>1 DEF Plain
<1>4. b \in Plain
  BY <1>2, <1>3 DEF Plain
<1> QED BY <1>4 DEF b

LEMMA FollowedType ==
  ASSUME NEW t, GoodTree(t), NEW p \in Plain
  PROVE  Followed(t, p) \in Plain /\ Directory(t, p) \in Plain
<1>1. Followed(t, p) \in Plain
  <2>1. ASSUME NEW k \in LinksAbove(t, p) PROVE t[k].to \o Beyond(k, p) \in Plain
    <3>1. k \in Path /\ t[k].to \in Plain /\ Below(k, p)
      BY TreePath DEF LinksAbove, Node
    <3> QED BY <3>1, BeyondPlain, JoinPlain
  <2> QED BY <2>1, PlainPath, FollowedIs
<1>2. \A r \in DOMAIN t : t[r].to \in Plain
  BY TreePath DEF Node
<1> QED BY <1>1, <1>2 DEF Directory

-----------------------------------------------------------------------------
(* What the commands make of a tree. *)

LEMMA FrontIs ==
  ASSUME NEW p \in Path, p # <<>>
  PROVE  /\ Front(p) \in Path
         /\ Below(Front(p), p)
         /\ Len(Front(p)) = Len(p) - 1
<1> DEFINE f == SubSeq(p, 1, Len(p) - 1)
<1>1. Len(p) \in Nat /\ Len(p) - 1 \in 0..Len(p)
  BY DEF Path
<1>2. f \in Path /\ Len(f) = Len(p) - 1 /\ \A i \in 1..(Len(p) - 1) : f[i] = p[i]
  BY <1>1, FirstNames
<1> HIDE DEF f
<1>3. Below(f, p)
  BY <1>1, <1>2, BelowIs
<1> QED BY <1>2, <1>3 DEF Front, f

\* What is above a path is above the directory it is in, or is that directory.
LEMMA AboveFront ==
  ASSUME NEW p \in Path, p # <<>>, NEW q \in Path, Below(q, p), q # p
  PROVE  Below(q, Front(p))
<1>1. Front(p) \in Path /\ Below(Front(p), p) /\ Len(Front(p)) = Len(p) - 1
  BY FrontIs
<1>2. Len(q) <= Len(Front(p))
  BY <1>1, StrictlyBelow
<1> QED BY <1>1, <1>2, BelowOneWay

LEMMA WayToFront ==
  ASSUME NEW t, GoodTree(t), NEW p \in Path, p # <<>>, IsDir(t, Front(p)),
         NEW q \in Path, Below(q, p), q # p
  PROVE  IsDir(t, q)
<1>1. Front(p) \in Path /\ Below(q, Front(p))
  BY FrontIs, AboveFront
<1>2. CASE q = Front(p)
  BY <1>2
<1>3. CASE q # Front(p) /\ Front(p) = <<>>
  <2>1. FALSE
    BY <1>1, <1>3, StrictlyBelow, PathIs
  <2> QED BY <2>1
<1>4. CASE q # Front(p) /\ Front(p) \in DOMAIN t
  BY <1>1, <1>4, WayTo
<1> QED BY <1>2, <1>3, <1>4 DEF IsDir

LEMMA WithoutIs ==
  ASSUME NEW f, NEW P
  PROVE  /\ DOMAIN Without(f, P) = DOMAIN f \ P
         /\ \A q \in DOMAIN f \ P : Without(f, P)[q] = f[q]
BY DEF Without

LEMMA GoodPut ==
  ASSUME NEW t, GoodTree(t), NEW p \in Plain, p # <<>>, IsDir(t, Front(p)), ~IsDir(t, p),
         NEW n \in Node
  PROVE  GoodTree(Put(t, p, n))
<1> DEFINE u == Put(t, p, n)
<1>1. /\ DOMAIN u = DOMAIN t \cup {p}
      /\ u[p] = n
      /\ \A q \in DOMAIN t : q # p => u[q] = t[q]
  BY DEF Put
<1>2. u = [q \in DOMAIN u |-> u[q]]
  BY DEF Put
<1> HIDE DEF u
<1>3. DOMAIN u \subseteq Plain \ {<<>>} /\ \A q \in DOMAIN u : u[q] \in Node
  BY <1>1, TreePath
<1>4. ASSUME NEW r \in DOMAIN u, NEW q \in Path, Below(q, r), q # r PROVE IsDir(u, q)
  <2>1. IsDir(t, q)
    BY <1>1, <1>4, WayTo, WayToFront, PlainPath
  <2> QED BY <1>1, <2>1 DEF IsDir
<1>5. GoodTree(u)
  BY <1>2, <1>3, <1>4, GoodWhen
<1> QED BY <1>5 DEF u

LEMMA GoodWithout ==
  ASSUME NEW t, GoodTree(t), NEW p \in Path, \A q \in DOMAIN t : Below(p, q) => q = p
  PROVE  GoodTree(Without(t, {p}))
<1> DEFINE u == Without(t, {p})
<1>1. /\ DOMAIN u = DOMAIN t \ {p}
      /\ \A q \in DOMAIN t \ {p} : u[q] = t[q]
  BY WithoutIs
<1>2. u = [q \in DOMAIN u |-> u[q]]
  BY DEF Without
<1> HIDE DEF u
<1>3. DOMAIN u \subseteq Plain \ {<<>>} /\ \A q \in DOMAIN u : u[q] \in Node
  BY <1>1, TreePath
<1>4. ASSUME NEW r \in DOMAIN u, NEW q \in Path, Below(q, r), q # r PROVE IsDir(u, q)
  <2>1. r \in DOMAIN t /\ r # p
    BY <1>1
  <2>2. IsDir(t, q)
    BY <1>4, <2>1, WayTo
  <2>3. q # p
    BY <1>4, <2>1
  <2> QED BY <1>1, <2>2, <2>3 DEF IsDir
<1>5. GoodTree(u)
  BY <1>2, <1>3, <1>4, GoodWhen
<1> QED BY <1>5 DEF u

\* A directory without children has nothing below it.
LEMMA NoChildren ==
  ASSUME NEW t, GoodTree(t), NEW p \in Path, Children(t, p) = {}, NEW q \in DOMAIN t, Below(p, q)
  PROVE  q = p
<1> SUFFICES ASSUME q # p PROVE FALSE
  OBVIOUS
<1>1. q \in Path /\ Len(p) < Len(q) /\ Len(p) \in Nat /\ Len(q) \in Nat
  BY TreePath, StrictlyBelow, PathIs
<1> DEFINE n == Len(p) + 1
           k == SubSeq(q, 1, n)
<1>2. n \in 0..Len(q)
  BY <1>1
<1>3. k \in Path /\ Len(k) = n /\ \A i \in 1..n : k[i] = q[i]
  BY <1>1, <1>2, FirstNames
<1> HIDE DEF k
<1>4. Below(k, q)
  BY <1>1, <1>2, <1>3, BelowIs
<1>5. Below(p, k)
  BY <1>1, <1>3, <1>4, BelowOneWay
<1>6. k \in DOMAIN t
  <2>1. CASE k = q
    BY <2>1
  <2>2. CASE k # q
    <3>1. IsDir(t, k)
      BY <1>3, <1>4, <2>2, WayTo
    <3>2. k # <<>>
      BY <1>1, <1>3
    <3> QED BY <3>1, <3>2 DEF IsDir
  <2> QED BY <2>1, <2>2
<1> QED BY <1>3, <1>5, <1>6 DEF Children

\* Whatever DELE and RMD remove has nothing below it.
LEMMA RemovedIs ==
  ASSUME NEW t, GoodTree(t), NEW p \in Plain, CanDelete(t, p) \/ CanRemoveDir(t, p)
  PROVE  /\ \A q \in DOMAIN t : Below(Followed(t, p), q) => q = Followed(t, p)
         /\ GoodTree(Without(t, {Followed(t, p)}))
<1> DEFINE r == Followed(t, p)
<1>1. r \in Path
  BY FollowedType, PlainPath
<1>2. CanDelete(t, p) => ~IsDir(t, r)
  BY TreePath DEF CanDelete, IsDir
<1>3. CanRemoveDir(t, p) => Children(t, r) = {}
  BY DEF CanRemoveDir
<1> HIDE DEF r
<1>4. \A q \in DOMAIN t : Below(r, q) => q = r
  BY <1>1, <1>2, <1>3, NoneBelow, NoChildren
<1> QED BY <1>1, <1>4, GoodWithout DEF r

\* After a rename a path is one that did not move, or a moved one.
LEMMA MovedIs ==
  ASSUME NEW t, GoodTree(t), NEW from \in Plain, NEW to \in Plain, CanMove(t, from, to)
  PROVE  /\ \A r \in DOMAIN Moved(t, from, to) :
              \/ r \in DOMAIN t /\ ~Below(from, r) /\ ~Below(to, r)
              \/ \E q \in DOMAIN t : Below(from, q) /\ r = to \o Beyond(from, q)
         /\ \A r \in DOMAIN t : ~Below(from, r) =>
              ~Below(to, r) /\ r \in DOMAIN Moved(t, from, to) /\ Moved(t, from, to)[r] = t[r]
         /\ \A q \in DOMAIN t : Below(from, q) =>
              /\ to \o Beyond(from, q) \in DOMAIN Moved(t, from, to)
              /\ Moved(t, from, to)[to \o Beyond(from, q)] = t[q]
<1> DEFINE u == Moved(t, from, to)
           moved == {q \in DOMAIN t : Below(from, q)}
           D == (DOMAIN t \ moved) \cup {to \o Beyond(from, q) : q \in moved}
<1>1. DOMAIN u = D /\ \A r \in D : u[r] = IF Below(to, r) THEN t[from \o Beyond(to, r)] ELSE t[r]
  BY DEF Moved
<1>2. from \in Path /\ to \in Path /\ to \notin DOMAIN t /\ from \in DOMAIN t
  BY PlainPath DEF CanMove
<1>3. ASSUME NEW r \in DOMAIN t PROVE ~Below(to, r)
  <2>1. IsDir(t, Front(to)) /\ to # <<>>
    BY DEF CanMove
  <2>2. ~IsDir(t, to)
    BY <1>2, <2>1 DEF IsDir
  <2> QED BY <1>2, <2>2, WayTo
<1>4. ASSUME NEW q \in moved
      PROVE  /\ Below(to, to \o Beyond(from, q))
             /\ from \o Beyond(to, to \o Beyond(from, q)) = q
  <2>1. q \in Path /\ Below(from, q)
    BY TreePath
  <2>2. Beyond(from, q) \in Path
    BY <1>2, <2>1, BeyondIs
  <2> QED BY <1>2, <2>1, <2>2, JoinBelow, BeyondJoin, JoinBeyond
<1> HIDE DEF u
<1>5. \A r \in DOMAIN u :
        \/ r \in DOMAIN t /\ ~Below(from, r) /\ ~Below(to, r)
        \/ \E q \in DOMAIN t : Below(from, q) /\ r = to \o Beyond(from, q)
  BY <1>1, <1>3
<1>6. \A r \in DOMAIN t : ~Below(from, r) => ~Below(to, r) /\ r \in DOMAIN u /\ u[r] = t[r]
  BY <1>1, <1>3
<1>7. ASSUME NEW q \in DOMAIN t, Below(from, q)
      PROVE  to \o Beyond(from, q) \in DOMAIN u /\ u[to \o Beyond(from, q)] = t[q]
  <2>1. q \in moved /\ to \o Beyond(from, q) \in D
    BY <1>7
  <2> HIDE DEF D, moved
  <2> QED BY <1>1, <1>4, <2>1
<1> QED BY <1>5, <1>6, <1>7 DEF u

LEMMA GoodMoved ==
  ASSUME NEW t, GoodTree(t), NEW from \in Plain, NEW to \in Plain, CanMove(t, from, to)
  PROVE  GoodTree(Moved(t, from, to))
<1> DEFINE u == Moved(t, from, to)
<1>1. \A r \in DOMAIN u :
        \/ r \in DOMAIN t /\ ~Below(from, r) /\ ~Below(to, r)
        \/ \E q \in DOMAIN t : Below(from, q) /\ r = to \o Beyond(from, q)
  BY MovedIs
<1>2. \A r \in DOMAIN t : ~Below(from, r) => r \in DOMAIN u /\ u[r] = t[r]
  BY MovedIs
<1>3. \A q \in DOMAIN t : Below(from, q) =>
        to \o Beyond(from, q) \in DOMAIN u /\ u[to \o Beyond(from, q)] = t[q]
  BY MovedIs
<1>4. u = [r \in DOMAIN u |-> u[r]]
  BY DEF Moved
<1>5. /\ from \in Path /\ to \in Path /\ to # <<>> /\ from # <<>> /\ from \in DOMAIN t
      /\ IsDir(t, Front(to)) /\ ~Below(from, to)
  BY PlainPath, TreePath DEF CanMove
<1> HIDE DEF u
<1>6. ASSUME NEW q \in DOMAIN t, Below(from, q)
      PROVE  /\ q \in Path /\ Beyond(from, q) \in Path
             /\ to \o Beyond(from, q) \in Plain \ {<<>>}
  <2>1. q \in Path /\ q \in Plain
    BY TreePath
  <2>2. Beyond(from, q) \in Path /\ Beyond(from, q) \in Plain
    BY <1>5, <1>6, <2>1, BeyondPlain, PlainPath
  <2>3. Len(to) \in Nat /\ Len(to) # 0 /\ Len(Beyond(from, q)) \in Nat
        /\ Len(to \o Beyond(from, q)) = Len(to) + Len(Beyond(from, q)) /\ Len(<<>>) = 0
    BY <1>5, <2>2, JoinIs, PathIs DEF Path
  <2>4. to \o Beyond(from, q) \in Plain
    BY <2>2, JoinPlain
  <2> QED BY <2>1, <2>2, <2>3, <2>4
<1>7. DOMAIN u \subseteq Plain \ {<<>>} /\ \A r \in DOMAIN u : u[r] \in Node
  BY <1>1, <1>2, <1>3, <1>6, TreePath
<1>8. ASSUME NEW p \in Path, IsDir(t, p), ~Below(from, p) PROVE IsDir(u, p)
  BY <1>2, <1>8 DEF IsDir
<1>9. ASSUME NEW r \in DOMAIN u, NEW p \in Path, Below(p, r), p # r PROVE IsDir(u, p)
  <2>1. CASE r \in DOMAIN t /\ ~Below(from, r)
    <3>1. IsDir(t, p) /\ r \in Path
      BY <1>9, <2>1, WayTo, TreePath
    <3>2. ~Below(from, p)
      BY <1>5, <1>9, <2>1, <3>1, BelowTransitive
    <3> QED BY <1>8, <3>1, <3>2
  <2>2. ASSUME NEW q \in DOMAIN t, Below(from, q), r = to \o Beyond(from, q) PROVE IsDir(u, p)
    <3>1. q \in Path /\ Beyond(from, q) \in Path /\ r \in Path /\ Below(to, r)
      BY <1>5, <1>6, <2>2, JoinBelow, PlainPath
    <3>2. CASE ~Below(to, p)
      <4>1. Below(p, to) /\ p # to
        <5>1. Len(p) \in Nat /\ Len(to) \in Nat
          BY <1>5, PathIs
        <5>2. Len(to) <= Len(p) => Below(to, p)
          BY <1>5, <1>9, <3>1, BelowOneWay
        <5>3. Len(p) <= Len(to)
          BY <3>2, <5>1, <5>2
        <5> QED BY <1>5, <1>9, <3>1, <3>2, <5>3, BelowOneWay, BelowItself
      <4>2. IsDir(t, p)
        BY <1>5, <4>1, WayToFront
      <4>3. ~Below(from, p)
        BY <1>5, <4>1, BelowTransitive
      <4> QED BY <1>8, <4>2, <4>3
    <3>3. CASE Below(to, p)
      <4> DEFINE b == Beyond(to, p)
                 k == from \o b
      <4>1. b \in Path /\ p = to \o b
        BY <1>5, <3>3, BeyondIs, JoinBeyond
      <4>2. Below(from, k) /\ k \in Path /\ Beyond(from, k) = b
        <5> HIDE DEF b
        <5> QED BY <1>5, <4>1, JoinBelow, JoinIs, BeyondJoin
      <4>3. Below(k, q) /\ k # q
        <5>1. Below(to \o b, to \o Beyond(from, q))
          BY <1>9, <2>2, <4>1
        <5>2. Below(b, Beyond(from, q))
          <6> HIDE DEF b
          <6> QED BY <1>5, <3>1, <4>1, <5>1, BelowBeyond
        <5>3. Below(from \o b, from \o Beyond(from, q))
          <6> HIDE DEF b
          <6> QED BY <1>5, <3>1, <4>1, <5>2, BelowBeyond
        <5>4. from \o Beyond(from, q) = q
          BY <1>5, <2>2, <3>1, JoinBeyond
        <5>5. b # Beyond(from, q)
          BY <1>9, <2>2, <4>1
        <5>6. k # q
          BY <4>2, <5>5
        <5> QED BY <5>3, <5>4, <5>6
      <4> HIDE DEF b, k
      <4>4. IsDir(t, k) /\ k # <<>>
        <5>1. IsDir(t, k)
          BY <4>2, <4>3, WayTo
        <5>2. Len(from) <= Len(k) /\ Len(from) \in Nat /\ Len(from) # 0 /\ Len(<<>>) = 0
          BY <1>5, <4>2, BelowIs, PathIs DEF Path
        <5> QED BY <5>1, <5>2
      <4>5. k \in DOMAIN t /\ t[k].kind = "dir"
        BY <4>4 DEF IsDir
      <4>6. p \in DOMAIN u /\ u[p] = t[k]
        BY <1>3, <4>1, <4>2, <4>5
      <4> QED BY <4>5, <4>6 DEF IsDir
    <3> QED BY <3>2, <3>3
  <2> QED BY <1>1, <2>1, <2>2
<1>10. GoodTree(u)
  BY <1>4, <1>7, <1>9, GoodWhen
<1> QED BY <1>10 DEF u

-----------------------------------------------------------------------------
(* Walks. *)

On(stack) == {stack[i] : i \in 1..Len(stack)}

LEMMA TopIs ==
  ASSUME NEW S, NEW s \in Seq(S), s # <<>>
  PROVE  /\ Head(s) \in S
         /\ Tail(s) \in Seq(S)
         /\ On(s) = {Head(s)} \cup On(Tail(s))
<1>1. Head(s) \in S /\ Tail(s) \in Seq(S) /\ Len(s) \in Nat /\ Len(s) >= 1 /\ Head(s) = s[1]
  OBVIOUS
<1>2. Len(Tail(s)) = Len(s) - 1 /\ \A i \in 1..(Len(s) - 1) : Tail(s)[i] = s[i + 1]
  OBVIOUS
<1> DEFINE t == Tail(s)
<1> HIDE DEF t
<1>3. ASSUME NEW i \in 1..Len(s) PROVE s[i] = s[1] \/ s[i] \in On(t)
  <2>1. i # 1 => i - 1 \in 1..Len(t) /\ t[i - 1] = s[i]
    BY <1>1, <1>2 DEF t
  <2> QED BY <2>1 DEF On
<1>4. ASSUME NEW i \in 1..Len(t) PROVE t[i] \in On(s)
  <2>1. i + 1 \in 1..Len(s) /\ t[i] = s[i + 1]
    BY <1>1, <1>2 DEF t
  <2> QED BY <2>1 DEF On
<1>5. s[1] \in On(s)
  BY <1>1 DEF On
<1>6. On(s) = {s[1]} \cup On(t)
  BY <1>3, <1>4, <1>5 DEF On
<1> QED BY <1>1, <1>6 DEF t

LEMMA TailIs ==
  ASSUME NEW S, NEW s \in Seq(S), s # <<>>
  PROVE  /\ Len(s) \in Nat /\ Len(s) >= 1
         /\ Tail(s) \in Seq(S)
         /\ Len(Tail(s)) = Len(s) - 1
         /\ \A i \in 1..(Len(s) - 1) : Tail(s)[i] = s[i + 1]
         /\ Tail(s) = <<>> <=> Len(s) = 1
<1>1. Len(s) \in Nat /\ Len(s) >= 1 /\ Tail(s) \in Seq(S) /\ Len(Tail(s)) = Len(s) - 1
      /\ \A i \in 1..(Len(s) - 1) : Tail(s)[i] = s[i + 1]
  OBVIOUS
<1>2. Len(Tail(s)) = 0 <=> Tail(s) = <<>>
  BY <1>1, EmptySeq
<1> QED BY <1>1, <1>2

LEMMA OnJoined ==
  ASSUME NEW S, NEW s \in Seq(S), NEW t \in Seq(S)
  PROVE  s \o t \in Seq(S) /\ On(s \o t) = On(s) \cup On(t)
<1> DEFINE r == s \o t
<1>1. /\ r \in Seq(S) /\ Len(r) = Len(s) + Len(t)
      /\ Len(s) \in Nat /\ Len(t) \in Nat
      /\ \A i \in 1..Len(s) : r[i] = s[i]
      /\ \A i \in 1..Len(t) : r[Len(s) + i] = t[i]
  OBVIOUS
<1> HIDE DEF r
<1>2. ASSUME NEW i \in 1..Len(r) PROVE r[i] \in On(s) \cup On(t)
  <2>1. i \in 1..Len(s) \/ (i - Len(s) \in 1..Len(t) /\ Len(s) + (i - Len(s)) = i)
    BY <1>1
  <2> QED BY <1>1, <2>1 DEF On
<1>3. ASSUME NEW i \in 1..Len(s) PROVE s[i] \in On(r)
  <2>1. i \in 1..Len(r) /\ r[i] = s[i]
    BY <1>1
  <2> QED BY <2>1 DEF On
<1>4. ASSUME NEW i \in 1..Len(t) PROVE t[i] \in On(r)
  <2>1. Len(s) + i \in 1..Len(r) /\ r[Len(s) + i] = t[i]
    BY <1>1
  <2> QED BY <2>1 DEF On
<1>5. On(r) = On(s) \cup On(t)
  BY <1>2, <1>3, <1>4 DEF On
<1> QED BY <1>1, <1>5 DEF r

LEMMA OnOne == \A f : On(<<f>>) = {f}
BY DEF On

LEMMA OnTwo == \A f, g : On(<<f, g>>) = {f, g}
<1> SUFFICES ASSUME NEW f, NEW g PROVE On(<<f, g>>) = {f, g}
  OBVIOUS
<1>1. Len(<<f, g>>) = 2 /\ <<f, g>>[1] = f /\ <<f, g>>[2] = g
  OBVIOUS
<1> DEFINE s == <<f, g>>
<1> HIDE DEF s
<1>2. Len(s) = 2 /\ s[1] = f /\ s[2] = g
  BY <1>1 DEF s
<1>3. On(s) = {f, g}
  BY <1>2 DEF On
<1> QED BY <1>3 DEF s

\* One client moves: the others stay, and its call stays what it is.
LEMMA MovesIs ==
  ASSUME op \in [Clients -> Operation], NEW c \in Clients, NEW stack, NEW result,
         Moves(c, stack, result)
  PROVE  /\ op'[c].call = op[c].call /\ op'[c].stack = stack /\ op'[c].result = result
         /\ \A d \in Clients : d # c => op'[d] = op[d]
         /\ stack \in Seq(Frame) /\ result \in {"running", "ok", "error"} => op' \in [Clients -> Operation]
BY DEF Moves, Operation

StacksOK == /\ op \in [Clients -> Operation]
            /\ \A c \in Clients : Busy(c) <=> op[c].stack # <<>>

LEMMA TopType ==
  ASSUME StacksOK, NEW c \in Clients, Busy(c)
  PROVE  /\ Top(c) \in Frame
         /\ op[c].stack \in Seq(Frame) /\ op[c].stack # <<>> /\ Tail(op[c].stack) \in Seq(Frame)
         /\ On(op[c].stack) = {Top(c)} \cup On(Tail(op[c].stack))
         /\ On(op[c].stack) \subseteq Frame
<1>1. op[c].stack \in Seq(Frame) /\ op[c].stack # <<>>
  BY DEF StacksOK, Operation
<1>2. On(op[c].stack) \subseteq Frame
  BY <1>1 DEF On
<1> QED BY <1>1, <1>2, TopIs DEF Top

\* The walk goes on in frames, and in what was below the top.
LEMMA GoesIs ==
  ASSUME StacksOK, NEW c \in Clients, Busy(c), NEW frames \in Seq(Frame), frames # <<>>,
         Goes(c, frames)
  PROVE  /\ StacksOK'
         /\ op'[c].call = op[c].call /\ op'[c].result = "running"
         /\ On(op'[c].stack) = On(frames) \cup On(Tail(op[c].stack))
         /\ \A d \in Clients : d # c => op'[d] = op[d]
<1> DEFINE s == frames \o Tail(op[c].stack)
<1>1. Tail(op[c].stack) \in Seq(Frame)
  BY TopType
<1>2. s \in Seq(Frame) /\ On(s) = On(frames) \cup On(Tail(op[c].stack)) /\ s # <<>>
  <2>1. s # <<>>
    BY <1>1
  <2> QED BY <1>1, <2>1, OnJoined
<1>3. Moves(c, s, "running")
  BY DEF Goes
<1> HIDE DEF s
<1>4. /\ op'[c].call = op[c].call /\ op'[c].stack = s /\ op'[c].result = "running"
      /\ \A d \in Clients : d # c => op'[d] = op[d]
      /\ op' \in [Clients -> Operation]
  BY <1>2, <1>3, MovesIs DEF StacksOK
<1> QED BY <1>2, <1>4 DEF StacksOK, Busy

LEMMA PopIs ==
  ASSUME StacksOK, NEW c \in Clients, Busy(c), Pop(c)
  PROVE  /\ StacksOK'
         /\ op'[c].call = op[c].call
         /\ op'[c].stack = Tail(op[c].stack)
         /\ op'[c].result = IF Len(op[c].stack) = 1 THEN "ok" ELSE "running"
         /\ \A d \in Clients : d # c => op'[d] = op[d]
<1> DEFINE s == Tail(op[c].stack)
           result == IF Len(op[c].stack) = 1 THEN "ok" ELSE "running"
<1>1. s \in Seq(Frame) /\ (s # <<>> <=> Len(op[c].stack) # 1)
  <2>1. op[c].stack \in Seq(Frame) /\ op[c].stack # <<>>
    BY TopType
  <2> QED BY <2>1, TailIs
<1>2. Moves(c, s, result)
  BY DEF Pop
<1>3. result \in {"running", "ok", "error"} /\ (result = "running" <=> s # <<>>)
  BY <1>1
<1> HIDE DEF s, result
<1>4. /\ op'[c].call = op[c].call /\ op'[c].stack = s /\ op'[c].result = result
      /\ \A d \in Clients : d # c => op'[d] = op[d]
      /\ op' \in [Clients -> Operation]
  BY <1>1, <1>2, <1>3, MovesIs DEF StacksOK
<1>5. StacksOK'
  BY <1>3, <1>4 DEF StacksOK, Busy
<1> QED BY <1>4, <1>5 DEF s, result

LEMMA EndIs ==
  ASSUME StacksOK, NEW c \in Clients, NEW result \in {"ok", "error"}, Moves(c, <<>>, result)
  PROVE  /\ StacksOK'
         /\ op'[c].call = op[c].call /\ op'[c].stack = <<>> /\ op'[c].result = result
         /\ \A d \in Clients : d # c => op'[d] = op[d]
<1>1. <<>> \in Seq(Frame)
  OBVIOUS
<1>2. /\ op'[c].call = op[c].call /\ op'[c].stack = <<>> /\ op'[c].result = result
      /\ \A d \in Clients : d # c => op'[d] = op[d]
      /\ op' \in [Clients -> Operation]
  BY <1>1, MovesIs DEF StacksOK
<1> QED BY <1>2 DEF StacksOK, Busy

-----------------------------------------------------------------------------
(* Types. *)

LEMMA ListingType ==
  ASSUME TypeOK, NEW p \in Plain
  PROVE  Unwalked(p) \subseteq Entry
<1>1. \A q \in DOMAIN tree : [name |-> <<Last(q)>>, kind |-> tree[q].kind] \in Entry
  <2> TAKE q \in DOMAIN tree
  <2>1. q \in Path /\ q # <<>> /\ tree[q] \in Node
    BY TreePath DEF TypeOK
  <2>2. Last(q) \in STRING
    <3>1. Len(q) \in 1..Len(q)
      BY <2>1 DEF Path
    <3> QED BY <2>1, <3>1, PathIs DEF Last
  <2>3. <<Last(q)>> \in Path
    BY <2>2 DEF Path
  <2> QED BY <2>1, <2>3 DEF Entry, Node
<1>2. odd \subseteq Entry
  BY DEF TypeOK
<1> QED BY <1>1, <1>2 DEF Unwalked, Listing, Children

LEMMA KeepType ==
  ASSUME TypeOK, GoodTree(tree'), Keep
  PROVE  (kept \in [Clients -> SUBSET Plain])'
<1>1. Files(tree') \subseteq Plain
  BY DEF GoodTree, Files
<1> QED BY <1>1 DEF Keep, TypeOK

\* What the parts of the state need for the types.
LEMMA TypeWhen ==
  ASSUME TypeOK, UNCHANGED odd, GoodTree(tree'), DOMAIN local' \subseteq Path \ {<<>>}, StacksOK', Keep
  PROVE  TypeOK'
BY KeepType DEF TypeOK, StacksOK

LEMMA VisitType ==
  ASSUME NEW at \in {"once", "delete", "list"}, NEW p \in Plain, NEW to \in Path
  PROVE  Visit(at, p, to) \in Frame
BY DEF Visit, Frame

LEMMA OneFrame == \A f \in Frame : <<f>> \in Seq(Frame) /\ <<f>> # <<>>
OBVIOUS

LEMMA TwoFrames == \A f, g \in Frame : <<f, g>> \in Seq(Frame) /\ <<f, g>> # <<>>
OBVIOUS

\* Going on with one frame instead of the top one, or with two.
LEMMA GoesOne ==
  ASSUME StacksOK, NEW c \in Clients, Busy(c), NEW f \in Frame, Goes(c, <<f>>)
  PROVE  /\ StacksOK'
         /\ op'[c].call = op[c].call /\ op'[c].result = "running"
         /\ On(op'[c].stack) = {f} \cup On(Tail(op[c].stack))
         /\ \A d \in Clients : d # c => op'[d] = op[d]
<1>1. <<f>> \in Seq(Frame) /\ <<f>> # <<>> /\ On(<<f>>) = {f}
  BY OneFrame, OnOne
<1> DEFINE fs == <<f>>
<1> HIDE DEF fs
<1>2. fs \in Seq(Frame) /\ fs # <<>> /\ On(fs) = {f} /\ Goes(c, fs)
  BY <1>1 DEF fs
<1> QED BY <1>2, GoesIs

LEMMA GoesTwo ==
  ASSUME StacksOK, NEW c \in Clients, Busy(c), NEW f \in Frame, NEW g \in Frame, Goes(c, <<f, g>>)
  PROVE  /\ StacksOK'
         /\ op'[c].call = op[c].call /\ op'[c].result = "running"
         /\ On(op'[c].stack) = {f, g} \cup On(Tail(op[c].stack))
         /\ \A d \in Clients : d # c => op'[d] = op[d]
<1>1. <<f, g>> \in Seq(Frame) /\ <<f, g>> # <<>> /\ On(<<f, g>>) = {f, g}
  BY TwoFrames, OnTwo
<1> DEFINE fs == <<f, g>>
<1> HIDE DEF fs
<1>2. fs \in Seq(Frame) /\ fs # <<>> /\ On(fs) = {f, g} /\ Goes(c, fs)
  BY <1>1 DEF fs
<1> QED BY <1>2, GoesIs

LEMMA AnswerIs ==
  ASSUME StacksOK, NEW c \in Clients, NEW ok \in BOOLEAN, Answer(c, ok)
  PROVE  /\ StacksOK'
         /\ op'[c].call = op[c].call /\ op'[c].stack = <<>>
         /\ op'[c].result = (IF ok THEN "ok" ELSE "error")
         /\ \A d \in Clients : d # c => op'[d] = op[d]
<1> DEFINE result == IF ok THEN "ok" ELSE "error"
<1>1. result \in {"ok", "error"} /\ Moves(c, <<>>, result)
  BY DEF Answer
<1> HIDE DEF result
<1>2. /\ StacksOK'
      /\ op'[c].call = op[c].call /\ op'[c].stack = <<>> /\ op'[c].result = result
      /\ \A d \in Clients : d # c => op'[d] = op[d]
  BY <1>1, EndIs
<1> QED BY <1>2 DEF result

LEMMA FailsIs ==
  ASSUME StacksOK, NEW c \in Clients, Fails(c)
  PROVE  /\ StacksOK'
         /\ op'[c].call = op[c].call /\ op'[c].stack = <<>> /\ op'[c].result = "error"
         /\ \A d \in Clients : d # c => op'[d] = op[d]
BY EndIs DEF Fails

\* An entry is walked or deleted under a plain path.
LEMMA EntryPath ==
  ASSUME NEW p \in Plain, NEW e \in Entry
  PROVE  CleanRoot(p \o e.name) \in Plain
<1>1. p \in Path /\ e.name \in Path
  BY PlainPath DEF Entry
<1>2. p \o e.name \in Path
  BY <1>1, JoinIs
<1> QED BY <1>2, CleanType

LEMMA FirstType ==
  ASSUME NEW call \in [what : Commands, path : Plain, to : Path, rec : BOOLEAN]
  PROVE  /\ First(call) \in Seq(Frame) /\ First(call) # <<>>
         /\ \E f \in Frame : First(call) = <<f>>
<1>1. call.path \in Plain /\ call.to \in Path /\ <<>> \in Path
  BY BelowRoot
<1>2. Visit("delete", call.path, <<>>) \in Frame /\ Visit("list", call.path, call.to) \in Frame
      /\ Visit("once", call.path, call.to) \in Frame
  BY <1>1, VisitType
<1> QED BY <1>2, OneFrame DEF First

LEMMA AskedType ==
  ASSUME NEW call \in Request
  PROVE  Asked(call) \in [what : Commands, path : Plain, to : Path, rec : BOOLEAN]
<1>1. CleanRoot(call.path) \in Plain
  BY CleanType DEF Request
<1> QED BY <1>1 DEF Asked, Request

\* A call is refused, or begins with its first frame.
LEMMA CallIs ==
  ASSUME TypeOK, NEW c \in Clients, Call(c)
  PROVE  /\ StacksOK'
         /\ op[c].result = "none"
         /\ op'[c].call \in [what : Commands, path : Plain, to : Path, rec : BOOLEAN]
         /\ \/ op'[c].stack = <<>> /\ op'[c].result = "error"
            \/ op'[c].stack = First(op'[c].call) /\ op'[c].result = "running"
         /\ \A d \in Clients : d # c => op'[d] = op[d]
<1>1. PICK call \in Calls[c] :
        op' = [op EXCEPT ![c] =
                 [call |-> Asked(call),
                  stack |-> IF Refused(c, call) THEN <<>> ELSE First(Asked(call)),
                  result |-> IF Refused(c, call) THEN "error" ELSE "running"]]
  BY DEF Call
<1>2. Asked(call) \in [what : Commands, path : Plain, to : Path, rec : BOOLEAN]
  BY CallAssumption, AskedType
<1> DEFINE a == Asked(call)
           r == Refused(c, call)
           o == [call |-> a, stack |-> IF r THEN <<>> ELSE First(a),
                 result |-> IF r THEN "error" ELSE "running"]
<1>3. First(a) \in Seq(Frame) /\ First(a) # <<>>
  BY <1>2, FirstType
<1>4. o \in Operation
  <2>1. a \in [what : Commands \cup {"none"}, path : Plain, to : Path, rec : BOOLEAN]
    BY <1>2
  <2>2. (IF r THEN <<>> ELSE First(a)) \in Seq(Frame)
    BY <1>3
  <2> HIDE DEF a, r
  <2> QED BY <2>1, <2>2 DEF Operation
<1>5. /\ o.call = a
      /\ r => o.stack = <<>> /\ o.result = "error"
      /\ ~r => o.stack = First(a) /\ o.result = "running"
  OBVIOUS
<1>6. op' = [op EXCEPT ![c] = o]
  BY <1>1
<1>7. op \in [Clients -> Operation] /\ \A d \in Clients : Busy(d) <=> op[d].stack # <<>>
  BY DEF TypeOK
<1>8. op[c].result = "none"
  BY DEF Call
<1>9. a \in [what : Commands, path : Plain, to : Path, rec : BOOLEAN]
  BY <1>2
<1> HIDE DEF o, a, r
<1>10. op'[c] = o /\ op' \in [Clients -> Operation] /\ \A d \in Clients : d # c => op'[d] = op[d]
  BY <1>4, <1>6, <1>7
<1>11. \A d \in Clients : Busy(d)' <=> op'[d].stack # <<>>
  BY <1>3, <1>5, <1>7, <1>10 DEF Busy
<1>12. StacksOK'
  BY <1>10, <1>11 DEF StacksOK
<1> QED BY <1>5, <1>8, <1>9, <1>10, <1>12

LEMMA InitType == Init => TypeOK
<1> SUFFICES ASSUME Init PROVE TypeOK
  OBVIOUS
<1>1. Idle \in Operation
  <2>1. <<>> \in Plain /\ <<>> \in Path
    BY BelowRoot DEF Plain, Path
  <2>2. Idle.stack = <<>> /\ <<>> \in Seq(Frame)
    BY DEF Idle
  <2> QED BY <2>1, <2>2 DEF Idle, Operation
<1>2. op \in [Clients -> Operation] /\ \A c \in Clients : op[c] = Idle
  BY <1>1 DEF Init
<1>3. \A c \in Clients : Busy(c) <=> op[c].stack # <<>>
  BY <1>2 DEF Busy, Idle
<1>4. GoodTree(tree) /\ odd \in SUBSET Entry
  BY TreeAssumption, OddityAssumption DEF Init
<1>5. DOMAIN local \subseteq Path \ {<<>>} /\ kept \in [Clients -> SUBSET Plain]
  BY DEF Init
<1> QED BY <1>2, <1>3, <1>4, <1>5 DEF TypeOK

LEMMA RemoveType ==
  ASSUME TypeOK, NEW c \in Clients, RemoveStep(c)
  PROVE  TypeOK'
<1>1. /\ StacksOK /\ Busy(c) /\ GoodTree(tree)
      /\ DOMAIN local \subseteq Path \ {<<>>} /\ UNCHANGED <<odd, local>> /\ Keep
  BY DEF TypeOK, StacksOK, RemoveStep, RemoveTry, RemoveList, RemoveEntry, RemoveEmpty, Does
<1>2. Top(c) \in Frame /\ Top(c).path \in Plain
  BY <1>1, TopType DEF Frame
<1>3. ASSUME UNCHANGED tree \/ (\E p \in Plain : /\ CanDelete(tree, p) \/ CanRemoveDir(tree, p)
                                                 /\ tree' = Without(tree, {Followed(tree, p)}))
      PROVE  GoodTree(tree')
  BY <1>1, <1>3, RemovedIs
<1>4. CASE RemoveTry(c)
  <2>1. GoodTree(tree')
    BY <1>2, <1>3, <1>4 DEF RemoveTry
  <2>2. StacksOK'
    <3>1. [Top(c) EXCEPT !.at = "list"] \in Frame
      BY <1>2 DEF Frame
    <3> QED BY <1>1, <1>4, <3>1, PopIs, GoesOne DEF RemoveTry
  <2> QED BY <1>1, <2>1, <2>2, TypeWhen
<1>5. CASE RemoveList(c)
  <2>1. [Top(c) EXCEPT !.at = "each", !.todo = Unwalked(Top(c).path)] \in Frame
    BY <1>2, ListingType DEF Frame
  <2>2. StacksOK'
    BY <1>1, <1>5, <2>1, FailsIs, GoesOne DEF RemoveList
  <2> QED BY <1>1, <1>5, <2>2, TypeWhen DEF RemoveList
<1>6. CASE RemoveEntry(c)
  <2>1. PICK e \in Top(c).todo :
          LET full == CleanRoot(Top(c).path \o e.name)
              rest == [Top(c) EXCEPT !.todo = @ \ {e}]
          IN \/ Goes(c, <<Visit("delete", full, <<>>), rest>>) /\ UNCHANGED tree
             \/ /\ CanDelete(tree, full)
                /\ tree' = Without(tree, {Followed(tree, full)})
                /\ Goes(c, <<rest>>)
             \/ Fails(c) /\ UNCHANGED tree
    BY <1>6 DEF RemoveEntry
  <2> DEFINE full == CleanRoot(Top(c).path \o e.name)
             rest == [Top(c) EXCEPT !.todo = @ \ {e}]
  <2>2. full \in Plain
    BY <1>2, EntryPath DEF Frame
  <2>3. rest \in Frame
    BY <1>2 DEF Frame
  <2>4. Visit("delete", full, <<>>) \in Frame
    BY <2>2, VisitType, RootPath
  <2> HIDE DEF full, rest
  <2>5. GoodTree(tree') /\ StacksOK'
    <3>1. CASE Goes(c, <<Visit("delete", full, <<>>), rest>>) /\ UNCHANGED tree
      BY <1>1, <2>3, <2>4, <3>1, GoesTwo
    <3>2. CASE /\ CanDelete(tree, full)
               /\ tree' = Without(tree, {Followed(tree, full)})
               /\ Goes(c, <<rest>>)
      BY <1>1, <1>3, <2>2, <2>3, <3>2, GoesOne
    <3>3. CASE Fails(c) /\ UNCHANGED tree
      BY <1>1, <3>3, FailsIs
    <3> QED BY <2>1, <3>1, <3>2, <3>3 DEF full, rest
  <2> QED BY <1>1, <2>5, TypeWhen
<1>7. CASE RemoveEmpty(c)
  <2>1. GoodTree(tree')
    BY <1>2, <1>3, <1>7 DEF RemoveEmpty
  <2>2. StacksOK'
    BY <1>1, <1>7, PopIs, FailsIs DEF RemoveEmpty
  <2> QED BY <1>1, <2>1, <2>2, TypeWhen
<1> QED BY <1>4, <1>5, <1>6, <1>7 DEF RemoveStep

LEMMA DownloadType ==
  ASSUME TypeOK, NEW c \in Clients, DownloadStep(c)
  PROVE  TypeOK'
<1>1. /\ StacksOK /\ Busy(c) /\ GoodTree(tree)
      /\ DOMAIN local \subseteq Path \ {<<>>} /\ UNCHANGED <<odd, tree>> /\ Keep
  BY DEF TypeOK, StacksOK, DownloadStep, DownloadList, DownloadEntry, DownloadDone, Does
<1>2. Top(c) \in Frame /\ Top(c).path \in Plain /\ Top(c).to \in Path /\ Top(c).todo \subseteq Entry
  BY <1>1, TopType DEF Frame
<1>3. CASE DownloadList(c)
  <2>1. [Top(c) EXCEPT !.at = "each", !.todo = Unwalked(Top(c).path)] \in Frame
    BY <1>2, ListingType DEF Frame
  <2>2. StacksOK'
    BY <1>1, <1>3, <2>1, FailsIs, GoesOne DEF DownloadList
  <2> QED BY <1>1, <1>3, <2>2, TypeWhen DEF DownloadList
<1>4. CASE DownloadEntry(c)
  <2>1. PICK e \in Top(c).todo :
          LET remote == CleanRoot(Top(c).path \o e.name)
              rest == [Top(c) EXCEPT !.todo = @ \ {e}]
          IN \/ Goes(c, <<rest>>) /\ UNCHANGED local
             \/ \E p \in LocalEntryPath(Top(c).to, e.name) :
                  \/ Goes(c, <<Visit("list", remote, p), rest>>) /\ UNCHANGED local
                  \/ local' = Put(local, p, Directory(tree, remote)) /\ Goes(c, <<rest>>)
                  \/ Fails(c) /\ UNCHANGED local
    BY <1>4 DEF DownloadEntry, Unretrieved
  <2> DEFINE remote == CleanRoot(Top(c).path \o e.name)
             rest == [Top(c) EXCEPT !.todo = @ \ {e}]
  <2>2. remote \in Plain
    BY <1>2, EntryPath
  <2>3. rest \in Frame
    BY <1>2 DEF Frame
  <2>4. \A p \in LocalEntryPath(Top(c).to, e.name) : p \in Path \ {<<>>}
    BY <1>2, EntryIsSavedBelow DEF Entry
  <2> HIDE DEF remote, rest
  <2>5. StacksOK' /\ DOMAIN local' \subseteq Path \ {<<>>}
    <3>1. CASE Goes(c, <<rest>>) /\ UNCHANGED local
      BY <1>1, <2>3, <3>1, GoesOne
    <3>2. ASSUME NEW p \in LocalEntryPath(Top(c).to, e.name),
                 Goes(c, <<Visit("list", remote, p), rest>>) /\ UNCHANGED local
          PROVE  StacksOK' /\ DOMAIN local' \subseteq Path \ {<<>>}
      <4>1. Visit("list", remote, p) \in Frame
        BY <2>2, <2>4, VisitType
      <4> QED BY <1>1, <2>3, <3>2, <4>1, GoesTwo
    <3>3. ASSUME NEW p \in LocalEntryPath(Top(c).to, e.name),
                 local' = Put(local, p, Directory(tree, remote)), Goes(c, <<rest>>)
          PROVE  StacksOK' /\ DOMAIN local' \subseteq Path \ {<<>>}
      <4>1. DOMAIN local' = DOMAIN local \cup {p}
        BY <3>3 DEF Put
      <4> QED BY <1>1, <2>3, <2>4, <3>3, <4>1, GoesOne
    <3>4. CASE Fails(c) /\ UNCHANGED local
      BY <1>1, <3>4, FailsIs
    <3> QED BY <2>1, <3>1, <3>2, <3>3, <3>4 DEF remote, rest
  <2> QED BY <1>1, <2>5, TypeWhen
<1>5. CASE DownloadDone(c)
  <2>1. StacksOK'
    BY <1>1, <1>5, PopIs DEF DownloadDone
  <2> QED BY <1>1, <1>5, <2>1, TypeWhen DEF DownloadDone
<1> QED BY <1>3, <1>4, <1>5 DEF DownloadStep

\* A file or a directory is put where there is none, in a directory.
LEMMA NodeTypes ==
  [kind |-> "dir", to |-> <<>>] \in Node /\ [kind |-> "file", to |-> <<>>] \in Node
BY RootPath DEF Node, Kinds

LEMMA LastName ==
  ASSUME NEW p \in Path, p # <<>>
  PROVE  <<Last(p)>> \in Path
<1>1. Len(p) \in 1..Len(p)
  BY DEF Path
<1>2. Last(p) \in STRING
  BY <1>1, PathIs DEF Last
<1> QED BY <1>2 DEF Path

LEMMA OneStepType ==
  ASSUME TypeOK, NEW c \in Clients, OneStep(c)
  PROVE  TypeOK'
<1> USE DEF OneStep, Delete, MakeDirectory, Rename, Upload, ListFiles, DownloadFile
<1>1. /\ StacksOK /\ Busy(c) /\ GoodTree(tree)
      /\ DOMAIN local \subseteq Path \ {<<>>} /\ UNCHANGED odd /\ Keep
  BY DEF TypeOK, StacksOK, Does
<1>2. Top(c) \in Frame /\ Top(c).path \in Plain /\ Top(c).to \in Path
  BY <1>1, TopType DEF Frame
<1>3. StacksOK'
  <2>1. \E ok \in BOOLEAN : Answer(c, ok)
    <3>1. ASSUME NEW p PROVE CanDelete(tree, p) \in BOOLEAN /\ CanList(tree, p) \in BOOLEAN
                             /\ Retrievable(tree, p) \in BOOLEAN
      BY DEF CanDelete, CanList, Retrievable, IsDir
    <3>2. ASSUME NEW from, NEW to PROVE CanMove(tree, from, to) \in BOOLEAN
      BY DEF CanMove, IsDir
    <3> QED BY <3>1, <3>2
  <2> QED BY <1>1, <2>1, AnswerIs
<1>4. CASE Delete(c)
  <2>1. GoodTree(tree')
    BY <1>1, <1>2, <1>4, RemovedIs
  <2> QED BY <1>1, <1>3, <1>4, <2>1, TypeWhen
<1>5. CASE MakeDirectory(c)
  <2> DEFINE p == Followed(tree, Top(c).path)
  <2>1. p \in Plain
    BY <1>1, <1>2, FollowedType
  <2>2. UNCHANGED tree
        \/ /\ p # <<>> /\ p \notin DOMAIN tree /\ IsDir(tree, Front(p))
           /\ tree' = Put(tree, p, [kind |-> "dir", to |-> <<>>])
    BY <1>5
  <2> HIDE DEF p
  <2>3. GoodTree(tree')
    BY <1>1, <2>1, <2>2, NodeTypes, GoodPut DEF IsDir
  <2> QED BY <1>1, <1>3, <1>5, <2>3, TypeWhen
<1>6. CASE Rename(c)
  <2> DEFINE from == Followed(tree, Top(c).path)
             to == Followed(tree, CleanRoot(Top(c).to))
  <2>1. from \in Plain /\ to \in Plain
    BY <1>1, <1>2, FollowedType, CleanType
  <2>2. UNCHANGED tree \/ (CanMove(tree, from, to) /\ tree' = Moved(tree, from, to))
    BY <1>6
  <2> HIDE DEF from, to
  <2>3. GoodTree(tree')
    BY <1>1, <2>1, <2>2, GoodMoved
  <2> QED BY <1>1, <1>3, <1>6, <2>3, TypeWhen
<1>7. CASE Upload(c)
  <2> DEFINE p == Directory(tree, Top(c).path)
  <2>1. p \in Plain
    BY <1>1, <1>2, FollowedType
  <2>2. UNCHANGED tree
        \/ /\ p # <<>> /\ IsDir(tree, Front(p)) /\ ~IsDir(tree, p)
           /\ tree' = Put(tree, p, [kind |-> "file", to |-> <<>>])
    BY <1>7
  <2> HIDE DEF p
  <2>3. GoodTree(tree')
    BY <1>1, <2>1, <2>2, NodeTypes, GoodPut
  <2> QED BY <1>1, <1>3, <1>7, <2>3, TypeWhen
<1>8. CASE ListFiles(c)
  BY <1>1, <1>3, <1>8, TypeWhen
<1>9. CASE DownloadFile(c)
  <2> DEFINE at == SavedAt(Top(c).path, Top(c).to)
  <2>1. UNCHANGED local
        \/ (Retrievable(tree, Top(c).path) /\ local' = Put(local, at, Directory(tree, Top(c).path)))
    BY <1>9
  <2>2. ASSUME Retrievable(tree, Top(c).path) PROVE at \in Path \ {<<>>}
    <3>1. Top(c).path # <<>>
      <4>1. <<>> \notin DOMAIN tree
        BY <1>1 DEF GoodTree
      <4>2. LinksAbove(tree, <<>>) = {}
        <5>1. ASSUME NEW q \in LinksAbove(tree, <<>>) PROVE FALSE
          <6>1. q \in Path /\ q # <<>> /\ Below(q, <<>>)
            BY <1>1, TreePath DEF LinksAbove
          <6>2. Len(q) < Len(<<>>) /\ Len(<<>>) = 0 /\ Len(q) \in Nat
            BY <6>1, StrictlyBelow, RootPath, PathIs
          <6> QED BY <6>2
        <5> QED BY <5>1
      <4>3. Directory(tree, <<>>) = <<>>
        BY <4>1, <4>2 DEF Directory, Followed
      <4> QED BY <2>2, <4>1, <4>3 DEF Retrievable
    <3>2. <<Last(Top(c).path)>> \in Path /\ <<Last(Top(c).path)>> # <<>>
      BY <1>2, <3>1, LastName, PlainPath
    <3> QED BY <1>2, <3>2 DEF SavedAt
  <2> HIDE DEF at
  <2>3. DOMAIN local' \subseteq Path \ {<<>>}
    BY <1>1, <2>1, <2>2 DEF Put
  <2> QED BY <1>1, <1>3, <1>9, <2>3, TypeWhen
<1> QED BY <1>4, <1>5, <1>6, <1>7, <1>8, <1>9

LEMMA NextType == TypeOK /\ [Next]_vars => TypeOK'
<1> SUFFICES ASSUME TypeOK, [Next]_vars PROVE TypeOK'
  OBVIOUS
<1>1. StacksOK /\ GoodTree(tree) /\ DOMAIN local \subseteq Path \ {<<>>}
  BY DEF TypeOK, StacksOK
<1>2. ASSUME NEW c \in Clients, Call(c) PROVE TypeOK'
  <2>1. StacksOK' /\ UNCHANGED <<odd, tree, local>> /\ Keep
    BY <1>2, CallIs DEF Call
  <2> QED BY <1>1, <2>1, TypeWhen
<1>3. ASSUME NEW c \in Clients, Breaks(c) PROVE TypeOK'
  <2>1. StacksOK' /\ UNCHANGED <<odd, tree, local>> /\ Keep
    BY <1>1, <1>3, FailsIs DEF Breaks
  <2> QED BY <1>1, <2>1, TypeWhen
<1>4. CASE PrinterWrites
  <2>1. PICK p \in Written : /\ p \notin DOMAIN tree /\ IsDir(tree, Front(p))
                             /\ tree' = Put(tree, p, [kind |-> "file", to |-> <<>>])
    BY <1>4 DEF PrinterWrites
  <2>2. p \in Plain /\ p # <<>>
    BY WrittenAssumption
  <2>3. GoodTree(tree')
    BY <1>1, <2>1, <2>2, NodeTypes, GoodPut DEF IsDir
  <2>4. StacksOK' /\ UNCHANGED <<odd, local>> /\ Keep
    BY <1>1, <1>4 DEF PrinterWrites, StacksOK, Busy
  <2> QED BY <1>1, <2>3, <2>4, TypeWhen
<1>5. CASE UNCHANGED vars
  BY <1>5 DEF vars, TypeOK, Busy
<1> QED BY <1>2, <1>3, <1>4, <1>5, RemoveType, DownloadType, OneStepType DEF Next

\* The storage stays a tree, with everything on the way to a path a directory, whatever is
\* removed, moved or written by whom; and a walk has frames for as long as it runs.
THEOREM TypeCorrect == Spec => []TypeOK
<1> QED BY InitType, NextType, PTL DEF Spec

-----------------------------------------------------------------------------
(* Where downloads are saved. *)

\* The frames of an operation of one command are the first one, those of a download are
\* saved below the directory that was named, and who was not called has no call.
WalkOf(c) ==
  LET call == op[c].call
  IN /\ op[c].result = "none" => call.what = "none"
     /\ Busy(c) /\ call.what \notin {"rmr", "getdir"} =>
          On(op[c].stack) = {Visit("once", call.path, call.to)}
     /\ Busy(c) /\ call.what = "getdir" => \A f \in On(op[c].stack) : Below(call.to, f.to)

WalkInv == \A c \in Clients : WalkOf(c)

\* A walk whose frames are all saved below.
LEMMA WalkGoesOn ==
  ASSUME StacksOK, WalkInv, NEW c \in Clients, Busy(c), op[c].call.what \in {"rmr", "getdir"},
         \A d \in Clients : d # c => op'[d] = op[d],
         op'[c].call = op[c].call,
         op'[c].result # "none",
         op[c].call.what = "getdir" => \A f \in On(op'[c].stack) : Below(op[c].call.to, f.to)
  PROVE  WalkInv'
BY DEF WalkInv, WalkOf, Busy

LEMMA WalkEnds ==
  ASSUME StacksOK, WalkInv, NEW c \in Clients,
         \A d \in Clients : d # c => op'[d] = op[d],
         op'[c].result \in {"ok", "error"}
  PROVE  WalkInv'
BY DEF WalkInv, WalkOf, Busy

LEMMA InitWalk == Init => WalkInv
BY DEF Init, WalkInv, WalkOf, Idle, Busy

LEMMA CallWalk ==
  ASSUME TypeOK, WalkInv, NEW c \in Clients, Call(c)
  PROVE  WalkInv'
<1>1. /\ op'[c].call \in [what : Commands, path : Plain, to : Path, rec : BOOLEAN]
      /\ \A d \in Clients : d # c => op'[d] = op[d]
      /\ \/ op'[c].result = "error"
         \/ op'[c].stack = First(op'[c].call) /\ op'[c].result = "running"
  BY CallIs
<1>2. CASE op'[c].result = "error"
  BY <1>1, <1>2 DEF WalkInv, WalkOf, Busy
<1>3. CASE op'[c].stack = First(op'[c].call) /\ op'[c].result = "running"
  <2> DEFINE call == op'[c].call
  <2>1. call.to \in Path
    BY <1>1
  <2>2. call.what = "getdir" => First(call) = <<Visit("list", call.path, call.to)>>
    BY DEF First
  <2>3. call.what \notin {"rmr", "getdir"} => First(call) = <<Visit("once", call.path, call.to)>>
    BY DEF First
  <2>4. Visit("list", call.path, call.to).to = call.to
    BY DEF Visit
  <2>5. call.what = "getdir" => \A f \in On(First(call)) : Below(call.to, f.to)
    BY <2>1, <2>2, <2>4, OnOne, BelowItself
  <2>6. call.what \notin {"rmr", "getdir"} => On(First(call)) = {Visit("once", call.path, call.to)}
    BY <2>3, OnOne
  <2> HIDE DEF call
  <2>7. WalkOf(c)'
    BY <1>3, <2>5, <2>6 DEF WalkOf, call
  <2>8. \A d \in Clients : d # c => WalkOf(d)'
    BY <1>1 DEF WalkInv, WalkOf, Busy
  <2> QED BY <2>7, <2>8 DEF WalkInv
<1> QED BY <1>1, <1>2, <1>3

LEMMA RemoveWalk ==
  ASSUME TypeOK, WalkInv, NEW c \in Clients, RemoveStep(c)
  PROVE  WalkInv'
<1>1. StacksOK /\ Busy(c) /\ op[c].call.what = "rmr"
  BY DEF TypeOK, StacksOK, RemoveStep, RemoveTry, RemoveList, RemoveEntry, RemoveEmpty, Does
<1>2. \E stack, result : result # "none" /\ Moves(c, stack, result)
  BY DEF RemoveStep, RemoveTry, RemoveList, RemoveEntry, RemoveEmpty, Goes, Pop, Fails
<1>3. PICK stack, result : result # "none" /\ Moves(c, stack, result)
  BY <1>2
<1>4. op'[c].call = op[c].call /\ op'[c].result # "none" /\ \A d \in Clients : d # c => op'[d] = op[d]
  BY <1>1, <1>3, MovesIs DEF StacksOK
<1> QED BY <1>1, <1>4, WalkGoesOn

\* What one step of a download does to its frames and to what is saved.
DownloadMoves(c) ==
  \/ Fails(c) /\ UNCHANGED local
  \/ Pop(c) /\ UNCHANGED local
  \/ \E f \in Frame : f.to = Top(c).to /\ Goes(c, <<f>>) /\ UNCHANGED local
  \/ \E f \in Frame : \E e \in Entry : \E p \in LocalEntryPath(Top(c).to, e.name) : \E from :
       f.to = Top(c).to /\ Goes(c, <<f>>) /\ local' = Put(local, p, from)
  \/ \E f \in Frame : \E e \in Entry : \E p \in LocalEntryPath(Top(c).to, e.name) : \E at \in Plain :
       f.to = Top(c).to /\ Goes(c, <<Visit("list", at, p), f>>) /\ UNCHANGED local

LEMMA DownloadMovesSo ==
  ASSUME TypeOK, NEW c \in Clients, DownloadStep(c)
  PROVE  StacksOK /\ Busy(c) /\ op[c].call.what = "getdir" /\ DownloadMoves(c)
<1>1. StacksOK /\ Busy(c) /\ op[c].call.what = "getdir"
  BY DEF TypeOK, StacksOK, DownloadStep, DownloadList, DownloadEntry, DownloadDone, Does
<1>2. Top(c) \in Frame /\ Top(c).path \in Plain /\ Top(c).to \in Path /\ Top(c).todo \subseteq Entry
  BY <1>1, TopType DEF Frame
<1>3. CASE DownloadList(c)
  <2> DEFINE f == [Top(c) EXCEPT !.at = "each", !.todo = Unwalked(Top(c).path)]
  <2>1. f \in Frame /\ f.to = Top(c).to
    BY <1>2, ListingType DEF Frame
  <2>2. Goes(c, <<f>>) \/ Fails(c)
    BY <1>3 DEF DownloadList
  <2>3. UNCHANGED local
    BY <1>3 DEF DownloadList
  <2> HIDE DEF f
  <2> QED BY <1>1, <2>1, <2>2, <2>3 DEF DownloadMoves
<1>4. CASE DownloadEntry(c)
  <2>1. PICK e \in Top(c).todo :
          LET remote == CleanRoot(Top(c).path \o e.name)
              rest == [Top(c) EXCEPT !.todo = @ \ {e}]
          IN \/ Goes(c, <<rest>>) /\ UNCHANGED local
             \/ \E p \in LocalEntryPath(Top(c).to, e.name) :
                  \/ Goes(c, <<Visit("list", remote, p), rest>>) /\ UNCHANGED local
                  \/ local' = Put(local, p, Directory(tree, remote)) /\ Goes(c, <<rest>>)
                  \/ Fails(c) /\ UNCHANGED local
    BY <1>4 DEF DownloadEntry, Unretrieved
  <2> DEFINE remote == CleanRoot(Top(c).path \o e.name)
             rest == [Top(c) EXCEPT !.todo = @ \ {e}]
  <2>2. remote \in Plain /\ e \in Entry
    BY <1>2, EntryPath
  <2>3. rest \in Frame /\ rest.to = Top(c).to
    BY <1>2 DEF Frame
  <2> HIDE DEF remote, rest
  <2>4. \/ Goes(c, <<rest>>) /\ UNCHANGED local
        \/ \E p \in LocalEntryPath(Top(c).to, e.name) :
             \/ Goes(c, <<Visit("list", remote, p), rest>>) /\ UNCHANGED local
             \/ local' = Put(local, p, Directory(tree, remote)) /\ Goes(c, <<rest>>)
             \/ Fails(c) /\ UNCHANGED local
    BY <2>1 DEF remote, rest
  <2> QED BY <1>1, <2>2, <2>3, <2>4 DEF DownloadMoves
<1>5. CASE DownloadDone(c)
  BY <1>1, <1>5 DEF DownloadDone, DownloadMoves
<1> QED BY <1>1, <1>3, <1>4, <1>5 DEF DownloadStep

LEMMA DownloadWalk ==
  ASSUME TypeOK, WalkInv, NEW c \in Clients, DownloadStep(c)
  PROVE  /\ WalkInv'
         /\ \A p \in DOMAIN local' \ DOMAIN local : Below(op[c].call.to, p)
<1> DEFINE to == op[c].call.to
<1>1. StacksOK /\ Busy(c) /\ op[c].call.what = "getdir" /\ DownloadMoves(c)
  BY DownloadMovesSo
<1>2. /\ Top(c) \in Frame /\ Top(c).to \in Path /\ to \in Path
      /\ On(op[c].stack) = {Top(c)} \cup On(Tail(op[c].stack))
      /\ \A f \in On(op[c].stack) : Below(to, f.to)
  BY <1>1, TopType DEF Frame, WalkInv, WalkOf, StacksOK, Operation
<1>3. ASSUME NEW e \in Entry, NEW p \in LocalEntryPath(Top(c).to, e.name)
      PROVE  p \in Path /\ Below(to, p)
  <2>1. p \in Path /\ Below(Top(c).to, p)
    BY <1>2, EntryIsSavedBelow DEF Entry
  <2> QED BY <1>2, <2>1, BelowTransitive
<1> HIDE DEF to
<1>4. ASSUME \A d \in Clients : d # c => op'[d] = op[d], op'[c].call = op[c].call,
             op'[c].result # "none", \A f \in On(op'[c].stack) : Below(to, f.to)
      PROVE  WalkInv'
  BY <1>1, <1>4, WalkGoesOn DEF to
<1>5. CASE Fails(c) /\ UNCHANGED local
  BY <1>1, <1>5, FailsIs, WalkEnds
<1>6. CASE Pop(c) /\ UNCHANGED local
  BY <1>1, <1>2, <1>4, <1>6, PopIs
<1>7. ASSUME NEW f \in Frame, f.to = Top(c).to, Goes(c, <<f>>) PROVE WalkInv'
  BY <1>1, <1>2, <1>4, <1>7, GoesOne
<1>8. ASSUME NEW e \in Entry, NEW p \in LocalEntryPath(Top(c).to, e.name), NEW from,
             local' = Put(local, p, from)
      PROVE  \A q \in DOMAIN local' \ DOMAIN local : Below(to, q)
  BY <1>3, <1>8 DEF Put
<1>9. ASSUME NEW f \in Frame, NEW e \in Entry, NEW p \in LocalEntryPath(Top(c).to, e.name),
             NEW at \in Plain, f.to = Top(c).to, Goes(c, <<Visit("list", at, p), f>>)
      PROVE  WalkInv'
  <2> DEFINE g == Visit("list", at, p)
  <2>1. p \in Path /\ Below(to, p)
    BY <1>3
  <2>2. g \in Frame /\ g.to = p
    BY <2>1, VisitType DEF Visit
  <2> HIDE DEF g
  <2>3. Goes(c, <<g, f>>)
    BY <1>9 DEF g
  <2>4. /\ op'[c].call = op[c].call /\ op'[c].result = "running"
        /\ On(op'[c].stack) = {g, f} \cup On(Tail(op[c].stack))
        /\ \A d \in Clients : d # c => op'[d] = op[d]
    BY <1>1, <2>2, <2>3, GoesTwo
  <2> QED BY <1>2, <1>4, <1>9, <2>1, <2>2, <2>4
<1> QED BY <1>1, <1>5, <1>6, <1>7, <1>8, <1>9 DEF DownloadMoves, to

LEMMA OneStepEnds ==
  ASSUME TypeOK, NEW c \in Clients, OneStep(c)
  PROVE  /\ StacksOK /\ Busy(c) /\ op[c].call.what \notin {"rmr", "getdir"}
         /\ op'[c].call = op[c].call /\ op'[c].result \in {"ok", "error"} /\ op'[c].stack = <<>>
         /\ \A d \in Clients : d # c => op'[d] = op[d]
<1> USE DEF OneStep, Delete, MakeDirectory, Rename, Upload, ListFiles, DownloadFile
<1>1. StacksOK /\ Busy(c) /\ op[c].call.what \notin {"rmr", "getdir"}
  BY DEF TypeOK, StacksOK, Does
<1>2. \E ok \in BOOLEAN : Answer(c, ok)
  <2>1. ASSUME NEW p PROVE CanDelete(tree, p) \in BOOLEAN /\ CanList(tree, p) \in BOOLEAN
                           /\ Retrievable(tree, p) \in BOOLEAN
    BY DEF CanDelete, CanList, Retrievable, IsDir
  <2>2. ASSUME NEW from, NEW to PROVE CanMove(tree, from, to) \in BOOLEAN
    BY DEF CanMove, IsDir
  <2> QED BY <2>1, <2>2
<1>3. PICK ok \in BOOLEAN : Answer(c, ok)
  BY <1>2
<1>4. (IF ok THEN "ok" ELSE "error") \in {"ok", "error"}
  OBVIOUS
<1> QED BY <1>1, <1>3, <1>4, AnswerIs

\* Only downloads save files: the one of a file where it was asked for.
LEMMA OneStepSaves ==
  ASSUME TypeOK, WalkInv, NEW c \in Clients, OneStep(c), NEW p \in DOMAIN local' \ DOMAIN local
  PROVE  op[c].call.what = "get" /\ p = SavedAt(op[c].call.path, op[c].call.to)
<1>1. CASE ~DownloadFile(c)
  BY <1>1 DEF OneStep, Delete, MakeDirectory, Rename, Upload, ListFiles
<1>2. CASE DownloadFile(c)
  <2>1. /\ StacksOK /\ Busy(c) /\ op[c].call.what = "get"
        /\ local' = Put(local, SavedAt(Top(c).path, Top(c).to), Directory(tree, Top(c).path))
    BY <1>2 DEF DownloadFile, Does, TypeOK, StacksOK
  <2>2. Top(c) = Visit("once", op[c].call.path, op[c].call.to)
    BY <2>1, TopType DEF WalkInv, WalkOf
  <2>3. p = SavedAt(Top(c).path, Top(c).to)
    BY <2>1 DEF Put
  <2> QED BY <2>1, <2>2, <2>3 DEF Visit
<1> QED BY <1>1, <1>2

LEMMA NextSaves == TypeOK /\ WalkInv /\ SavesOnlyBelow /\ [Next]_vars => (WalkInv /\ SavesOnlyBelow)'
<1> SUFFICES ASSUME TypeOK, WalkInv, SavesOnlyBelow, [Next]_vars PROVE (WalkInv /\ SavesOnlyBelow)'
  OBVIOUS
<1> DEFINE SavedFor(c, p) ==
             \/ op[c].call.what = "get" /\ p = SavedAt(op[c].call.path, op[c].call.to)
             \/ op[c].call.what = "getdir" /\ Below(op[c].call.to, p)
<1>1. SavesOnlyBelow <=> \A p \in DOMAIN local : \E c \in Clients : SavedFor(c, p)
  BY DEF SavesOnlyBelow
<1>2. SavesOnlyBelow' <=> \A p \in DOMAIN local' : \E c \in Clients : SavedFor(c, p)'
  BY DEF SavesOnlyBelow
<1>3. ASSUME NEW c \in Clients, op'[c].call = op[c].call \/ op[c].call.what = "none",
             \A d \in Clients : d # c => op'[d] = op[d],
             \A p \in DOMAIN local' \ DOMAIN local : SavedFor(c, p)
      PROVE  SavesOnlyBelow'
  <2>1. \A d \in Clients : \A p : SavedFor(d, p) => SavedFor(d, p)'
    BY <1>3
  <2> HIDE DEF SavedFor
  <2> QED BY <1>1, <1>2, <1>3, <2>1
<1>4. ASSUME NEW c \in Clients, Call(c) PROVE (WalkInv /\ SavesOnlyBelow)'
  <2>1. /\ op[c].call.what = "none" /\ \A d \in Clients : d # c => op'[d] = op[d]
        /\ UNCHANGED local
    BY <1>4, CallIs DEF Call, WalkInv, WalkOf
  <2> QED BY <1>3, <1>4, <2>1, CallWalk
<1>5. ASSUME NEW c \in Clients, RemoveStep(c) PROVE (WalkInv /\ SavesOnlyBelow)'
  <2>1. UNCHANGED local
    BY <1>5 DEF RemoveStep, RemoveTry, RemoveList, RemoveEntry, RemoveEmpty
  <2>2. \E stack, result : Moves(c, stack, result)
    BY <1>5 DEF RemoveStep, RemoveTry, RemoveList, RemoveEntry, RemoveEmpty, Goes, Pop, Fails
  <2>3. op'[c].call = op[c].call /\ \A d \in Clients : d # c => op'[d] = op[d]
    BY <2>2, MovesIs DEF TypeOK
  <2> QED BY <1>3, <1>5, <2>1, <2>3, RemoveWalk
<1>6. ASSUME NEW c \in Clients, DownloadStep(c) PROVE (WalkInv /\ SavesOnlyBelow)'
  <2>1. op[c].call.what = "getdir"
    BY <1>6, DownloadMovesSo
  <2>2. \E stack, result : Moves(c, stack, result)
    BY <1>6, DownloadMovesSo DEF DownloadMoves, Goes, Pop, Fails
  <2>3. op'[c].call = op[c].call /\ \A d \in Clients : d # c => op'[d] = op[d]
    BY <2>2, MovesIs DEF TypeOK
  <2>4. WalkInv' /\ \A p \in DOMAIN local' \ DOMAIN local : Below(op[c].call.to, p)
    BY <1>6, DownloadWalk
  <2> QED BY <1>3, <2>1, <2>3, <2>4
<1>7. ASSUME NEW c \in Clients, OneStep(c) PROVE (WalkInv /\ SavesOnlyBelow)'
  <2>1. /\ StacksOK /\ op'[c].call = op[c].call /\ op'[c].result \in {"ok", "error"}
        /\ \A d \in Clients : d # c => op'[d] = op[d]
    BY <1>7, OneStepEnds
  <2>2. \A p \in DOMAIN local' \ DOMAIN local : SavedFor(c, p)
    BY <1>7, OneStepSaves
  <2> QED BY <1>3, <2>1, <2>2, WalkEnds
<1>8. ASSUME NEW c \in Clients, Breaks(c) PROVE (WalkInv /\ SavesOnlyBelow)'
  <2>1. StacksOK /\ UNCHANGED local /\ Fails(c)
    BY <1>8 DEF Breaks, TypeOK, StacksOK
  <2>2. op'[c].call = op[c].call /\ op'[c].result = "error" /\ \A d \in Clients : d # c => op'[d] = op[d]
    BY <2>1, FailsIs
  <2> QED BY <1>3, <2>1, <2>2, WalkEnds
<1>9. CASE PrinterWrites \/ UNCHANGED vars
  <2>1. UNCHANGED <<local, op>>
    BY <1>9 DEF PrinterWrites, vars
  <2> QED BY <1>1, <1>2, <2>1 DEF WalkInv, WalkOf, Busy
<1> QED BY <1>4, <1>5, <1>6, <1>7, <1>8, <1>9 DEF Next

LEMMA InitSaves == Init => WalkInv /\ SavesOnlyBelow
<1>1. Init => DOMAIN local = {}
  BY DEF Init
<1> QED BY <1>1, InitWalk DEF SavesOnlyBelow

\* A file is only ever saved where it was asked for, or below the directory that was named,
\* whatever names the server lists and whatever happens on the storage.
THEOREM SavesOnlyBelowCorrect == Spec => []SavesOnlyBelow
<1> QED BY InitType, NextType, InitSaves, NextSaves, PTL DEF Spec

-----------------------------------------------------------------------------
(* What a removal leaves. *)

LEMMA NothingLeft ==
  ASSUME NEW t, GoodTree(t), NEW p \in Plain, CanDelete(t, p) \/ CanRemoveDir(t, p),
         NEW q \in DOMAIN Without(t, {Followed(t, p)})
  PROVE  ~Below(p, q)
<1>1. q \in DOMAIN t /\ q # Followed(t, p)
  BY DEF Without
<1>2. \A r \in DOMAIN t : Below(Followed(t, p), r) => r = Followed(t, p)
  BY RemovedIs
<1> QED BY <1>1, <1>2, FollowedIs, PlainPath

Bottom(stack) == stack[Len(stack)]

\* The walk of a removal ends where it began.
BottomInv ==
  \A c \in Clients :
    Busy(c) /\ op[c].call.what = "rmr" => Bottom(op[c].stack).path = op[c].call.path

LEMMA BottomGoes ==
  ASSUME NEW S, NEW s \in Seq(S), s # <<>>, NEW fs \in Seq(S), fs # <<>>
  PROVE  Bottom(fs \o Tail(s)) = IF Len(s) = 1 THEN Bottom(fs) ELSE Bottom(s)
<1>1. /\ Len(s) \in Nat /\ Len(s) >= 1 /\ Tail(s) \in Seq(S) /\ Len(Tail(s)) = Len(s) - 1
      /\ \A i \in 1..(Len(s) - 1) : Tail(s)[i] = s[i + 1]
  BY TailIs
<1>2. Len(fs) \in Nat /\ Len(fs) >= 1
  BY TailIs
<1> DEFINE t == Tail(s)
           r == fs \o t
<1> HIDE DEF t
<1>3. /\ Len(r) = Len(fs) + Len(t)
      /\ \A i \in 1..Len(fs) : r[i] = fs[i]
      /\ \A i \in 1..Len(t) : r[Len(fs) + i] = t[i]
  BY <1>1 DEF t
<1> HIDE DEF r
<1>4. ASSUME Len(s) = 1 PROVE Bottom(r) = Bottom(fs)
  <2>1. Len(t) = 0 /\ Len(fs) \in 1..Len(fs)
    BY <1>1, <1>2, <1>4 DEF t
  <2> QED BY <1>2, <1>3, <2>1 DEF Bottom
<1>5. ASSUME Len(s) # 1 PROVE Bottom(r) = Bottom(s)
  <2>1. Len(t) \in 1..Len(t) /\ Len(t) \in 1..(Len(s) - 1) /\ Len(t) + 1 = Len(s)
    BY <1>1, <1>5 DEF t
  <2>2. r[Len(r)] = t[Len(t)] /\ t[Len(t)] = s[Len(s)]
    BY <1>1, <1>3, <2>1 DEF t
  <2> QED BY <1>5, <2>2 DEF Bottom
<1>6. Bottom(r) = IF Len(s) = 1 THEN Bottom(fs) ELSE Bottom(s)
  BY <1>4, <1>5
<1> QED BY <1>6 DEF r, t

LEMMA BottomTail ==
  ASSUME NEW S, NEW s \in Seq(S), s # <<>>, Len(s) # 1
  PROVE  Bottom(Tail(s)) = Bottom(s)
<1>1. /\ Len(s) \in Nat /\ Len(s) >= 1 /\ Len(Tail(s)) = Len(s) - 1
      /\ \A i \in 1..(Len(s) - 1) : Tail(s)[i] = s[i + 1]
  BY TailIs
<1>2. Len(s) - 1 \in 1..(Len(s) - 1) /\ (Len(s) - 1) + 1 = Len(s)
  BY <1>1
<1> QED BY <1>1, <1>2 DEF Bottom

\* The top frame of a walk that is all but done is the bottom one.
LEMMA TopIsBottom ==
  ASSUME StacksOK, NEW c \in Clients, Busy(c), Len(op[c].stack) = 1
  PROVE  Top(c) = Bottom(op[c].stack)
<1>1. op[c].stack \in Seq(Frame) /\ op[c].stack # <<>>
  BY TopType
<1> QED BY <1>1 DEF Top, Bottom

\* What one step of a removal does: it goes on, gives up, or pops a frame whose path is gone.
RemoveMoves(c) ==
  \/ Fails(c) /\ UNCHANGED tree
  \/ /\ Pop(c)
     /\ CanDelete(tree, Top(c).path) \/ CanRemoveDir(tree, Top(c).path)
     /\ tree' = Without(tree, {Followed(tree, Top(c).path)})
  \/ \E f \in Frame : f.path = Top(c).path /\ Goes(c, <<f>>)
  \/ \E f, g \in Frame : f.path = Top(c).path /\ Goes(c, <<g, f>>) /\ UNCHANGED tree

LEMMA RemoveMovesSo ==
  ASSUME TypeOK, NEW c \in Clients, RemoveStep(c)
  PROVE  StacksOK /\ Busy(c) /\ op[c].call.what = "rmr" /\ RemoveMoves(c)
<1>1. StacksOK /\ Busy(c) /\ op[c].call.what = "rmr"
  BY DEF TypeOK, StacksOK, RemoveStep, RemoveTry, RemoveList, RemoveEntry, RemoveEmpty, Does
<1>2. Top(c) \in Frame /\ Top(c).path \in Plain /\ Top(c).todo \subseteq Entry
  BY <1>1, TopType DEF Frame
<1>3. CASE RemoveTry(c)
  <2> DEFINE f == [Top(c) EXCEPT !.at = "list"]
  <2>1. f \in Frame /\ f.path = Top(c).path
    BY <1>2 DEF Frame
  <2>2. \/ /\ CanDelete(tree, Top(c).path) /\ Pop(c)
           /\ tree' = Without(tree, {Followed(tree, Top(c).path)})
        \/ Goes(c, <<f>>)
    BY <1>3 DEF RemoveTry
  <2> HIDE DEF f
  <2> QED BY <1>1, <2>1, <2>2 DEF RemoveMoves
<1>4. CASE RemoveList(c)
  <2> DEFINE f == [Top(c) EXCEPT !.at = "each", !.todo = Unwalked(Top(c).path)]
  <2>1. f \in Frame /\ f.path = Top(c).path
    BY <1>2, ListingType DEF Frame
  <2>2. Goes(c, <<f>>) \/ (Fails(c) /\ UNCHANGED tree)
    BY <1>4 DEF RemoveList
  <2> HIDE DEF f
  <2> QED BY <1>1, <2>1, <2>2 DEF RemoveMoves
<1>5. CASE RemoveEntry(c)
  <2>1. PICK e \in Top(c).todo :
          LET full == CleanRoot(Top(c).path \o e.name)
              rest == [Top(c) EXCEPT !.todo = @ \ {e}]
          IN \/ Goes(c, <<Visit("delete", full, <<>>), rest>>) /\ UNCHANGED tree
             \/ Goes(c, <<rest>>)
             \/ Fails(c) /\ UNCHANGED tree
    BY <1>5 DEF RemoveEntry
  <2> DEFINE full == CleanRoot(Top(c).path \o e.name)
             rest == [Top(c) EXCEPT !.todo = @ \ {e}]
             first == Visit("delete", full, <<>>)
  <2>2. full \in Plain
    BY <1>2, EntryPath DEF Frame
  <2>3. rest \in Frame /\ rest.path = Top(c).path
    BY <1>2 DEF Frame
  <2>4. first \in Frame
    BY <2>2, VisitType, RootPath
  <2>5. \/ Goes(c, <<first, rest>>) /\ UNCHANGED tree
        \/ Goes(c, <<rest>>)
        \/ Fails(c) /\ UNCHANGED tree
    BY <2>1
  <2> HIDE DEF full, rest, first
  <2> QED BY <1>1, <2>3, <2>4, <2>5 DEF RemoveMoves
<1>6. CASE RemoveEmpty(c)
  BY <1>1, <1>6 DEF RemoveEmpty, RemoveMoves
<1> QED BY <1>1, <1>3, <1>4, <1>5, <1>6 DEF RemoveStep

\* The bottom of a stack whose top gives way to frames that end with the same path.
LEMMA BottomStays ==
  ASSUME StacksOK, BottomInv, NEW c \in Clients, Busy(c), op[c].call.what = "rmr",
         NEW fs \in Seq(Frame), fs # <<>>, Bottom(fs).path = Top(c).path, Goes(c, fs)
  PROVE  BottomInv'
<1> DEFINE s == op[c].stack
           z == fs \o Tail(s)
<1>1. s \in Seq(Frame) /\ s # <<>> /\ Tail(s) \in Seq(Frame)
  BY TopType
<1>2. z \in Seq(Frame)
  BY <1>1
<1>3. Moves(c, z, "running")
  BY DEF Goes
<1>4. Bottom(z) = IF Len(s) = 1 THEN Bottom(fs) ELSE Bottom(s)
  BY <1>1, BottomGoes
<1>5. Bottom(s).path = op[c].call.path /\ (Len(s) = 1 => Top(c) = Bottom(s))
  BY TopIsBottom DEF BottomInv
<1> HIDE DEF z, s
<1>6. op'[c].call = op[c].call /\ op'[c].stack = z /\ \A d \in Clients : d # c => op'[d] = op[d]
  BY <1>2, <1>3, MovesIs DEF StacksOK
<1> QED BY <1>4, <1>5, <1>6 DEF BottomInv, Busy

LEMMA RemoveBottom ==
  ASSUME TypeOK, BottomInv, NEW c \in Clients, RemoveStep(c)
  PROVE  BottomInv'
<1>1. StacksOK /\ Busy(c) /\ op[c].call.what = "rmr" /\ RemoveMoves(c)
  BY RemoveMovesSo
<1>2. CASE Fails(c)
  BY <1>1, <1>2, FailsIs DEF BottomInv, Busy
<1>3. CASE Pop(c)
  <2>1. op[c].stack \in Seq(Frame) /\ op[c].stack # <<>>
    BY <1>1, TopType
  <2>2. Len(op[c].stack) # 1 => Bottom(Tail(op[c].stack)) = Bottom(op[c].stack)
    BY <2>1, BottomTail
  <2> QED BY <1>1, <1>3, <2>2, PopIs DEF BottomInv, Busy
<1>4. ASSUME NEW f \in Frame, f.path = Top(c).path, Goes(c, <<f>>) PROVE BottomInv'
  <2>1. <<f>> \in Seq(Frame) /\ <<f>> # <<>> /\ Bottom(<<f>>) = f
    BY OneFrame DEF Bottom
  <2> DEFINE fs == <<f>>
  <2> HIDE DEF fs
  <2>2. fs \in Seq(Frame) /\ fs # <<>> /\ Bottom(fs) = f /\ Goes(c, fs)
    BY <1>4, <2>1 DEF fs
  <2> QED BY <1>1, <1>4, <2>2, BottomStays
<1>5. ASSUME NEW f \in Frame, NEW g \in Frame, f.path = Top(c).path, Goes(c, <<g, f>>) PROVE BottomInv'
  <2>1. <<g, f>> \in Seq(Frame) /\ <<g, f>> # <<>> /\ Bottom(<<g, f>>) = f
    BY TwoFrames DEF Bottom
  <2> DEFINE fs == <<g, f>>
  <2> HIDE DEF fs
  <2>2. fs \in Seq(Frame) /\ fs # <<>> /\ Bottom(fs) = f /\ Goes(c, fs)
    BY <1>5, <2>1 DEF fs
  <2> QED BY <1>1, <1>5, <2>2, BottomStays
<1> QED BY <1>1, <1>2, <1>3, <1>4, <1>5 DEF RemoveMoves

LEMMA NextBottom == TypeOK /\ BottomInv /\ [Next]_vars => BottomInv'
<1> SUFFICES ASSUME TypeOK, BottomInv, [Next]_vars PROVE BottomInv'
  OBVIOUS
<1>1. StacksOK
  BY DEF TypeOK, StacksOK
<1>2. ASSUME NEW c \in Clients, Call(c) PROVE BottomInv'
  <2> DEFINE call == op'[c].call
  <2>1. /\ call \in [what : Commands, path : Plain, to : Path, rec : BOOLEAN]
        /\ \A d \in Clients : d # c => op'[d] = op[d]
        /\ op'[c].result = "error" \/ op'[c].stack = First(call)
    BY <1>2, CallIs
  <2>2. call.what = "rmr" => First(call) = <<Visit("delete", call.path, <<>>)>>
    BY DEF First
  <2>3. Bottom(<<Visit("delete", call.path, <<>>)>>).path = call.path
    BY DEF Visit, Bottom
  <2> HIDE DEF call
  <2> QED BY <2>1, <2>2, <2>3 DEF BottomInv, Busy, call
<1>3. ASSUME NEW c \in Clients, DownloadStep(c) PROVE BottomInv'
  <2>1. op[c].call.what = "getdir" /\ \E stack, result : Moves(c, stack, result)
    BY <1>3, DownloadMovesSo DEF DownloadMoves, Goes, Pop, Fails
  <2>2. op'[c].call = op[c].call /\ \A d \in Clients : d # c => op'[d] = op[d]
    BY <1>1, <2>1, MovesIs DEF StacksOK
  <2> QED BY <2>1, <2>2 DEF BottomInv, Busy
<1>4. ASSUME NEW c \in Clients, OneStep(c) \/ Breaks(c) PROVE BottomInv'
  <2>1. op'[c].result # "running" /\ \A d \in Clients : d # c => op'[d] = op[d]
    BY <1>1, <1>4, OneStepEnds, FailsIs DEF Breaks
  <2> QED BY <2>1 DEF BottomInv, Busy
<1>5. CASE PrinterWrites \/ UNCHANGED vars
  BY <1>5 DEF PrinterWrites, vars, BottomInv, Busy
<1> QED BY <1>2, <1>3, <1>4, <1>5, RemoveBottom DEF Next

Gone ==
  \A c \in Clients :
    Busy(c) /\ op[c].call.what = "rmr" /\ op'[c].result = "ok" =>
      \A q \in DOMAIN tree' : ~Below(op[c].call.path, q)

LEMMA NextGone == TypeOK /\ BottomInv /\ [Next]_vars => [Gone]_vars
<1> SUFFICES ASSUME TypeOK, BottomInv, Next,
                    NEW c \in Clients, Busy(c), op[c].call.what = "rmr", op'[c].result = "ok"
             PROVE  \A q \in DOMAIN tree' : ~Below(op[c].call.path, q)
  BY DEF Gone
<1>1. StacksOK /\ GoodTree(tree)
  BY DEF TypeOK, StacksOK
<1>2. ASSUME NEW d \in Clients, \A e \in Clients : e # d => op'[e] = op[e] PROVE d = c
  BY <1>2 DEF Busy
<1>3. ASSUME NEW d \in Clients, Call(d) \/ DownloadStep(d) \/ OneStep(d) \/ Breaks(d) PROVE FALSE
  <2>1. \A e \in Clients : e # d => op'[e] = op[e]
    <3>1. DownloadStep(d) => \E stack, result : Moves(d, stack, result)
      BY DownloadMovesSo DEF DownloadMoves, Goes, Pop, Fails
    <3> QED BY <1>1, <1>3, <3>1, CallIs, OneStepEnds, FailsIs, MovesIs DEF Breaks, StacksOK
  <2>2. d = c
    BY <1>2, <2>1
  <2>3. ~Call(c) /\ ~DownloadStep(c) /\ ~OneStep(c) /\ ~Breaks(c)
    BY <1>1, DownloadMovesSo, OneStepEnds, FailsIs DEF Call, Busy, Breaks
  <2> QED BY <1>3, <2>2, <2>3
<1>4. ~PrinterWrites
  BY DEF PrinterWrites, Busy
<1>5. PICK d \in Clients : RemoveStep(d)
  BY <1>3, <1>4 DEF Next
<1>6. RemoveMoves(d) /\ Busy(d)
  BY <1>5, RemoveMovesSo
<1>7. d = c
  <2>1. \E stack, result : Moves(d, stack, result)
    BY <1>6 DEF RemoveMoves, Goes, Pop, Fails
  <2> QED BY <1>1, <1>2, <2>1, MovesIs DEF StacksOK
<1>8. /\ Pop(c)
      /\ CanDelete(tree, Top(c).path) \/ CanRemoveDir(tree, Top(c).path)
      /\ tree' = Without(tree, {Followed(tree, Top(c).path)})
  <2>1. ~Fails(c)
    BY <1>1, FailsIs
  <2>2. \A f \in Frame : ~Goes(c, <<f>>)
    BY <1>1, GoesOne
  <2>3. \A f, g \in Frame : ~Goes(c, <<g, f>>)
    BY <1>1, GoesTwo
  <2> QED BY <1>6, <1>7, <2>1, <2>2, <2>3 DEF RemoveMoves
<1>9. Len(op[c].stack) = 1
  BY <1>1, <1>8, PopIs
<1>10. Top(c).path = op[c].call.path
  BY <1>1, <1>9, TopIsBottom DEF BottomInv
<1>11. Top(c).path \in Plain
  BY <1>1, TopType DEF Frame
<1> QED BY <1>1, <1>8, <1>10, <1>11, NothingLeft

\* When a removal succeeds, nothing is left at the path or below it, whatever was written,
\* moved or linked there while it ran.
THEOREM RemovedMeansGoneCorrect == Spec => RemovedMeansGone
<1>1. Init => BottomInv
  BY DEF Init, Idle, BottomInv, Busy
<1> QED BY <1>1, InitType, NextType, NextBottom, NextGone, PTL DEF Spec, RemovedMeansGone, Gone

-----------------------------------------------------------------------------
(* What a download brings. *)

\* The next name on the way from p to q.
LEMMA NextName ==
  ASSUME NEW p \in Path, NEW q \in Plain, Below(p, q), p # q
  PROVE  LET name == q[Len(p) + 1]
             k == p \o <<name>>
         IN /\ name \in STRING /\ name \notin {".", ".."}
            /\ k \in Path /\ Below(p, k) /\ Below(k, q) /\ Len(k) = Len(p) + 1 /\ Last(k) = name
            /\ Beyond(p, q) = <<name>> \o Beyond(k, q)
            /\ Len(q) = Len(p) + 1 => k = q /\ Beyond(p, q) = <<name>>
<1> DEFINE name == q[Len(p) + 1]
           one == <<name>>
           k == p \o one
<1>1. q \in Path /\ Len(p) < Len(q) /\ Len(p) \in Nat /\ Len(q) \in Nat
  BY PlainPath, StrictlyBelow, PathIs
<1>2. Len(p) + 1 \in 1..Len(q)
  BY <1>1
<1>3. name \in STRING /\ name \notin {".", ".."}
  BY <1>1, <1>2, PathIs DEF Plain
<1> HIDE DEF name
<1>4. one \in Path /\ Len(one) = 1 /\ one[1] = name
  BY <1>3, OneName, PlainPath
<1> HIDE DEF one
<1>5. /\ k \in Path /\ Below(p, k) /\ Len(k) = Len(p) + 1
      /\ \A i \in 1..Len(p) : k[i] = p[i]
      /\ k[Len(p) + 1] = name
  <2>1. /\ k \in Path /\ Len(k) = Len(p) + Len(one) /\ Below(p, k)
        /\ \A i \in 1..Len(p) : k[i] = p[i]
        /\ \A i \in 1..Len(one) : k[Len(p) + i] = one[i]
    BY <1>4, JoinIs, JoinBelow
  <2>2. 1 \in 1..Len(one)
    BY <1>4
  <2> HIDE DEF k
  <2> QED BY <1>4, <2>1, <2>2
<1>6. Last(k) = name
  BY <1>5 DEF Last
<1>7. Below(k, q)
  <2>1. \A i \in 1..Len(p) : p[i] = q[i]
    BY <1>1, BelowIs
  <2>2. \A i \in 1..Len(k) : k[i] = q[i]
    <3> TAKE i \in 1..Len(k)
    <3>1. i \in 1..Len(p) \/ i = Len(p) + 1
      BY <1>1, <1>5
    <3> QED BY <1>5, <2>1, <3>1 DEF name
  <2>3. Len(k) <= Len(q)
    BY <1>1, <1>5
  <2> HIDE DEF k
  <2> QED BY <1>1, <1>5, <2>2, <2>3, BelowIs
<1>8. Beyond(p, q) = one \o Beyond(k, q)
  <2> DEFINE b == Beyond(k, q)
  <2>1. b \in Path /\ k \o b = q
    <3> HIDE DEF k
    <3> QED BY <1>1, <1>5, <1>7, BeyondIs, JoinBeyond
  <2> HIDE DEF b
  <2>2. one \o b \in Path /\ q = p \o (one \o b)
    BY <1>4, <2>1, JoinAssociative, JoinIs
  <2> DEFINE r == one \o b
  <2> HIDE DEF r
  <2>3. r \in Path /\ q = p \o r
    BY <2>2 DEF r
  <2>4. Beyond(p, q) = r
    BY <2>3, BeyondJoin
  <2> QED BY <2>4 DEF r, b
<1>9. ASSUME Len(q) = Len(p) + 1 PROVE k = q /\ Beyond(p, q) = one
  <2>1. k = q
    <3> HIDE DEF k
    <3> QED BY <1>1, <1>5, <1>7, <1>9, BelowEqual
  <2> QED BY <1>4, <2>1, BeyondJoin
<1> QED BY <1>3, <1>5, <1>6, <1>7, <1>8, <1>9 DEF one, name

Saved(c, q) == op[c].call.to \o Beyond(op[c].call.path, q)

\* What LIST of p tells of the way to the file q.
NextEntry(p, q) ==
  [name |-> <<q[Len(p) + 1]>>, kind |-> IF Len(q) = Len(p) + 1 THEN "file" ELSE "dir"]

\* The walk from frame f on will save q where it belongs.
Leads(c, f, q) ==
  /\ Below(f.path, q)
  /\ f.to \o Beyond(f.path, q) = Saved(c, q)
  /\ \/ f.at = "list"
     \/ f.at = "each" /\ f.path # q /\ NextEntry(f.path, q) \in f.todo

\* Every file that is there all the time is saved, or some frame leads to it.
OnItsWay(c, q) == Saved(c, q) \in DOMAIN local \/ \E f \in On(op[c].stack) : Leads(c, f, q)

CompleteInv ==
  \A c \in Clients :
    /\ op[c].result # "none" => kept[c] \subseteq Files(tree)
    /\ op[c].call.what = "getdir" /\ op[c].call.rec /\ op[c].result \in {"running", "ok"} =>
         \A q \in kept[c] : Below(op[c].call.path, q) => OnItsWay(c, q)

\* LIST of a directory on the way to a file tells the next entry.
LEMMA ListLeads ==
  ASSUME TypeOK, NEW p \in Plain, CanList(tree, p), NEW q \in Files(tree), Below(p, q)
  PROVE  p # q /\ NextEntry(p, q) \in Unwalked(p)
<1>1. q \in DOMAIN tree /\ tree[q].kind = "file" /\ q \in Plain /\ q \in Path /\ q # <<>> /\ p \in Path
      /\ GoodTree(tree)
  BY TreePath, PlainPath DEF Files, TypeOK
<1>2. Followed(tree, p) = p
  BY <1>1, NoLinkAbove
<1>3. p # q
  BY <1>1, <1>2 DEF CanList, Directory, IsDir
<1>4. Directory(tree, p) = p
  <2>1. IsDir(tree, p)
    BY <1>1, <1>3, WayTo
  <2>2. <<>> \notin DOMAIN tree
    BY <1>1 DEF GoodTree
  <2> QED BY <1>2, <2>1, <2>2 DEF Directory, IsDir
<1> DEFINE name == q[Len(p) + 1]
           k == p \o <<name>>
<1>5. /\ name \in STRING /\ name \notin {".", ".."}
      /\ k \in Path /\ Below(p, k) /\ Below(k, q) /\ Len(k) = Len(p) + 1 /\ Last(k) = name
      /\ Len(q) = Len(p) + 1 => k = q
  BY <1>1, <1>3, NextName
<1>6. <<name>> \notin Special
  BY <1>5 DEF Special
<1> HIDE DEF name, k
<1>7. k \in DOMAIN tree /\ tree[k].kind = IF Len(q) = Len(p) + 1 THEN "file" ELSE "dir"
  <2>1. CASE Len(q) = Len(p) + 1
    BY <1>1, <1>5, <2>1
  <2>2. CASE Len(q) # Len(p) + 1
    <3>1. k # q /\ k # <<>>
      <4>1. Len(p) \in Nat /\ Len(<<>>) = 0
        BY <1>1, PathIs
      <4> QED BY <1>5, <2>2, <4>1
    <3>2. IsDir(tree, k)
      BY <1>1, <1>5, <3>1, WayTo
    <3> QED BY <2>2, <3>1, <3>2 DEF IsDir
  <2> QED BY <2>1, <2>2
<1>8. k \in Children(tree, p)
  BY <1>5, <1>7 DEF Children
<1>9. [name |-> <<Last(k)>>, kind |-> tree[k].kind] \in Listing(tree, p)
  BY <1>4, <1>8 DEF Listing
<1>10. NextEntry(p, q) = [name |-> <<Last(k)>>, kind |-> tree[k].kind]
  BY <1>5, <1>7 DEF NextEntry, name
<1>11. NextEntry(p, q).name = <<name>>
  BY DEF NextEntry, name
<1> QED BY <1>3, <1>6, <1>9, <1>10, <1>11 DEF Unwalked

\* A step that leaves the client's operation alone brings nothing to do.
LEMMA CompleteStays ==
  ASSUME TypeOK, CompleteInv, Keep, NEW c \in Clients, op'[c] = op[c], DOMAIN local \subseteq DOMAIN local'
  PROVE  /\ (op[c].result # "none" => kept[c] \subseteq Files(tree))'
         /\ (op[c].call.what = "getdir" /\ op[c].call.rec /\ op[c].result \in {"running", "ok"} =>
               \A q \in kept[c] : Below(op[c].call.path, q) => OnItsWay(c, q))'
<1>1. kept'[c] = IF op[c].result = "none" THEN Files(tree') ELSE kept[c] \cap Files(tree')
  BY DEF Keep
<1>2. \A q : OnItsWay(c, q) => OnItsWay(c, q)'
  BY DEF OnItsWay, Leads, Saved
<1>3. CASE op[c].result = "none"
  BY <1>1, <1>3
<1>4. CASE op[c].result # "none"
  BY <1>1, <1>2, <1>4 DEF CompleteInv
<1> QED BY <1>3, <1>4

\* A step of one client, which must see to its own download only.
LEMMA CompleteWhen ==
  ASSUME TypeOK, CompleteInv, Keep, NEW c \in Clients, DOMAIN local \subseteq DOMAIN local',
         \A d \in Clients : d # c => op'[d] = op[d],
         op'[c].call.what = "getdir" /\ op'[c].call.rec /\ op'[c].result \in {"running", "ok"} =>
           \A q \in kept'[c] : Below(op'[c].call.path, q) => OnItsWay(c, q)'
  PROVE  CompleteInv'
<1>1. kept'[c] \subseteq Files(tree')
  BY DEF Keep
<1>2. \A d \in Clients : d # c =>
        /\ (op[d].result # "none" => kept[d] \subseteq Files(tree))'
        /\ (op[d].call.what = "getdir" /\ op[d].call.rec /\ op[d].result \in {"running", "ok"} =>
              \A q \in kept[d] : Below(op[d].call.path, q) => OnItsWay(d, q))'
  BY CompleteStays
<1> QED BY <1>1, <1>2 DEF CompleteInv

\* The same frame leads on, at its next entry, after every entry but that one.
LEMMA StillLeads ==
  ASSUME NEW c \in Clients, NEW f, NEW e, NEW q, Leads(c, f, q), f \in Frame, f.at = "each",
         e # NextEntry(f.path, q)
  PROVE  Leads(c, [f EXCEPT !.todo = @ \ {e}], q)
<1> DEFINE g == [f EXCEPT !.todo = @ \ {e}]
<1>1. g.path = f.path /\ g.to = f.to /\ g.at = "each" /\ g.todo = f.todo \ {e}
  BY DEF Frame
<1> HIDE DEF g
<1>2. Leads(c, g, q)
  BY <1>1 DEF Leads
<1> QED BY <1>2 DEF g

LEMMA DownloadComplete ==
  ASSUME TypeOK, CompleteInv, NEW c \in Clients, DownloadStep(c)
  PROVE  CompleteInv'
<1>1. StacksOK /\ Busy(c) /\ op[c].call.what = "getdir" /\ DownloadMoves(c)
  BY DownloadMovesSo
<1>2. /\ Top(c) \in Frame /\ Top(c).path \in Plain /\ Top(c).path \in Path
      /\ Top(c).to \in Path /\ Top(c).todo \subseteq Entry
      /\ On(op[c].stack) = {Top(c)} \cup On(Tail(op[c].stack))
  BY <1>1, TopType, PlainPath DEF Frame
<1>3. Keep /\ UNCHANGED tree
  BY DEF DownloadStep, DownloadList, DownloadEntry, DownloadDone
<1>4. DOMAIN local \subseteq DOMAIN local'
  BY <1>1 DEF DownloadMoves, Put
<1>5. op'[c].call = op[c].call /\ \A d \in Clients : d # c => op'[d] = op[d]
  <2>1. \E stack, result : Moves(c, stack, result)
    BY <1>1 DEF DownloadMoves, Goes, Pop, Fails
  <2> QED BY <1>1, <2>1, MovesIs DEF StacksOK
<1>6. /\ kept'[c] \subseteq kept[c] \cap Files(tree) /\ kept'[c] \subseteq Plain
  <2>1. kept'[c] = kept[c] \cap Files(tree)
    BY <1>1, <1>3 DEF Keep, Busy
  <2> QED BY <2>1 DEF TypeOK
<1>7. SUFFICES ASSUME op[c].call.rec, op'[c].result \in {"running", "ok"},
                      NEW q \in kept'[c], Below(op[c].call.path, q)
               PROVE  OnItsWay(c, q)'
  BY <1>3, <1>4, <1>5, CompleteWhen
<1>8. q \in kept[c] /\ q \in Files(tree) /\ q \in Plain /\ q \in Path
  BY <1>6, PlainPath
<1>9. OnItsWay(c, q)
  BY <1>1, <1>7, <1>8 DEF CompleteInv, Busy
<1>10. \A f : Leads(c, f, q) /\ f \in On(op'[c].stack) => OnItsWay(c, q)'
  BY <1>5 DEF OnItsWay, Leads, Saved
<1>11. ASSUME Saved(c, q) \in DOMAIN local' PROVE OnItsWay(c, q)'
  BY <1>5, <1>11 DEF OnItsWay, Saved
<1>12. CASE DownloadList(c)
  <2> DEFINE f == [Top(c) EXCEPT !.at = "each", !.todo = Unwalked(Top(c).path)]
  <2>1. f \in Frame
    BY <1>2, ListingType DEF Frame
  <2>2. CanList(tree, Top(c).path) /\ Goes(c, <<f>>)
    BY <1>1, <1>7, <1>12, FailsIs DEF DownloadList
  <2>3. f.at = "each" /\ f.path = Top(c).path /\ f.to = Top(c).to /\ f.todo = Unwalked(Top(c).path)
    BY <1>2 DEF Frame
  <2> HIDE DEF f
  <2>4. On(op'[c].stack) = {f} \cup On(Tail(op[c].stack))
    BY <1>1, <2>1, <2>2, GoesOne
  <2>5. ASSUME Leads(c, Top(c), q) PROVE Leads(c, f, q)
    <3>1. Below(Top(c).path, q)
      BY <2>5 DEF Leads
    <3>2. Top(c).path # q /\ NextEntry(Top(c).path, q) \in Unwalked(Top(c).path)
      BY <1>2, <1>8, <2>2, <3>1, ListLeads
    <3> QED BY <2>3, <2>5, <3>2 DEF Leads
  <2> QED BY <1>2, <1>4, <1>9, <1>10, <1>11, <2>4, <2>5 DEF OnItsWay
<1>13. CASE DownloadEntry(c)
  <2>1. PICK e \in Top(c).todo :
          LET at == LocalEntryPath(Top(c).to, e.name)
              remote == CleanRoot(Top(c).path \o e.name)
              rest == [Top(c) EXCEPT !.todo = @ \ {e}]
          IN \/ /\ at = {} \/ (at # {} /\ e.kind = "dir" /\ ~op[c].call.rec)
                /\ Goes(c, <<rest>>)
             \/ \E p \in at :
                  \/ e.kind = "dir" /\ Goes(c, <<Visit("list", remote, p), rest>>)
                  \/ /\ e.kind # "dir"
                     /\ local' = Put(local, p, Directory(tree, remote))
                     /\ Goes(c, <<rest>>)
                  \/ Fails(c)
    BY <1>13 DEF DownloadEntry, Unretrieved
  <2> DEFINE at == LocalEntryPath(Top(c).to, e.name)
             remote == CleanRoot(Top(c).path \o e.name)
             rest == [Top(c) EXCEPT !.todo = @ \ {e}]
  <2>2. rest \in Frame /\ Top(c).at = "each"
    BY <1>2, <1>13 DEF Frame, DownloadEntry, Does
  <2>3. remote \in Plain /\ \A p \in at : p \in Path
    BY <1>2, EntryPath, EntryIsSavedBelow DEF Entry
  <2>4. e # NextEntry(Top(c).path, q) /\ Leads(c, Top(c), q) => Leads(c, rest, q)
    BY <1>2, <2>2, StillLeads
  <2>5. ~Fails(c)
    BY <1>1, <1>7, FailsIs
  <2>6. rest \in On(op'[c].stack) /\ On(Tail(op[c].stack)) \subseteq On(op'[c].stack)
    <3>1. CASE Goes(c, <<rest>>)
      <4> HIDE DEF rest
      <4> QED BY <1>1, <2>2, <3>1, GoesOne
    <3>2. ASSUME NEW p \in at, Goes(c, <<Visit("list", remote, p), rest>>)
          PROVE  rest \in On(op'[c].stack) /\ On(Tail(op[c].stack)) \subseteq On(op'[c].stack)
      <4>1. Visit("list", remote, p) \in Frame
        BY <2>3, VisitType
      <4> HIDE DEF rest, remote, at
      <4> QED BY <1>1, <2>2, <3>2, <4>1, GoesTwo
    <3> QED BY <2>1, <2>5, <3>1, <3>2
  <2>7. CASE Saved(c, q) \in DOMAIN local \/ \E f \in On(Tail(op[c].stack)) : Leads(c, f, q)
    BY <1>4, <1>10, <1>11, <2>6, <2>7
  <2>8. CASE Leads(c, Top(c), q) /\ e # NextEntry(Top(c).path, q)
    <3>1. Leads(c, rest, q)
      BY <2>4, <2>8
    <3> HIDE DEF rest
    <3> QED BY <1>10, <2>6, <3>1
  <2>9. CASE Leads(c, Top(c), q) /\ e = NextEntry(Top(c).path, q)
    <3> DEFINE path == Top(c).path
               to == Top(c).to
               name == q[Len(path) + 1]
               one == <<name>>
               k == path \o one
    <3>1. Below(path, q) /\ path # q /\ to \o Beyond(path, q) = Saved(c, q)
      BY <2>2, <2>9 DEF Leads
    <3>2. /\ name \in STRING /\ name \notin {".", ".."}
          /\ k \in Path /\ Below(k, q)
          /\ Beyond(path, q) = one \o Beyond(k, q)
          /\ Len(q) = Len(path) + 1 => Beyond(path, q) = one
      BY <1>2, <1>8, <3>1, NextName
    <3>3. e.name = one /\ e.kind = IF Len(q) = Len(path) + 1 THEN "file" ELSE "dir"
      BY <2>9 DEF NextEntry
    <3>4. one \in Plain /\ one \in Path
      BY <3>2, OneName, PlainPath
    <3>5. at = {to \o one} /\ remote = k
      <4>1. LocalEntryPath(to, <<name>>) = {to \o <<name>>}
        BY <1>2, <3>2, EntryIsSavedIn
      <4>2. path \o one \in Plain
        BY <1>2, <3>4, JoinPlain
      <4> QED BY <3>3, <4>1, <4>2, CleanPlain
    <3>6. CASE e.kind = "dir"
      <4> DEFINE g == Visit("list", remote, to \o one)
      <4>1. Goes(c, <<g, rest>>)
        BY <1>7, <2>1, <2>5, <3>5, <3>6
      <4>2. g.path = k /\ g.to = to \o one /\ g.at = "list"
        BY <3>5 DEF Visit
      <4>3. g \in Frame
        BY <2>3, <3>5, VisitType
      <4> HIDE DEF g, rest
      <4>4. g \in On(op'[c].stack)
        BY <1>1, <2>2, <4>1, <4>3, GoesTwo
      <4>5. (to \o one) \o Beyond(k, q) = Saved(c, q)
        <5>1. Beyond(k, q) \in Path
          <6> HIDE DEF k
          <6> QED BY <1>8, <3>2, BeyondIs
        <5>2. to \in Path
          BY <1>2
        <5> DEFINE b == Beyond(k, q)
        <5>3. b \in Path /\ to \o (one \o b) = Saved(c, q) /\ one \in Path
          BY <3>1, <3>2, <3>4, <5>1
        <5> HIDE DEF to, one, k, b, path, name
        <5>4. (to \o one) \o b = to \o (one \o b)
          BY <5>2, <5>3, JoinAssociative
        <5> QED BY <5>3, <5>4 DEF b
      <4>6. Leads(c, g, q)
        BY <3>2, <4>2, <4>5 DEF Leads
      <4> QED BY <1>10, <4>4, <4>6
    <3>7. CASE e.kind # "dir"
      <4>1. Len(q) = Len(path) + 1
        BY <3>3, <3>7
      <4>2. to \o one = Saved(c, q)
        BY <3>1, <3>2, <4>1
      <4>3. local' = Put(local, to \o one, Directory(tree, remote))
        BY <2>1, <2>5, <3>5, <3>7
      <4>4. to \o one \in DOMAIN local'
        BY <4>3 DEF Put
      <4> QED BY <1>11, <4>2, <4>4
    <3> QED BY <3>6, <3>7
  <2> QED BY <1>2, <1>9, <2>7, <2>8, <2>9 DEF OnItsWay
<1>14. CASE DownloadDone(c)
  <2>1. Pop(c) /\ Top(c).todo = {} /\ Top(c).at = "each"
    BY <1>14 DEF DownloadDone, Does
  <2>2. op'[c].stack = Tail(op[c].stack)
    BY <1>1, <2>1, PopIs
  <2>3. ~Leads(c, Top(c), q)
    BY <2>1 DEF Leads
  <2> QED BY <1>2, <1>4, <1>9, <1>10, <1>11, <2>2, <2>3 DEF OnItsWay
<1> QED BY <1>12, <1>13, <1>14 DEF DownloadStep

LEMMA CallComplete ==
  ASSUME TypeOK, CompleteInv, NEW c \in Clients, Call(c)
  PROVE  CompleteInv'
<1> DEFINE call == op'[c].call
           f == Visit("list", call.path, call.to)
<1>1. /\ \A d \in Clients : d # c => op'[d] = op[d]
      /\ op'[c].result = "error" \/ op'[c].stack = First(call)
  BY CallIs
<1>2. Keep /\ UNCHANGED local
  BY DEF Call
<1>3. call.what = "getdir" => First(call) = <<f>>
  BY DEF First
<1>4. f.at = "list" /\ f.path = call.path /\ f.to = call.to
  BY DEF Visit
<1> HIDE DEF call, f
<1>5. ASSUME call.what = "getdir", op'[c].result \in {"running", "ok"},
             NEW q \in kept'[c], Below(call.path, q)
      PROVE  OnItsWay(c, q)'
  <2>1. On(op'[c].stack) = {f}
    BY <1>1, <1>3, <1>5, OnOne
  <2>2. Below(f.path, q) /\ f.to \o Beyond(f.path, q) = Saved(c, q)' /\ f.at = "list"
    BY <1>4, <1>5 DEF Saved, call
  <2> QED BY <2>1, <2>2 DEF OnItsWay, Leads
<1> QED BY <1>1, <1>2, <1>5, CompleteWhen DEF call

LEMMA NextComplete == TypeOK /\ CompleteInv /\ [Next]_vars => CompleteInv'
<1> SUFFICES ASSUME TypeOK, CompleteInv, [Next]_vars PROVE CompleteInv'
  OBVIOUS
<1>1. StacksOK
  BY DEF TypeOK, StacksOK
<1>2. ASSUME NEW c \in Clients, RemoveStep(c) PROVE CompleteInv'
  <2>1. /\ op[c].call.what = "rmr"
        /\ \E stack, result : Moves(c, stack, result)
    BY <1>2, RemoveMovesSo DEF RemoveMoves, Goes, Pop, Fails
  <2>2. op'[c].call = op[c].call /\ \A d \in Clients : d # c => op'[d] = op[d]
    BY <1>1, <2>1, MovesIs DEF StacksOK
  <2>3. Keep /\ UNCHANGED local
    BY <1>2 DEF RemoveStep, RemoveTry, RemoveList, RemoveEntry, RemoveEmpty
  <2> QED BY <2>1, <2>2, <2>3, CompleteWhen
<1>3. ASSUME NEW c \in Clients, OneStep(c) PROVE CompleteInv'
  <2>1. /\ op[c].call.what # "getdir" /\ op'[c].call = op[c].call
        /\ \A d \in Clients : d # c => op'[d] = op[d]
    BY <1>3, OneStepEnds
  <2>2. Keep /\ DOMAIN local \subseteq DOMAIN local'
    BY <1>3 DEF OneStep, Delete, MakeDirectory, Rename, Upload, ListFiles, DownloadFile, Put
  <2> QED BY <2>1, <2>2, CompleteWhen
<1>4. ASSUME NEW c \in Clients, Breaks(c) PROVE CompleteInv'
  <2>1. op'[c].result = "error" /\ \A d \in Clients : d # c => op'[d] = op[d]
    BY <1>1, <1>4, FailsIs DEF Breaks
  <2>2. Keep /\ UNCHANGED local
    BY <1>4 DEF Breaks
  <2> QED BY <2>1, <2>2, CompleteWhen
<1>5. CASE PrinterWrites
  <2>1. Keep /\ UNCHANGED <<local, op>>
    BY <1>5 DEF PrinterWrites
  <2> QED BY <2>1, CompleteStays DEF CompleteInv
<1>6. CASE UNCHANGED vars
  BY <1>6 DEF vars, CompleteInv, OnItsWay, Leads, Saved
<1> QED BY <1>2, <1>3, <1>4, <1>5, <1>6, CallComplete, DownloadComplete DEF Next

LEMMA CompleteMeans == TypeOK /\ CompleteInv => DownloadIsComplete
<1> SUFFICES ASSUME TypeOK, CompleteInv, NEW c \in Clients,
                    op[c].call.what = "getdir", op[c].call.rec, op[c].result = "ok",
                    NEW q \in kept[c], Below(op[c].call.path, q)
             PROVE  Saved(c, q) \in DOMAIN local
  BY DEF DownloadIsComplete, Saved
<1>1. OnItsWay(c, q)
  BY DEF CompleteInv
<1>2. On(op[c].stack) = {}
  <2>1. op[c].stack = <<>>
    BY DEF TypeOK, Busy
  <2> QED BY <2>1 DEF On
<1> QED BY <1>1, <1>2 DEF OnItsWay

\* When the download of a whole directory succeeds, every file that was in it all the time is
\* there, whatever else is written, moved and removed meanwhile and whatever odd entries the
\* server lists.
THEOREM DownloadIsCompleteCorrect == Spec => []DownloadIsComplete
<1>1. Init => CompleteInv
  BY DEF Init, Idle, CompleteInv
<1> QED BY <1>1, InitType, NextType, NextComplete, CompleteMeans, PTL DEF Spec

-----------------------------------------------------------------------------
(* What a removal removes. *)

Links(t) == {k \in DOMAIN t : t[k].kind = "link"}

\* The odd entries are names too, those of the directory and its parent say: none has separators.
NamesAreListed == \A E \in Oddities : \A e \in E : Len(e.name) = 1

\* No link is moved to where a removal is at work.
NoLinkMovedIn ==
  \A k \in Links(tree') \ Links(tree) : \A c \in Clients :
    Busy(c) /\ op[c].call.what = "rmr" => ~Below(op[c].call.path, k)

\* Where nothing links away between two paths, following keeps the one below the other.
LEMMA FollowedBelow ==
  ASSUME NEW t, GoodTree(t), NEW a \in Path, NEW p \in Path, Below(a, p),
         \A k \in Links(t) : Below(a, k) /\ Below(k, p) => k = p
  PROVE  Below(Followed(t, a), Followed(t, p))
<1>1. ASSUME NEW k \in LinksAbove(t, p) PROVE k \in LinksAbove(t, a)
  <2>1. k \in Links(t) /\ k \in DOMAIN t /\ k \in Path /\ k # p /\ Below(k, p)
    BY <1>1, TreePath DEF LinksAbove, Links
  <2>2. ~Below(a, k)
    BY <2>1
  <2>3. Len(k) <= Len(a)
    <3>1. Len(a) <= Len(k) => Below(a, k)
      BY <2>1, BelowOneWay
    <3> QED BY <2>1, <2>2, <3>1, PathIs
  <2>4. Below(k, a) /\ k # a
    BY <2>1, <2>2, <2>3, BelowOneWay, BelowItself
  <2> QED BY <2>1, <2>4 DEF LinksAbove, Links
<1>2. ASSUME NEW k \in LinksAbove(t, a) PROVE k \in LinksAbove(t, p)
  <2>1. k \in DOMAIN t /\ t[k].kind = "link" /\ k \in Path /\ k # a /\ Below(k, a)
    BY <1>2, TreePath DEF LinksAbove
  <2>2. Below(k, p)
    BY <2>1, BelowTransitive
  <2>3. k # p
    <3>1. Len(k) < Len(a) /\ Len(a) <= Len(p) /\ Len(k) \in Nat /\ Len(a) \in Nat /\ Len(p) \in Nat
      BY <2>1, StrictlyBelow, BelowIs, PathIs
    <3> QED BY <3>1
  <2> QED BY <2>1, <2>2, <2>3 DEF LinksAbove
<1>3. LinksAbove(t, a) = LinksAbove(t, p)
  BY <1>1, <1>2
<1>4. CASE LinksAbove(t, a) = {}
  BY <1>3, <1>4 DEF Followed
<1>5. CASE LinksAbove(t, a) # {}
  <2> DEFINE k == CHOOSE q \in LinksAbove(t, a) : TRUE
  <2>1. k \in LinksAbove(t, a)
    BY <1>5
  <2>2. Followed(t, a) = t[k].to \o Beyond(k, a) /\ Followed(t, p) = t[k].to \o Beyond(k, p)
    BY <1>3, <1>5 DEF Followed
  <2> HIDE DEF k
  <2>3. k \in Path /\ t[k].to \in Path /\ Below(k, a) /\ Below(k, p)
    <3>1. k \in DOMAIN t /\ Below(k, a)
      BY <2>1 DEF LinksAbove
    <3>2. k \in Path /\ t[k].to \in Path
      BY <3>1, TreePath, PlainPath DEF Node
    <3> QED BY <3>1, <3>2, BelowTransitive
  <2> DEFINE b == Beyond(k, a)
             d == Beyond(k, p)
  <2>4. b \in Path /\ d \in Path /\ k \o b = a /\ k \o d = p
    BY <2>3, BeyondIs, JoinBeyond
  <2> HIDE DEF b, d
  <2>5. Below(k \o b, k \o d)
    BY <2>4
  <2>6. Below(b, d)
    BY <2>3, <2>4, <2>5, BelowBeyond
  <2>7. Below(t[k].to \o b, t[k].to \o d)
    BY <2>3, <2>4, <2>6, BelowBeyond
  <2> QED BY <2>2, <2>7 DEF b, d
<1> QED BY <1>4, <1>5

\* A frame of a removal is below the path asked for, and no link is on the way there, but for
\* one that is yet to be deleted; what is left to do has one name.
ClearFrame(t, root, f) ==
  /\ Below(root, f.path)
  /\ \A k \in Links(t) : Below(root, k) /\ Below(k, f.path) => k = f.path /\ f.at = "delete"
  /\ \A e \in f.todo : Len(e.name) = 1 /\ e.name \notin Special

ClearInv ==
  /\ \A e \in odd : Len(e.name) = 1
  /\ \A c \in Clients :
       Busy(c) /\ op[c].call.what = "rmr" =>
         \A f \in On(op[c].stack) : ClearFrame(tree, op[c].call.path, f)

LEMMA ClearStays ==
  ASSUME NoLinkMovedIn, NEW c \in Clients, Busy(c), op[c].call.what = "rmr",
         NEW f, ClearFrame(tree, op[c].call.path, f)
  PROVE  ClearFrame(tree', op[c].call.path, f)
BY DEF NoLinkMovedIn, ClearFrame

\* A step of one client, which must see to its new frames only.
LEMMA ClearWhen ==
  ASSUME StacksOK, ClearInv, NoLinkMovedIn, UNCHANGED odd, NEW c \in Clients,
         \A d \in Clients : d # c => op'[d] = op[d],
         op'[c].result = "running" /\ op'[c].call.what = "rmr" =>
           \A f \in On(op'[c].stack) : ClearFrame(tree', op'[c].call.path, f)
  PROVE  ClearInv'
<1>1. ASSUME NEW d \in Clients, d # c, op'[d].result = "running", op'[d].call.what = "rmr",
             NEW f \in On(op'[d].stack)
      PROVE  ClearFrame(tree', op'[d].call.path, f)
  <2>1. ClearFrame(tree, op[d].call.path, f)
    BY <1>1 DEF ClearInv, Busy
  <2>2. ClearFrame(tree', op[d].call.path, f)
    BY <1>1, <2>1, ClearStays DEF Busy
  <2> QED BY <1>1, <2>2
<1> QED BY <1>1 DEF ClearInv, Busy

\* An entry of a walk is a name in its directory.
LEMMA EntryName ==
  ASSUME NEW p \in Plain, NEW e \in Entry, Len(e.name) = 1, e.name \notin Special
  PROVE  /\ CleanRoot(p \o e.name) = p \o e.name
         /\ p \o e.name \in Plain /\ Below(p, p \o e.name) /\ Len(p \o e.name) = Len(p) + 1
<1> DEFINE n == e.name[1]
           r == p \o e.name
<1>1. e.name \in Path
  BY DEF Entry
<1>2. n \in STRING /\ e.name = <<n>>
  BY <1>1 DEF Path
<1> HIDE DEF n
<1>3. n \notin {".", ".."}
  BY <1>2 DEF Special
<1>4. e.name \in Plain
  BY <1>2, <1>3, OneName
<1>5. r \in Plain
  BY <1>4, JoinPlain
<1>6. p \in Path
  BY PlainPath
<1>7. Len(r) = Len(p) + 1
  <2>1. Len(p \o e.name) = Len(p) + Len(e.name)
    BY <1>1, <1>6, JoinIs
  <2> QED BY <2>1
<1>8. Below(p, r)
  BY <1>1, <1>6, JoinBelow
<1> HIDE DEF r
<1>9. CleanRoot(r) = r
  BY <1>5, CleanPlain
<1> QED BY <1>5, <1>7, <1>8, <1>9 DEF r

\* What is walked has one name, however the server lists it.
LEMMA WalkedName ==
  ASSUME TypeOK, ClearInv, NEW p \in Plain, NEW e \in Unwalked(p)
  PROVE  Len(e.name) = 1 /\ e.name \notin Special
<1>1. e \in Listing(tree, p) /\ e.name \notin Special
  BY DEF Unwalked
<1>2. CASE e \in odd
  BY <1>1, <1>2 DEF ClearInv
<1>3. CASE e \notin odd
  <2>1. PICK q \in Children(tree, Directory(tree, p)) : e = [name |-> <<Last(q)>>, kind |-> tree[q].kind]
    BY <1>1, <1>3 DEF Listing
  <2> QED BY <1>1, <2>1
<1> QED BY <1>2, <1>3

\* The way to an entry is as clear as the way to its directory.
LEMMA EntryClear ==
  ASSUME GoodTree(tree), NEW root \in Path, NEW f \in Frame, ClearFrame(tree, root, f), f.at = "each",
         NEW e \in f.todo
  PROVE  /\ CleanRoot(f.path \o e.name) \in Plain
         /\ Below(root, CleanRoot(f.path \o e.name))
         /\ \A k \in Links(tree) :
              Below(root, k) /\ Below(k, CleanRoot(f.path \o e.name)) => k = CleanRoot(f.path \o e.name)
<1> DEFINE p == f.path
           full == CleanRoot(p \o e.name)
<1>1. p \in Plain /\ p \in Path /\ e \in Entry
  BY PlainPath DEF Frame
<1>2. Below(root, p) /\ Len(e.name) = 1 /\ e.name \notin Special
  BY DEF ClearFrame
<1>3. \A k \in Links(tree) : ~(Below(root, k) /\ Below(k, p))
  BY DEF ClearFrame
<1>4. full = p \o e.name
  BY <1>1, <1>2, EntryName
<1>5. full \in Plain /\ Below(p, full) /\ Len(full) = Len(p) + 1
  BY <1>1, <1>2, <1>4, EntryName
<1> HIDE DEF full, p
<1>6. full \in Path /\ Below(root, full)
  BY <1>1, <1>2, <1>5, PlainPath, BelowTransitive
<1>7. ASSUME NEW k \in Links(tree), Below(root, k), Below(k, full), k # full PROVE FALSE
  <2>1. k \in Path
    BY <1>7, TreePath DEF Links
  <2>2. Len(k) < Len(full)
    BY <1>6, <1>7, <2>1, StrictlyBelow
  <2>3. Len(k) <= Len(p)
    BY <1>1, <1>5, <2>1, <2>2, PathIs
  <2>4. Below(k, p)
    BY <1>1, <1>5, <1>6, <1>7, <2>1, <2>3, BelowOneWay
  <2> QED BY <1>3, <1>7, <2>4
<1> QED BY <1>5, <1>6, <1>7 DEF full, p

\* The frames of a removal, and the one it works on.
LEMMA FramesClear ==
  ASSUME TypeOK, ClearInv, NEW c \in Clients, RemoveStep(c)
  PROVE  /\ StacksOK /\ Busy(c) /\ op[c].call.what = "rmr" /\ GoodTree(tree) /\ UNCHANGED odd
         /\ op[c].call.path \in Plain /\ op[c].call.path \in Path
         /\ Top(c) \in Frame /\ Top(c).path \in Plain /\ Top(c).path \in Path /\ Top(c).todo \subseteq Entry
         /\ ClearFrame(tree, op[c].call.path, Top(c))
         /\ \A f \in On(Tail(op[c].stack)) : ClearFrame(tree, op[c].call.path, f)
<1>1. StacksOK /\ Busy(c) /\ op[c].call.what = "rmr" /\ GoodTree(tree) /\ UNCHANGED odd
  BY DEF TypeOK, StacksOK, RemoveStep, RemoveTry, RemoveList, RemoveEntry, RemoveEmpty, Does
<1>2. Top(c) \in Frame /\ On(op[c].stack) = {Top(c)} \cup On(Tail(op[c].stack))
  BY <1>1, TopType
<1>3. Top(c).path \in Plain /\ Top(c).path \in Path /\ Top(c).todo \subseteq Entry
  BY <1>2, PlainPath DEF Frame
<1>4. op[c].call.path \in Plain /\ op[c].call.path \in Path
  BY PlainPath DEF TypeOK, Operation
<1>5. \A f \in On(op[c].stack) : ClearFrame(tree, op[c].call.path, f)
  BY <1>1 DEF ClearInv
<1> QED BY <1>1, <1>2, <1>3, <1>4, <1>5

LEMMA RemoveClear ==
  ASSUME TypeOK, ClearInv, NoLinkMovedIn, NEW c \in Clients, RemoveStep(c)
  PROVE  ClearInv'
<1> DEFINE root == op[c].call.path
           top == Top(c)
<1>1. /\ StacksOK /\ Busy(c) /\ GoodTree(tree) /\ UNCHANGED odd
      /\ op[c].call.what = "rmr"
      /\ root \in Path /\ top \in Frame /\ top.path \in Plain /\ top.path \in Path /\ top.todo \subseteq Entry
      /\ ClearFrame(tree, root, top)
  BY FramesClear
<1>2. \A f \in On(Tail(op[c].stack)) : ClearFrame(tree', root, f)
  BY <1>1, FramesClear, ClearStays
<1>3. CASE Pop(c)
  <2>1. /\ op'[c].call = op[c].call /\ op'[c].stack = Tail(op[c].stack)
        /\ \A d \in Clients : d # c => op'[d] = op[d]
    BY <1>1, <1>3, PopIs
  <2> QED BY <1>1, <1>2, <2>1, ClearWhen
<1>4. CASE Fails(c)
  <2>1. op'[c].result = "error" /\ \A d \in Clients : d # c => op'[d] = op[d]
    BY <1>1, <1>4, FailsIs
  <2> QED BY <1>1, <2>1, ClearWhen
<1>5. ASSUME NEW f \in Frame, Goes(c, <<f>>), ClearFrame(tree, root, f) PROVE ClearInv'
  <2>1. /\ op'[c].call = op[c].call /\ On(op'[c].stack) = {f} \cup On(Tail(op[c].stack))
        /\ \A d \in Clients : d # c => op'[d] = op[d]
    BY <1>1, <1>5, GoesOne
  <2>2. ClearFrame(tree', root, f)
    BY <1>1, <1>5, ClearStays
  <2> QED BY <1>1, <1>2, <2>1, <2>2, ClearWhen
<1>6. ASSUME NEW f \in Frame, NEW g \in Frame, Goes(c, <<f, g>>), ClearFrame(tree, root, f),
             ClearFrame(tree, root, g)
      PROVE  ClearInv'
  <2>1. /\ op'[c].call = op[c].call /\ On(op'[c].stack) = {f, g} \cup On(Tail(op[c].stack))
        /\ \A d \in Clients : d # c => op'[d] = op[d]
    BY <1>1, <1>6, GoesTwo
  <2>2. ClearFrame(tree', root, f) /\ ClearFrame(tree', root, g)
    BY <1>1, <1>6, ClearStays
  <2> QED BY <1>1, <1>2, <2>1, <2>2, ClearWhen
<1>7. CASE RemoveTry(c)
  <2> DEFINE f == [top EXCEPT !.at = "list"]
  <2>1. Pop(c) \/ (~CanDelete(tree, top.path) /\ Goes(c, <<f>>))
    BY <1>7 DEF RemoveTry
  <2>2. f \in Frame /\ f.path = top.path /\ f.todo = top.todo
    BY <1>1 DEF Frame
  <2>3. ASSUME ~CanDelete(tree, top.path) PROVE ClearFrame(tree, root, f)
    <3>1. top.path \notin Links(tree)
      <4> SUFFICES ASSUME top.path \in Links(tree) PROVE FALSE
        OBVIOUS
      <4>1. top.path \in DOMAIN tree /\ tree[top.path].kind = "link"
        BY DEF Links
      <4>2. Followed(tree, top.path) = top.path
        BY <1>1, <4>1, NoLinkAbove, BelowItself
      <4> QED BY <2>3, <4>1, <4>2 DEF CanDelete
    <3> HIDE DEF f
    <3> QED BY <1>1, <2>2, <3>1 DEF ClearFrame
  <2> HIDE DEF f
  <2> QED BY <1>3, <1>5, <2>1, <2>2, <2>3
<1>8. CASE RemoveList(c)
  <2> DEFINE f == [top EXCEPT !.at = "each", !.todo = Unwalked(top.path)]
  <2>1. top.at = "list" /\ (Fails(c) \/ Goes(c, <<f>>))
    BY <1>8 DEF RemoveList, Does
  <2>2. f \in Frame /\ f.path = top.path /\ f.todo = Unwalked(top.path)
    BY <1>1, ListingType DEF Frame
  <2>3. \A e \in Unwalked(top.path) : Len(e.name) = 1 /\ e.name \notin Special
    BY <1>1, WalkedName
  <2> HIDE DEF f
  <2>4. ClearFrame(tree, root, f)
    BY <1>1, <2>1, <2>2, <2>3 DEF ClearFrame
  <2> QED BY <1>4, <1>5, <2>1, <2>2, <2>4
<1>9. CASE RemoveEntry(c)
  <2>1. PICK e \in top.todo :
          LET full == CleanRoot(top.path \o e.name)
              rest == [top EXCEPT !.todo = @ \ {e}]
          IN Goes(c, <<Visit("delete", full, <<>>), rest>>) \/ Goes(c, <<rest>>) \/ Fails(c)
    BY <1>9 DEF RemoveEntry
  <2> DEFINE full == CleanRoot(top.path \o e.name)
             rest == [top EXCEPT !.todo = @ \ {e}]
             first == Visit("delete", full, <<>>)
  <2>2. Goes(c, <<first, rest>>) \/ Goes(c, <<rest>>) \/ Fails(c)
    BY <2>1
  <2>3. top.at = "each"
    BY <1>9 DEF RemoveEntry, Does
  <2>4. /\ full \in Plain /\ Below(root, full)
        /\ \A k \in Links(tree) : Below(root, k) /\ Below(k, full) => k = full
    BY <1>1, <2>3, EntryClear
  <2>5. rest \in Frame /\ rest.path = top.path /\ rest.at = "each" /\ rest.todo \subseteq top.todo
    BY <1>1, <2>3 DEF Frame
  <2>6. first \in Frame /\ first.path = full /\ first.at = "delete" /\ first.todo = {}
    BY <2>4, VisitType, RootPath DEF Visit
  <2> HIDE DEF full, rest, first
  <2>7. ClearFrame(tree, root, rest)
    BY <1>1, <2>3, <2>5 DEF ClearFrame
  <2>8. ClearFrame(tree, root, first)
    BY <2>4, <2>6 DEF ClearFrame
  <2> QED BY <1>4, <1>5, <1>6, <2>2, <2>5, <2>6, <2>7, <2>8
<1>10. CASE RemoveEmpty(c)
  BY <1>3, <1>4, <1>10 DEF RemoveEmpty
<1> QED BY <1>7, <1>8, <1>9, <1>10 DEF RemoveStep

LEMMA CallClear ==
  ASSUME TypeOK, ClearInv, NoLinkMovedIn, NEW c \in Clients, Call(c)
  PROVE  ClearInv'
<1> DEFINE call == op'[c].call
<1>1. /\ call \in [what : Commands, path : Plain, to : Path, rec : BOOLEAN]
      /\ \A d \in Clients : d # c => op'[d] = op[d]
      /\ op'[c].result = "error" \/ op'[c].stack = First(call)
  BY CallIs
<1>2. StacksOK /\ UNCHANGED odd /\ GoodTree(tree) /\ UNCHANGED tree
  BY DEF TypeOK, StacksOK, Call
<1> DEFINE f == Visit("delete", call.path, <<>>)
<1>3. call.what = "rmr" => On(First(call)) = {f}
  BY OnOne DEF First
<1>4. f.path = call.path /\ f.at = "delete" /\ f.todo = {}
  BY DEF Visit
<1>5. call.path \in Path
  BY <1>1, PlainPath
<1> HIDE DEF call, f
<1>6. ClearFrame(tree', call.path, f)
  <2>1. ASSUME NEW k \in Links(tree), Below(call.path, k), Below(k, call.path) PROVE k = call.path
    <3>1. k \in Path
      BY <1>2, <2>1, TreePath DEF Links
    <3>2. Len(k) = Len(call.path)
      BY <1>5, <2>1, <3>1, BelowIs, PathIs
    <3> QED BY <1>5, <2>1, <3>1, <3>2, BelowEqual
  <2> QED BY <1>2, <1>4, <1>5, <2>1, BelowItself DEF ClearFrame
<1>7. op'[c].result = "running" /\ op'[c].call.what = "rmr" =>
        \A g \in On(op'[c].stack) : ClearFrame(tree', op'[c].call.path, g)
  BY <1>1, <1>3, <1>6 DEF call
<1> QED BY <1>1, <1>2, <1>7, ClearWhen

LEMMA NextClear == TypeOK /\ ClearInv /\ NoLinkMovedIn /\ [Next]_vars => ClearInv'
<1> SUFFICES ASSUME TypeOK, ClearInv, NoLinkMovedIn, [Next]_vars PROVE ClearInv'
  OBVIOUS
<1>1. StacksOK
  BY DEF TypeOK, StacksOK
<1>2. ASSUME NEW c \in Clients, DownloadStep(c) PROVE ClearInv'
  <2>1. op[c].call.what = "getdir" /\ \E stack, result : Moves(c, stack, result)
    BY <1>2, DownloadMovesSo DEF DownloadMoves, Goes, Pop, Fails
  <2>2. op'[c].call = op[c].call /\ \A d \in Clients : d # c => op'[d] = op[d]
    BY <1>1, <2>1, MovesIs DEF StacksOK
  <2>3. UNCHANGED odd
    BY <1>2 DEF DownloadStep, DownloadList, DownloadEntry, DownloadDone
  <2> QED BY <1>1, <2>1, <2>2, <2>3, ClearWhen
<1>3. ASSUME NEW c \in Clients, OneStep(c) \/ Breaks(c) PROVE ClearInv'
  <2>1. op'[c].result # "running" /\ \A d \in Clients : d # c => op'[d] = op[d]
    BY <1>1, <1>3, OneStepEnds, FailsIs DEF Breaks
  <2>2. UNCHANGED odd
    BY <1>3 DEF OneStep, Delete, MakeDirectory, Rename, Upload, ListFiles, DownloadFile, Breaks
  <2> QED BY <1>1, <2>1, <2>2, ClearWhen
<1>4. CASE PrinterWrites \/ UNCHANGED vars
  <2>1. UNCHANGED <<odd, op>>
    BY <1>4 DEF PrinterWrites, vars
  <2> QED BY <2>1, ClearStays DEF ClearInv, Busy
<1> QED BY <1>2, <1>3, <1>4, CallClear, RemoveClear DEF Next

\* What one step removes is below what one of the clients asked to be removed.
LEMMA RemoveRemoves ==
  ASSUME TypeOK, ClearInv, NEW c \in Clients, RemoveStep(c), NEW q \in DOMAIN tree \ DOMAIN tree'
  PROVE  Below(Followed(tree, op[c].call.path), q)
<1> DEFINE root == op[c].call.path
           top == Top(c)
<1>1. /\ GoodTree(tree) /\ root \in Path /\ top \in Frame /\ top.path \in Path
      /\ ClearFrame(tree, root, top)
  BY FramesClear
<1>2. ASSUME NEW p \in Path, Below(root, p),
             \A k \in Links(tree) : Below(root, k) /\ Below(k, p) => k = p,
             tree' = Without(tree, {Followed(tree, p)})
      PROVE  Below(Followed(tree, root), q)
  <2> DEFINE r == Followed(tree, p)
  <2>1. tree' = Without(tree, {r})
    BY <1>2
  <2> HIDE DEF r
  <2>2. q = r
    BY <2>1, WithoutIs
  <2> QED BY <1>1, <1>2, <2>2, FollowedBelow DEF r
<1>3. CASE tree' = Without(tree, {Followed(tree, top.path)})
  BY <1>1, <1>2, <1>3 DEF ClearFrame
<1>4. CASE RemoveEntry(c)
  <2>1. PICK e \in top.todo : tree' = Without(tree, {Followed(tree, CleanRoot(top.path \o e.name))})
    BY <1>4 DEF RemoveEntry
  <2>2. top.at = "each"
    BY <1>4 DEF RemoveEntry, Does
  <2> DEFINE full == CleanRoot(top.path \o e.name)
  <2>3. /\ full \in Plain /\ Below(root, full)
        /\ \A k \in Links(tree) : Below(root, k) /\ Below(k, full) => k = full
    BY <1>1, <2>2, EntryClear
  <2>4. tree' = Without(tree, {Followed(tree, full)})
    BY <2>1
  <2> HIDE DEF full
  <2> QED BY <1>2, <2>3, <2>4, PlainPath
<1> QED BY <1>3, <1>4 DEF RemoveStep, RemoveTry, RemoveList, RemoveEmpty

LEMMA OneStepRemoves ==
  ASSUME TypeOK, WalkInv, NEW c \in Clients, OneStep(c), NEW q \in DOMAIN tree \ DOMAIN tree'
  PROVE  op[c].call.what \in {"rm", "mv"} /\ Below(Followed(tree, op[c].call.path), q)
<1>1. StacksOK /\ Busy(c) /\ op[c].call.what \notin {"rmr", "getdir"} /\ GoodTree(tree)
  BY OneStepEnds DEF TypeOK
<1>2. op[c].call \in [what : Commands \cup {"none"}, path : Plain, to : Path, rec : BOOLEAN]
  BY DEF TypeOK, Operation
<1>3. Top(c).path = op[c].call.path /\ Top(c).to = op[c].call.to
  BY <1>1, TopType DEF WalkInv, WalkOf, Visit
<1>4. op[c].call.path \in Plain /\ op[c].call.to \in Path
  BY <1>2
<1> DEFINE from == Followed(tree, op[c].call.path)
<1>5. from \in Plain
  BY <1>1, <1>4, FollowedType
<1>6. CASE Delete(c)
  <2>1. op[c].call.what = "rm" /\ tree' = Without(tree, {from})
    BY <1>3, <1>6 DEF Delete, Does
  <2> HIDE DEF from
  <2>2. q = from
    BY <2>1, WithoutIs
  <2> QED BY <1>5, <2>1, <2>2, BelowItself, PlainPath DEF from
<1>7. CASE Rename(c)
  <2> DEFINE to == Followed(tree, CleanRoot(op[c].call.to))
  <2>1. op[c].call.what = "mv" /\ CanMove(tree, from, to) /\ tree' = Moved(tree, from, to)
    BY <1>3, <1>7 DEF Rename, Does
  <2>2. to \in Plain
    BY <1>1, <1>4, CleanType, FollowedType
  <2> HIDE DEF from, to
  <2>3. \A r \in DOMAIN tree : ~Below(from, r) => r \in DOMAIN Moved(tree, from, to)
    BY <1>1, <1>5, <2>1, <2>2, MovedIs
  <2> QED BY <2>1, <2>3 DEF from
<1>8. CASE MakeDirectory(c) \/ Upload(c) \/ ListFiles(c) \/ DownloadFile(c)
  BY <1>8 DEF MakeDirectory, Upload, ListFiles, DownloadFile, Put
<1> QED BY <1>6, <1>7, <1>8 DEF OneStep

OnlyBelow == \A q \in DOMAIN tree \ DOMAIN tree' : Removers(q) # {}

LEMMA NextRemoves == TypeOK /\ WalkInv /\ ClearInv /\ [Next]_vars => [OnlyBelow]_vars
<1> SUFFICES ASSUME TypeOK, WalkInv, ClearInv, Next, NEW q \in DOMAIN tree \ DOMAIN tree'
             PROVE  Removers(q) # {}
  BY DEF OnlyBelow
<1>1. ASSUME NEW c \in Clients, RemoveStep(c) PROVE Removers(q) # {}
  <2>1. Busy(c) /\ op[c].call.what = "rmr" /\ Below(Followed(tree, op[c].call.path), q)
    BY <1>1, FramesClear, RemoveRemoves
  <2>2. c \in Removers(q)
    BY <2>1 DEF Removers
  <2> QED BY <2>2
<1>2. ASSUME NEW c \in Clients, OneStep(c) PROVE Removers(q) # {}
  <2>1. Busy(c) /\ op[c].call.what \in {"rm", "mv"} /\ Below(Followed(tree, op[c].call.path), q)
    BY <1>2, OneStepEnds, OneStepRemoves
  <2>2. c \in Removers(q)
    BY <2>1 DEF Removers
  <2> QED BY <2>2
<1>3. ASSUME NEW c \in Clients, Call(c) \/ DownloadStep(c) \/ Breaks(c) PROVE FALSE
  BY <1>3 DEF Call, DownloadStep, DownloadList, DownloadEntry, DownloadDone, Breaks
<1>4. ~PrinterWrites
  BY DEF PrinterWrites, Put
<1> QED BY <1>1, <1>2, <1>3, <1>4 DEF Next

LEMMA InitClear == NamesAreListed /\ Init => ClearInv
BY DEF NamesAreListed, Init, Idle, ClearInv, Busy

\* Nothing but what is at or below the path asked for is ever removed from the storage, however
\* the tree is changed meanwhile, so long as no link is moved there and the server lists names.
THEOREM RemovesOnlyBelowCorrect ==
  ASSUME NamesAreListed
  PROVE  Spec /\ [][NoLinkMovedIn]_vars => RemovesOnlyBelow
<1>1. Init => ClearInv
  BY InitClear
<1>2. TypeOK /\ ClearInv /\ [NoLinkMovedIn]_vars /\ [Next]_vars => ClearInv'
  <2>1. UNCHANGED vars => NoLinkMovedIn
    BY DEF vars, NoLinkMovedIn
  <2> QED BY <2>1, NextClear
<1>3. RemovesOnlyBelow <=> [][OnlyBelow]_vars
  BY DEF RemovesOnlyBelow, OnlyBelow
<1> QED BY <1>1, <1>2, <1>3, InitType, NextType, InitSaves, NextSaves, NextRemoves, PTL DEF Spec

=============================================================================
