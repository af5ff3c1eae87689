--------------------------- MODULE CommandsProofs ---------------------------
(***************************************************************************)
(* Proofs that the safety properties of Commands hold of every instance:   *)
(* any number of calls of lantun, any commands, names, places and files,   *)
(* and that calm commands implement TunnelBook.                            *)
(***************************************************************************)
EXTENDS CommandsInv, TLAPS, SequenceTheorems, FiniteSetTheorems

-----------------------------------------------------------------------------
(* The lists of the configuration.                                         *)

\* The first of the numbers of a non-empty set.
LEMMA Least ==
  ASSUME NEW I \in SUBSET Nat, I # {}
  PROVE  Min(I) \in I /\ \A j \in I : Min(I) <= j
<1> DEFINE R == OpToRel(<, Nat)
<1>1. \A x, y \in Nat : <<y, x>> \in R <=> y < x
  BY DEF OpToRel
<1>2. IsWellFoundedOn(R, Nat)
  BY NatLessThanWellFounded
<1> HIDE DEF R
<1>3. \E x \in I : \A y \in I : ~ (<<y, x>> \in R)
  BY <1>2, WFMin, Zenon
<1>4. PICK x \in I : \A y \in I : ~ (<<y, x>> \in R)
  BY <1>3
<1>5. ASSUME NEW y \in I PROVE x <= y
  <2>1. x \in Nat /\ y \in Nat /\ ~(<<y, x>> \in R)
    BY <1>4
  <2>2. ~(y < x)
    BY <1>1, <2>1, Zenon
  <2> QED
    BY <2>1, <2>2
<1> QED
  BY <1>4, <1>5 DEF Min

\* An entry put into a list leaves those before it and moves those behind it.
LEMMA InsertedAt ==
  ASSUME NEW S, NEW s \in Seq(S), NEW e \in S, NEW k \in 1..Len(s) + 1
  PROVE  /\ InsertAt(s, k, e) \in Seq(S)
         /\ Len(InsertAt(s, k, e)) = Len(s) + 1
         /\ \A i \in 1..Len(s) + 1 :
              InsertAt(s, k, e)[i] =
                IF i < k THEN s[i] ELSE IF i = k THEN e ELSE s[i - 1]
<1> DEFINE a == SubSeq(s, 1, k - 1)
           b == SubSeq(s, k, Len(s))
<1>1. /\ a \in Seq(S) /\ Len(a) = k - 1
      /\ \A i \in 1..k - 1 : a[i] = s[i]
  BY SMT
<1>2. /\ b \in Seq(S) /\ Len(b) = Len(s) - k + 1
      /\ \A i \in 1..Len(s) - k + 1 : b[i] = s[i + k - 1]
  BY SMT
<1> HIDE DEF a, b
<1> DEFINE c == a \o <<e>>
           n == Len(s)
<1>0. <<e>> \in Seq(S) /\ Len(<<e>>) = 1 /\ <<e>>[1] = e /\ n \in Nat /\ k \in 1..n + 1
  OBVIOUS
<1>3. /\ c \in Seq(S) /\ Len(c) = k
      /\ \A i \in 1..k - 1 : c[i] = s[i]
      /\ c[k] = e
  <2>1. /\ c \in Seq(S) /\ Len(c) = Len(a) + 1
        /\ \A i \in 1..Len(a) + 1 : c[i] = IF i <= Len(a) THEN a[i] ELSE <<e>>[i - Len(a)]
    BY <1>0, <1>1, ConcatProperties
  <2> HIDE DEF c, n
  <2>2. ASSUME NEW i \in 1..k - 1 PROVE c[i] = s[i]
    <3>1. i \in 1..Len(a) + 1 /\ i <= Len(a)
      BY <1>0, <1>1
    <3> QED
      BY <1>1, <2>1, <3>1
  <2>3. k \in 1..Len(a) + 1 /\ ~(k <= Len(a)) /\ k - Len(a) = 1
    BY <1>0, <1>1
  <2>4. c[k] = e
    BY <1>0, <2>1, <2>3
  <2> QED
    BY <1>0, <1>1, <2>1, <2>2, <2>4
<1>4. /\ c \o b \in Seq(S) /\ Len(c \o b) = Len(c) + Len(b)
      /\ \A i \in 1..Len(c) + Len(b) : (c \o b)[i] = IF i <= Len(c) THEN c[i] ELSE b[i - Len(c)]
  <2> HIDE DEF c
  <2> QED
    BY <1>2, <1>3, ConcatProperties
<1>5. InsertAt(s, k, e) = c \o b
  BY DEF InsertAt, a, b
<1> DEFINE d == c \o b
<1> HIDE DEF c, d, n
<1>6. Len(d) = n + 1
  BY <1>0, <1>2, <1>3, <1>4 DEF d, n
<1>7. ASSUME NEW i \in 1..n + 1
      PROVE  d[i] = IF i < k THEN s[i] ELSE IF i = k THEN e ELSE s[i - 1]
  <2>1. i \in 1..Len(c) + Len(b)
    BY <1>0, <1>2, <1>3 DEF n
  <2>2. d[i] = IF i <= k THEN c[i] ELSE b[i - k]
    BY <1>3, <1>4, <2>1 DEF d
  <2>3. CASE i <= k
    BY <1>0, <1>3, <2>2, <2>3
  <2>4. CASE i > k
    <3>1. i - k \in 1..n - k + 1 /\ i - k + k - 1 = i - 1
      BY <1>0, <2>4
    <3>2. b[i - k] = s[i - 1]
      BY <1>2, <3>1 DEF n
    <3> QED
      BY <1>0, <2>2, <2>4, <3>2
  <2> QED
    BY <1>0, <2>3, <2>4
<1> QED
  BY <1>4, <1>5, <1>6, <1>7 DEF d, n

\* An entry taken out of a list leaves those before it and moves those behind
\* it.
LEMMA RemovedAt ==
  ASSUME NEW S, NEW s \in Seq(S), NEW k \in 1..Len(s)
  PROVE  /\ RemoveAt(s, k) \in Seq(S)
         /\ Len(RemoveAt(s, k)) = Len(s) - 1
         /\ \A i \in 1..Len(s) - 1 :
              RemoveAt(s, k)[i] = IF i < k THEN s[i] ELSE s[i + 1]
<1> DEFINE a == SubSeq(s, 1, k - 1)
           b == SubSeq(s, k + 1, Len(s))
<1>1. /\ a \in Seq(S) /\ Len(a) = k - 1
      /\ \A i \in 1..k - 1 : a[i] = s[i]
  BY SMT
<1>2. /\ b \in Seq(S) /\ Len(b) = Len(s) - k
      /\ \A i \in 1..Len(s) - k : b[i] = s[i + k]
  BY SMT
<1> HIDE DEF a, b
<1> DEFINE n == Len(s)
           d == a \o b
<1>0. n \in Nat /\ k \in 1..n
  OBVIOUS
<1>3. /\ d \in Seq(S) /\ Len(d) = Len(a) + Len(b)
      /\ \A i \in 1..Len(a) + Len(b) : d[i] = IF i <= Len(a) THEN a[i] ELSE b[i - Len(a)]
  BY <1>1, <1>2, ConcatProperties
<1>4. RemoveAt(s, k) = d
  BY DEF RemoveAt, a, b
<1> HIDE DEF d, n
<1>5. Len(d) = n - 1
  BY <1>0, <1>1, <1>2, <1>3 DEF n
<1>6. ASSUME NEW i \in 1..n - 1
      PROVE  d[i] = IF i < k THEN s[i] ELSE s[i + 1]
  <2>1. i \in 1..Len(a) + Len(b)
    BY <1>0, <1>1, <1>2 DEF n
  <2>2. d[i] = IF i <= k - 1 THEN a[i] ELSE b[i - (k - 1)]
    BY <1>1, <1>3, <2>1
  <2>3. CASE i < k
    BY <1>0, <1>1, <2>2, <2>3
  <2>4. CASE i >= k
    <3>1. i - (k - 1) \in 1..n - k /\ i - (k - 1) + k = i + 1
      BY <1>0, <2>4
    <3>2. b[i - (k - 1)] = s[i + 1]
      BY <1>2, <3>1 DEF n
    <3> QED
      BY <1>0, <2>2, <2>4, <3>2
  <2> QED
    BY <1>0, <2>3, <2>4
<1> QED
  BY <1>3, <1>4, <1>5, <1>6 DEF n

\* position and remove take out one entry of the name (main.rs:227).
LEMMA WhereNamed ==
  ASSUME NEW S, NEW s \in Seq(S), NEW n, \E e \in ToSet(s) : e.name = n
  PROVE  \E k \in 1..Len(s) : /\ s[k].name = n
                              /\ Without(s, n) = RemoveAt(s, k)
<1> DEFINE I == {i \in 1..Len(s) : s[i].name = n}
<1>1. I # {} /\ I \in SUBSET Nat
  BY DEF ToSet
<1>2. SelectInSeq(s, LAMBDA e : e.name = n) = Min(I)
  BY <1>1 DEF SelectInSeq
<1>3. Min(I) \in I
  BY <1>1, Least
<1> QED
  BY <1>2, <1>3 DEF Without

\* push and sort put an entry at some place of the list (main.rs:159).
LEMMA InsertedWhere ==
  ASSUME NEW S, NEW s \in Seq(S), NEW e
  PROVE  \E k \in 1..Len(s) + 1 : Inserted(s, e) = InsertAt(s, k, e)
<1> DEFINE I == {i \in DOMAIN s : s[i].name <= e.name}
<1>0. DOMAIN s = 1..Len(s) /\ Len(s) \in Nat
  OBVIOUS
<1>1. IsFiniteSet(1..Len(s)) /\ Cardinality(1..Len(s)) = Len(s)
  BY <1>0, FS_Interval
<1>2. IsFiniteSet(I) /\ Cardinality(I) <= Len(s)
  BY <1>0, <1>1, FS_Subset
<1>3. Cardinality(I) \in Nat
  BY <1>2, FS_CardinalityType
<1>4. Cardinality(I) + 1 \in 1..Len(s) + 1
  BY <1>0, <1>2, <1>3
<1> QED
  BY <1>4 DEF Inserted

\* A list without repetition has as many entries as elements.
LEMMA CountDistinct ==
  ASSUME NEW S, NEW s \in Seq(S), \A i, j \in DOMAIN s : s[i] = s[j] => i = j
  PROVE  IsFiniteSet(ToSet(s)) /\ Cardinality(ToSet(s)) = Len(s)
<1>1. DOMAIN s = 1..Len(s) /\ Len(s) \in Nat
  OBVIOUS
<1>2. IsFiniteSet(1..Len(s)) /\ Cardinality(1..Len(s)) = Len(s)
  BY <1>1, FS_Interval
<1>3. s \in Bijection(1..Len(s), ToSet(s))
  BY <1>1 DEF Bijection, Injection, Surjection, ToSet, IsInjective
<1> QED
  BY <1>2, <1>3, FS_Bijection DEF ExistsBijection

\* The new entry is in one place of the list, every other place holds an entry
\* of before, each of them once.
WithOneMore(r, s, e) ==
  \E k \in DOMAIN r : \E f \in [DOMAIN r \ {k} -> DOMAIN s] :
    /\ r[k] = e
    /\ \A i \in DOMAIN r \ {k} : r[i] = s[f[i]]
    /\ \A i, j \in DOMAIN r \ {k} : f[i] = f[j] => i = j

\* What adding an entry does to a list (main.rs:159 and main.rs:202).
LEMMA Adding ==
  ASSUME NEW S, NEW s \in Seq(S), NEW e \in S, NEW r, r = Inserted(s, e)
  PROVE  /\ r \in Seq(S)
         /\ ToSet(r) = ToSet(s) \cup {e}
         /\ WithOneMore(r, s, e)
<1> DEFINE n == Len(s)
<1>1. PICK k \in 1..n + 1 : r = InsertAt(s, k, e)
  BY InsertedWhere
<1>2. /\ r \in Seq(S) /\ Len(r) = n + 1
      /\ \A i \in 1..n + 1 :
           r[i] = IF i < k THEN s[i] ELSE IF i = k THEN e ELSE s[i - 1]
  <2>1. /\ InsertAt(s, k, e) \in Seq(S) /\ Len(InsertAt(s, k, e)) = n + 1
        /\ \A i \in 1..n + 1 :
             InsertAt(s, k, e)[i] = IF i < k THEN s[i] ELSE IF i = k THEN e ELSE s[i - 1]
    BY InsertedAt, SMTT(30)
  <2> QED
    BY <1>1, <2>1, Zenon
<1>3. n \in Nat /\ DOMAIN s = 1..n /\ k \in 1..n + 1
  OBVIOUS
<1> HIDE DEF n
<1>4. DOMAIN r = 1..n + 1
  BY <1>2
<1> DEFINE f == [i \in DOMAIN r \ {k} |-> IF i < k THEN i ELSE i - 1]
<1>5. /\ f \in [DOMAIN r \ {k} -> DOMAIN s]
      /\ r[k] = e
      /\ \A i \in DOMAIN r \ {k} : r[i] = s[f[i]]
      /\ \A i, j \in DOMAIN r \ {k} : f[i] = f[j] => i = j
  BY <1>2, <1>3, <1>4
<1>6. ToSet(r) = ToSet(s) \cup {e}
  <2>1. ASSUME NEW i \in DOMAIN r
        PROVE  r[i] \in ToSet(s) \cup {e}
    BY <1>5 DEF ToSet
  <2>2. ASSUME NEW j \in DOMAIN s
        PROVE  s[j] \in ToSet(r)
    <3>1. CASE j < k
      <4>1. j \in 1..n + 1 /\ r[j] = s[j]
        BY <1>2, <1>3, <3>1
      <4> QED
        BY <1>4, <4>1 DEF ToSet
    <3>2. CASE j >= k
      <4>1. j + 1 \in 1..n + 1 /\ ~(j + 1 < k) /\ j + 1 # k /\ j + 1 - 1 = j
        BY <1>3, <3>2
      <4>2. r[j + 1] = s[j]
        BY <1>2, <4>1
      <4> QED
        BY <1>4, <4>1, <4>2 DEF ToSet
    <3> QED
      BY <1>3, <3>1, <3>2
  <2>3. e \in ToSet(r)
    BY <1>3, <1>4, <1>5 DEF ToSet
  <2> QED
    BY <2>1, <2>2, <2>3 DEF ToSet
<1>8. k \in DOMAIN r
  BY <1>3, <1>4
<1> HIDE DEF f
<1>9. \E g \in [DOMAIN r \ {k} -> DOMAIN s] :
        /\ r[k] = e
        /\ \A i \in DOMAIN r \ {k} : r[i] = s[g[i]]
        /\ \A i, j \in DOMAIN r \ {k} : g[i] = g[j] => i = j
  BY <1>5
<1>10. WithOneMore(r, s, e)
  BY <1>8, <1>9 DEF WithOneMore
<1> QED
  BY <1>2, <1>6, <1>10

\* What taking an entry out does to a list: every place holds an entry of
\* before, each of the others once.
LEMMA Removing ==
  ASSUME NEW S, NEW s \in Seq(S), NEW k \in DOMAIN s, NEW r, r = RemoveAt(s, k)
  PROVE  /\ r \in Seq(S)
         /\ ToSet(r) = {s[j] : j \in DOMAIN s \ {k}}
         /\ \E f \in [DOMAIN r -> DOMAIN s] :
              /\ \A i \in DOMAIN r : r[i] = s[f[i]]
              /\ \A i, j \in DOMAIN r : f[i] = f[j] => i = j
<1> DEFINE n == Len(s)
<1>1. n \in Nat /\ DOMAIN s = 1..n /\ k \in 1..n
  OBVIOUS
<1>2. /\ r \in Seq(S) /\ Len(r) = n - 1
      /\ \A i \in 1..n - 1 : r[i] = IF i < k THEN s[i] ELSE s[i + 1]
  BY <1>1, RemovedAt
<1> HIDE DEF n
<1>3. DOMAIN r = 1..n - 1
  BY <1>1, <1>2
<1> DEFINE f == [i \in DOMAIN r |-> IF i < k THEN i ELSE i + 1]
<1>4. /\ f \in [DOMAIN r -> DOMAIN s]
      /\ \A i \in DOMAIN r : r[i] = s[f[i]]
      /\ \A i, j \in DOMAIN r : f[i] = f[j] => i = j
      /\ \A i \in DOMAIN r : f[i] # k
  BY <1>1, <1>2, <1>3
<1>5. ASSUME NEW j \in DOMAIN s \ {k}
      PROVE  s[j] \in ToSet(r)
  <2>1. CASE j < k
    <3>1. j \in 1..n - 1 /\ r[j] = s[j]
      BY <1>1, <1>2, <2>1
    <3> QED
      BY <1>3, <3>1 DEF ToSet
  <2>2. CASE j > k
    <3>1. j - 1 \in 1..n - 1 /\ ~(j - 1 < k) /\ j - 1 + 1 = j
      BY <1>1, <2>2
    <3>2. r[j - 1] = s[j]
      BY <1>2, <3>1
    <3> QED
      BY <1>3, <3>1, <3>2 DEF ToSet
  <2> QED
    BY <1>1, <2>1, <2>2
<1> HIDE DEF f
<1>6. ToSet(r) = {s[j] : j \in DOMAIN s \ {k}}
  <2>1. ASSUME NEW i \in DOMAIN r
        PROVE  \E j \in DOMAIN s \ {k} : r[i] = s[j]
    BY <1>4
  <2> QED
    BY <1>5, <2>1 DEF ToSet
<1> QED
  BY <1>2, <1>4, <1>6, Zenon

\* The first entries of a list are entries of it.
LEMMA Heading ==
  ASSUME NEW S, NEW s \in Seq(S), NEW r \in Heads(s)
  PROVE  /\ r \in Seq(S)
         /\ DOMAIN r \subseteq DOMAIN s
         /\ \A i \in DOMAIN r : r[i] = s[i]
<1>1. PICK n \in 1..Len(s) : r = SubSeq(s, 1, n)
  BY DEF Heads
<1>2. /\ SubSeq(s, 1, n) \in Seq(S) /\ Len(SubSeq(s, 1, n)) = n
      /\ \A i \in 1..n : SubSeq(s, 1, n)[i] = s[i]
  BY SMT
<1> QED
  BY <1>1, <1>2

\* An added host tunnel keeps the secrets apart if its own is new, and an
\* added entry the places if its place is free.
LEMMA AddingKeepsApart ==
  ASSUME NEW S, NEW s \in Seq(S), NEW e \in S, NEW r, r = Inserted(s, e)
  PROVE  /\ OwnSecrets(s) /\ (\A i \in DOMAIN s : s[i].secret # e.secret) => OwnSecrets(r)
         /\ OwnPlaces(s) /\ ~Taken(e.place, s) => OwnPlaces(r)
<1>0. PICK k \in DOMAIN r : \E f \in [DOMAIN r \ {k} -> DOMAIN s] :
         /\ r[k] = e
         /\ \A i \in DOMAIN r \ {k} : r[i] = s[f[i]]
         /\ \A i, j \in DOMAIN r \ {k} : f[i] = f[j] => i = j
  <2>1. WithOneMore(r, s, e)
    BY Adding
  <2> QED
    BY <2>1, Zenon DEF WithOneMore
<1>1. PICK f \in [DOMAIN r \ {k} -> DOMAIN s] :
         /\ r[k] = e
         /\ \A i \in DOMAIN r \ {k} : r[i] = s[f[i]]
         /\ \A i, j \in DOMAIN r \ {k} : f[i] = f[j] => i = j
  BY <1>0
<1>2. ASSUME OwnSecrets(s), \A i \in DOMAIN s : s[i].secret # e.secret
      PROVE  OwnSecrets(r)
  BY <1>1, <1>2 DEF OwnSecrets
<1>3. ASSUME OwnPlaces(s), ~Taken(e.place, s)
      PROVE  OwnPlaces(r)
  <2>1. \A i \in DOMAIN s : s[i].place # e.place
    BY <1>3 DEF Taken, ToSet
  <2> QED
    BY <1>1, <1>3, <2>1 DEF OwnPlaces
<1> QED
  BY <1>2, <1>3

\* Taking an entry out keeps secrets and places apart.
LEMMA RemovingKeepsApart ==
  ASSUME NEW S, NEW s \in Seq(S), NEW k \in DOMAIN s, NEW r, r = RemoveAt(s, k)
  PROVE  /\ OwnSecrets(s) => OwnSecrets(r)
         /\ OwnPlaces(s) => OwnPlaces(r)
<1>1. PICK f \in [DOMAIN r -> DOMAIN s] :
         /\ \A i \in DOMAIN r : r[i] = s[f[i]]
         /\ \A i, j \in DOMAIN r : f[i] = f[j] => i = j
  BY Removing
<1> QED
  BY <1>1 DEF OwnSecrets, OwnPlaces

\* The beginning of a list keeps them apart too.
LEMMA HeadingKeepsApart ==
  ASSUME NEW S, NEW s \in Seq(S), NEW r \in Heads(s)
  PROVE  /\ OwnSecrets(s) => OwnSecrets(r)
         /\ OwnPlaces(s) => OwnPlaces(r)
BY Heading DEF OwnSecrets, OwnPlaces

-----------------------------------------------------------------------------
(* The steps of a call of lantun, sorted by what they write.               *)

\* The four changes of a copy, by the commands that edit.
AddsHost(p) ==
  \E e \in HostEntry :
    /\ e.secret = p /\ ~Taken(e.place, mem[p].host)
    /\ Save(p, [mem[p] EXCEPT !.host = Inserted(mem[p].host, e)])

AddsClient(p) ==
  \E e \in ClientEntry :
    /\ ~Taken(e.place, mem[p].client)
    /\ Save(p, [mem[p] EXCEPT !.client = Inserted(mem[p].client, e)])

DropsHost(p) ==
  \E k \in DOMAIN mem[p].host :
    Save(p, [mem[p] EXCEPT !.host = RemoveAt(mem[p].host, k)])

DropsClient(p) ==
  \E k \in DOMAIN mem[p].client :
    /\ \A e \in ToSet(mem[p].host) : e.name # mem[p].client[k].name
    /\ Save(p, [mem[p] EXCEPT !.client = RemoveAt(mem[p].client, k)])

Edits(p) ==
  /\ at[p] = "loaded" /\ cmd[p].do \in Editing
  /\ AddsHost(p) \/ AddsClient(p) \/ DropsHost(p) \/ DropsClient(p)

\* lantun without a command makes its tunnels.
Opens(p) == CreateState(p) /\ ~Unusable(mem[p]) /\ at' = [at EXCEPT ![p] = "run"]

\* A process that does not write ends.
Leaves(p) ==
  /\ at[p] \in {"load", "loaded", "run"}
  /\ \E how \in Over : Return(p, how)

\* A tunnel of a running process gets on, or ends.
Moves(p) ==
  /\ at[p] = "run"
  /\ \E e \in DOMAIN tun[p], how \in {"started", "listening", "ended"} : Becomes(p, e, how)

\* An editing command changes its copy in one of the four ways, or ends.
LEMMA EditingSteps ==
  ASSUME TypeOK, Called, NEW p \in Process,
         CreateHostTunnel(p) \/ AddClientTunnel(p) \/ RemoveTunnel(p)
  PROVE  Edits(p) \/ Leaves(p)
<1>0. /\ at[p] = "loaded" /\ cmd[p] \in Command /\ mem[p] \in Config
      /\ mem[p].host \in Seq(HostEntry) /\ mem[p].client \in Seq(ClientEntry)
  BY DEF TypeOK, Called, Config, Over, CreateHostTunnel, AddClientTunnel, RemoveTunnel
<1>1. CASE CreateHostTunnel(p)
  <2> DEFINE e == [kind |-> "host", name |-> cmd[p].name,
                   place |-> cmd[p].place, secret |-> p]
  <2>1. cmd[p].do = "add-host"
    BY <1>1 DEF CreateHostTunnel
  <2>2. cmd[p] \in [do : {"add-host"}, name : Name, place : Place]
    BY <1>0, <2>1, CommandsAssumption
  <2>3. e \in HostEntry /\ e.secret = p
    BY <2>2 DEF HostEntry
  <2>4. IF Taken(e.place, mem[p].host) THEN Return(p, "done")
        ELSE Save(p, [mem[p] EXCEPT !.host = Inserted(mem[p].host, e)])
    BY <1>1 DEF CreateHostTunnel, NewSecret
  <2> HIDE DEF e
  <2> QED
    BY <1>0, <2>1, <2>3, <2>4 DEF Edits, AddsHost, Leaves, Editing, Over
<1>2. CASE AddClientTunnel(p)
  <2> DEFINE e == [kind |-> "client", name |-> cmd[p].name,
                   place |-> cmd[p].place, secret |-> cmd[p].secret]
  <2>1. cmd[p].do = "add-client"
    BY <1>2 DEF AddClientTunnel
  <2>2. cmd[p] \in [do : {"add-client"}, name : Name, place : Place,
                    secret : Secret \cup {"nothex"}]
    BY <1>0, <2>1, CommandsAssumption
  <2>3. cmd[p].secret \in Secret => e \in ClientEntry
    BY <2>2 DEF ClientEntry
  <2>4. IF cmd[p].secret \notin Secret THEN Return(p, "failed")
        ELSE IF Taken(e.place, mem[p].client) THEN Return(p, "done")
        ELSE Save(p, [mem[p] EXCEPT !.client = Inserted(mem[p].client, e)])
    BY <1>2 DEF AddClientTunnel
  <2> HIDE DEF e
  <2> QED
    BY <1>0, <2>1, <2>3, <2>4 DEF Edits, AddsClient, Leaves, Editing, Over
<1>3. CASE RemoveTunnel(p)
  <2> DEFINE n == cmd[p].name
             Named(s) == \E e \in ToSet(s) : e.name = n
  <2>1. /\ cmd[p].do = "remove"
        /\ IF Named(mem[p].host)
           THEN Save(p, [mem[p] EXCEPT !.host = Without(mem[p].host, n)])
           ELSE IF Named(mem[p].client)
           THEN Save(p, [mem[p] EXCEPT !.client = Without(mem[p].client, n)])
           ELSE Return(p, "done")
    BY <1>3 DEF RemoveTunnel
  <2>2. CASE Named(mem[p].host)
    <3>1. PICK k \in 1..Len(mem[p].host) : Without(mem[p].host, n) = RemoveAt(mem[p].host, k)
      BY <1>0, <2>2, WhereNamed
    <3>2. k \in DOMAIN mem[p].host
      BY <1>0
    <3> QED
      BY <1>0, <2>1, <2>2, <3>1, <3>2 DEF Edits, DropsHost, Editing
  <2>3. CASE ~Named(mem[p].host) /\ Named(mem[p].client)
    <3>1. PICK k \in 1..Len(mem[p].client) :
            /\ mem[p].client[k].name = n
            /\ Without(mem[p].client, n) = RemoveAt(mem[p].client, k)
      BY <1>0, <2>3, WhereNamed
    <3>2. k \in DOMAIN mem[p].client
      BY <1>0
    <3>3. \A e \in ToSet(mem[p].host) : e.name # mem[p].client[k].name
      BY <2>3, <3>1
    <3> QED
      BY <1>0, <2>1, <2>3, <3>1, <3>2, <3>3 DEF Edits, DropsClient, Editing
  <2>4. CASE ~Named(mem[p].host) /\ ~Named(mem[p].client)
    BY <1>0, <2>1, <2>4 DEF Leaves, Over
  <2> QED
    BY <2>2, <2>3, <2>4
<1> QED
  BY <1>1, <1>2, <1>3

\* Every step is a step of one process, of one of these kinds.
LEMMA Kinds ==
  ASSUME IInv, [Next]_vars
  PROVE  \/ \E p \in Process :
              \/ Call(p) \/ FindsNoFile(p) \/ CreatesFile(p) \/ Loads(p) \/ Leaves(p)
              \/ Written(p) \/ SaveCutOff(p) \/ Edits(p) \/ Opens(p) \/ Moves(p)
         \/ UNCHANGED vars
<1> USE DEF Over
<1>0. TypeOK /\ Called /\ Tunnels
  BY DEF IInv
<1>1. ASSUME NEW p \in Process, LoadFails(p) \/ ListTunnels(p) \/ Interrupted(p)
      PROVE  Leaves(p)
  BY <1>1 DEF LoadFails, ListTunnels, Interrupted, Leaves
<1>2. ASSUME NEW p \in Process, CreateHostTunnel(p) \/ AddClientTunnel(p) \/ RemoveTunnel(p)
      PROVE  Edits(p) \/ Leaves(p)
  BY <1>0, <1>2, EditingSteps
<1>3. ASSUME NEW p \in Process, CreateState(p)
      PROVE  Opens(p) \/ Leaves(p)
  BY <1>3 DEF CreateState, Opens, Leaves
<1>4. ASSUME NEW p \in Process, DOMAIN tun[p] # {}
      PROVE  at[p] = "run"
  BY <1>0, <1>4 DEF Tunnels
<1>5. ASSUME NEW p \in Process, Starts(p)
      PROVE  Moves(p)
  <2>1. PICK e \in Startable(p) : Becomes(p, e, "started")
    BY <1>5 DEF Starts
  <2>2. e \in DOMAIN tun[p]
    BY <2>1 DEF Startable, In
  <2> QED
    BY <1>4, <2>1, <2>2 DEF Moves
<1>6. ASSUME NEW p \in Process, StartFails(p)
      PROVE  Leaves(p)
  <2>1. DOMAIN tun[p] # {}
    BY <1>6 DEF StartFails, Startable, In
  <2> QED
    BY <1>4, <1>6, <2>1 DEF StartFails, Leaves
<1>7. ASSUME NEW p \in Process, JoinFails(p)
      PROVE  Leaves(p)
  BY <1>7 DEF JoinFails, Leaves
<1>8. ASSUME NEW p \in Process, NEW e \in DOMAIN tun[p], Binds(p, e) \/ ListenerEnds(p, e)
      PROVE  Moves(p)
  <2>1. \E how \in {"started", "listening", "ended"} : Becomes(p, e, how)
    BY <1>8 DEF Binds, ListenerEnds
  <2> QED
    BY <1>4, <2>1 DEF Moves
<1> QED
  BY <1>1, <1>2, <1>3, <1>5, <1>6, <1>7, <1>8 DEF Next, Main, Runs

\* The copy an editing command saves is again a configuration, with every
\* secret and every place of its own if it was so before.
LEMMA EditedCopy ==
  ASSUME TypeOK, NEW p \in Process, Edits(p)
  PROVE  \E c \in Config :
           /\ Save(p, c)
           /\ Made(mem[p]) /\ p \notin Drawn =>
                OwnSecrets(c.host) /\ \A i \in DOMAIN c.host : c.host[i].secret \in Drawn \cup {p}
           /\ Placed(mem[p]) => Placed(c)
<1> DEFINE h == mem[p].host
           l == mem[p].client
<1>0. /\ mem[p] \in Config /\ h \in Seq(HostEntry) /\ l \in Seq(ClientEntry)
      /\ mem[p] = [host |-> h, client |-> l]
  BY DEF TypeOK, Config
<1>1. \A g : [mem[p] EXCEPT !.host = g] = [host |-> g, client |-> l]
  BY <1>0
<1>2. \A g : [mem[p] EXCEPT !.client = g] = [host |-> h, client |-> g]
  BY <1>0
<1>3. Made(mem[p]) => OwnSecrets(h) /\ \A i \in DOMAIN h : h[i].secret \in Drawn
  BY DEF Made
<1>4. Placed(mem[p]) => OwnPlaces(h) /\ OwnPlaces(l)
  BY DEF Placed
<1> HIDE DEF h, l
<1>5. CASE AddsHost(p)
  <2>1. PICK e \in HostEntry :
          /\ e.secret = p /\ ~Taken(e.place, h)
          /\ Save(p, [host |-> Inserted(h, e), client |-> l])
    BY <1>1, <1>5 DEF AddsHost, h
  <2> DEFINE r == Inserted(h, e)
             c == [host |-> r, client |-> l]
  <2>2. r \in Seq(HostEntry) /\ ToSet(r) = ToSet(h) \cup {e}
    BY <1>0, Adding
  <2>3. ASSUME Made(mem[p]), p \notin Drawn
        PROVE  OwnSecrets(r) /\ \A i \in DOMAIN r : r[i].secret \in Drawn \cup {p}
    <3>1. \A i \in DOMAIN h : h[i].secret # e.secret
      BY <1>3, <2>1, <2>3
    <3>2. OwnSecrets(r)
      BY <1>0, <1>3, <2>3, <3>1, AddingKeepsApart
    <3>3. ASSUME NEW i \in DOMAIN r
          PROVE  r[i].secret \in Drawn \cup {p}
      <4>1. r[i] \in ToSet(h) \cup {e}
        BY <2>2 DEF ToSet
      <4> HIDE DEF r
      <4> QED
        BY <1>3, <2>1, <2>3, <4>1 DEF ToSet
    <3> QED
      BY <3>2, <3>3
  <2>4. ASSUME Placed(mem[p])
        PROVE  OwnPlaces(r) /\ OwnPlaces(l)
    BY <1>0, <1>4, <2>1, <2>4, AddingKeepsApart
  <2> HIDE DEF r
  <2>5. c \in Config /\ c.host = r /\ c.client = l
    BY <1>0, <2>2 DEF Config
  <2>6. Save(p, c)
    BY <2>1 DEF r
  <2> HIDE DEF c
  <2> QED
    BY <2>3, <2>4, <2>5, <2>6 DEF Placed
<1>6. CASE AddsClient(p)
  <2>1. PICK e \in ClientEntry :
          /\ ~Taken(e.place, l)
          /\ Save(p, [host |-> h, client |-> Inserted(l, e)])
    BY <1>2, <1>6 DEF AddsClient, l
  <2> DEFINE r == Inserted(l, e)
             c == [host |-> h, client |-> r]
  <2>2. r \in Seq(ClientEntry)
    BY <1>0, Adding
  <2>4. ASSUME Placed(mem[p])
        PROVE  OwnPlaces(h) /\ OwnPlaces(r)
    BY <1>0, <1>4, <2>1, <2>4, AddingKeepsApart
  <2> HIDE DEF r
  <2>5. c \in Config /\ c.host = h /\ c.client = r
    BY <1>0, <2>2 DEF Config
  <2>6. Save(p, c)
    BY <2>1 DEF r
  <2> HIDE DEF c
  <2> QED
    BY <1>3, <2>4, <2>5, <2>6 DEF Placed
<1>7. CASE DropsHost(p)
  <2>1. PICK k \in DOMAIN h : Save(p, [host |-> RemoveAt(h, k), client |-> l])
    BY <1>1, <1>7 DEF DropsHost, h
  <2> DEFINE r == RemoveAt(h, k)
             c == [host |-> r, client |-> l]
  <2>2. r \in Seq(HostEntry) /\ ToSet(r) = {h[j] : j \in DOMAIN h \ {k}}
    BY <1>0, Removing
  <2>3. ASSUME Made(mem[p])
        PROVE  OwnSecrets(r) /\ \A i \in DOMAIN r : r[i].secret \in Drawn
    <3>1. OwnSecrets(r)
      BY <1>0, <1>3, <2>3, RemovingKeepsApart
    <3>2. ASSUME NEW i \in DOMAIN r
          PROVE  r[i].secret \in Drawn
      <4>1. r[i] \in {h[j] : j \in DOMAIN h \ {k}}
        BY <2>2 DEF ToSet
      <4> HIDE DEF r
      <4> QED
        BY <1>3, <2>3, <4>1
    <3> QED
      BY <3>1, <3>2
  <2>4. ASSUME Placed(mem[p])
        PROVE  OwnPlaces(r) /\ OwnPlaces(l)
    BY <1>0, <1>4, <2>4, RemovingKeepsApart
  <2> HIDE DEF r
  <2>5. c \in Config /\ c.host = r /\ c.client = l
    BY <1>0, <2>2 DEF Config
  <2>6. Save(p, c)
    BY <2>1 DEF r
  <2> HIDE DEF c
  <2> QED
    BY <2>3, <2>4, <2>5, <2>6 DEF Placed
<1>8. CASE DropsClient(p)
  <2>1. PICK k \in DOMAIN l : Save(p, [host |-> h, client |-> RemoveAt(l, k)])
    BY <1>2, <1>8 DEF DropsClient, l
  <2> DEFINE r == RemoveAt(l, k)
             c == [host |-> h, client |-> r]
  <2>2. r \in Seq(ClientEntry)
    BY <1>0, Removing
  <2>4. ASSUME Placed(mem[p])
        PROVE  OwnPlaces(h) /\ OwnPlaces(r)
    BY <1>0, <1>4, <2>4, RemovingKeepsApart
  <2> HIDE DEF r
  <2>5. c \in Config /\ c.host = h /\ c.client = r
    BY <1>0, <2>2 DEF Config
  <2>6. Save(p, c)
    BY <2>1 DEF r
  <2> HIDE DEF c
  <2> QED
    BY <1>3, <2>4, <2>5, <2>6 DEF Placed
<1> QED
  BY <1>5, <1>6, <1>7, <1>8 DEF Edits

\* A text parses or it does not, and a file that is there is not empty.
LEMMA Texts ==
  /\ Blank \notin Config \cup Garbled /\ NoFile \notin Config \cup Garbled
  /\ NoFile # Blank /\ Config \cap Garbled = {}
<1>1. \A f \in Config : DOMAIN f = {"host", "client"}
  BY DEF Config
<1>2. \A f \in Garbled : DOMAIN f = {"broken"}
  BY DEF Garbled
<1>3. {"host", "client"} # {"broken"}
  OBVIOUS
<1> QED
  BY <1>1, <1>2, <1>3, CommandsAssumption

\* No tunnels, and the empty configuration, are what their names say.
LEMMA Empty ==
  /\ Default \in Config /\ Made(Default) /\ Placed(Default)
  /\ DOMAIN NoTunnels = {}
BY DEF Default, Config, Made, Placed, OwnSecrets, OwnPlaces, NoTunnels

\* A text of which the first entries were written is one of a configuration.
LEMMA BegunOf ==
  ASSUME NEW c \in Config
  PROVE  Begun(c) \subseteq Config
<1>1. /\ c = [host |-> c.host, client |-> c.client]
      /\ c.host \in Seq(HostEntry) /\ c.client \in Seq(ClientEntry)
  BY DEF Config
<1>2. ASSUME NEW S, NEW s \in Seq(S) PROVE Prefixes(s) \subseteq Seq(S)
  BY DEF Prefixes
<1>3. \A s : [c EXCEPT !.client = s] = [host |-> c.host, client |-> s]
  BY <1>1
<1>4. \A s \in Prefixes(c.client) : [c EXCEPT !.client = s] \in Config
  BY <1>1, <1>2, <1>3 DEF Config
<1>5. \A s \in Prefixes(c.host) : [host |-> s, client |-> <<>>] \in Config
  BY <1>1, <1>2 DEF Config
<1> QED
  BY <1>4, <1>5 DEF Begun

\* A text written over another's is a list of entries again, or none that
\* parses.
LEMMA MixturesOf ==
  ASSUME NEW c \in Config
  PROVE  Mixtures(c) \subseteq Config \cup Garbled
<1> DEFINE old == Entries(file)
           Tails == IF Within(old.host, c.host) /\ Within(old.client, c.client) THEN {Default}
                    ELSE [host : Suffixes(old.host), client : Suffixes(old.client)]
           Joined(e) == [host |-> c.host \o e.host, client |-> c.client \o e.client]
<1>1. old \in Config
  <2>1. file \in Garbled => file.broken \in Config
    BY DEF Garbled
  <2> QED
    BY <2>1, Empty DEF Entries
<1> HIDE DEF old
<1>2. ASSUME NEW S, NEW s \in Seq(S) PROVE Suffixes(s) \subseteq Seq(S)
  <2>1. ASSUME NEW n \in 1..Len(s) PROVE SubSeq(s, n, Len(s)) \in Seq(S)
    BY SMT
  <2>2. <<>> \in Seq(S)
    OBVIOUS
  <2> QED
    BY <2>1, <2>2 DEF Suffixes
<1>3. old.host \in Seq(HostEntry) /\ old.client \in Seq(ClientEntry)
  BY <1>1 DEF Config
<1>4. Suffixes(old.host) \subseteq Seq(HostEntry) /\ Suffixes(old.client) \subseteq Seq(ClientEntry)
  BY <1>2, <1>3
<1>5. Tails \subseteq Config
  BY <1>4, Empty DEF Config
<1> HIDE DEF Tails
<1>6. ASSUME NEW e \in Tails PROVE Joined(e) \in Config
  <2>1. /\ e.host \in Seq(HostEntry) /\ e.client \in Seq(ClientEntry)
        /\ c.host \in Seq(HostEntry) /\ c.client \in Seq(ClientEntry)
    BY <1>5 DEF Config
  <2>2. c.host \o e.host \in Seq(HostEntry) /\ c.client \o e.client \in Seq(ClientEntry)
    BY <2>1
  <2> QED
    BY <2>2 DEF Config
<1> HIDE DEF Joined
<1>7. Mixtures(c) = {Joined(e) : e \in Tails} \cup {[broken |-> Joined(e)] : e \in Tails}
  BY DEF Mixtures, Tails, Joined, old
<1> QED
  BY <1>6, <1>7 DEF Garbled

\* What a save leaves is a text, and of a file that was truncated the
\* configuration itself.
LEMMA FillsOf ==
  ASSUME NEW c \in Config
  PROVE  /\ Fills(c) \subseteq Config \cup Garbled
         /\ file = Blank => Fills(c) = {c}
BY MixturesOf DEF Fills

\* What a save that breaks off leaves is the file of before or a text.  Of a
\* file that was truncated it is one that does not parse, or a configuration
\* with fewer entries.
LEMMA PartsOf ==
  ASSUME NEW c \in Config, NEW d \in Parts(c), d # file
  PROVE  /\ d \in Config \cup Garbled
         /\ file = Blank /\ d \in Config => (Made(c) => Made(d)) /\ (Placed(c) => Placed(d))
<1> DEFINE h == c.host
           l == c.client
<1>0. c = [host |-> h, client |-> l] /\ h \in Seq(HostEntry) /\ l \in Seq(ClientEntry)
  BY DEF Config
<1>1. ASSUME NEW s \in Heads(l), d = [c EXCEPT !.client = s]
      PROVE  d \in Config /\ (Made(c) => Made(d)) /\ (Placed(c) => Placed(d))
  <2>1. d = [host |-> h, client |-> s] /\ s \in Seq(ClientEntry)
    BY <1>0, <1>1, Heading
  <2>2. OwnPlaces(l) => OwnPlaces(s)
    BY <1>0, HeadingKeepsApart
  <2> HIDE DEF h, l
  <2>3. d.host = h /\ d.client = s /\ d \in Config
    BY <1>0, <2>1 DEF Config
  <2> QED
    BY <2>2, <2>3 DEF Made, Placed, h, l
<1>2. ASSUME NEW s \in Heads(h), d = [c EXCEPT !.host = s]
      PROVE  d \in Config /\ (Made(c) => Made(d)) /\ (Placed(c) => Placed(d))
  <2>1. d = [host |-> s, client |-> l] /\ s \in Seq(HostEntry)
        /\ DOMAIN s \subseteq DOMAIN h /\ \A i \in DOMAIN s : s[i] = h[i]
    BY <1>0, <1>2, Heading
  <2>2. (OwnPlaces(h) => OwnPlaces(s)) /\ (OwnSecrets(h) => OwnSecrets(s))
    BY <1>0, HeadingKeepsApart
  <2> HIDE DEF h, l
  <2>3. d.host = s /\ d.client = l /\ d \in Config
    BY <1>0, <2>1 DEF Config
  <2> QED
    BY <2>1, <2>2, <2>3 DEF Made, Placed, h, l
<1>3. ASSUME file = Blank
      PROVE  d \in CutOff(c) \/ \E b \in Begun(c) : d = [broken |-> b]
  BY <1>3 DEF Parts
<1>4. ASSUME d \in CutOff(c)
      PROVE  d \in Config /\ (Made(c) => Made(d)) /\ (Placed(c) => Placed(d))
  BY <1>1, <1>2, <1>4 DEF CutOff
<1>5. ASSUME NEW b \in Begun(c), d = [broken |-> b]
      PROVE  d \in Garbled
  BY <1>5, BegunOf DEF Garbled
<1>6. ASSUME file # Blank
      PROVE  d \in Config \cup Garbled
  <2>1. PICK b \in Begun(c) : d \in Mixtures(b)
    BY <1>6 DEF Parts
  <2> QED
    BY <2>1, BegunOf, MixturesOf
<1> QED
  BY <1>3, <1>4, <1>5, <1>6, Texts

-----------------------------------------------------------------------------
(* Types, and what ends with a process.                                    *)

\* The tunnels lantun makes of a configuration are entries of it.
LEMMA OpenedTunnels ==
  ASSUME TypeOK, NEW p \in Process, Opens(p)
  PROVE  /\ tun' = [tun EXCEPT ![p] =
                      [e \in HostTunnels(mem[p]) \cup ToSet(mem[p].client) |-> "created"]]
         /\ HostTunnels(mem[p]) \cup ToSet(mem[p].client) \subseteq Entry
         /\ at[p] = "loaded" /\ at' = [at EXCEPT ![p] = "run"]
         /\ UNCHANGED <<file, cmd, mem, calm, torn>>
<1>0. /\ mem[p] \in Config /\ mem[p].host \in Seq(HostEntry)
      /\ mem[p].client \in Seq(ClientEntry)
  BY DEF TypeOK, Config
<1>1. HostTunnels(mem[p]) \cup ToSet(mem[p].client) \subseteq Entry
  BY <1>0 DEF HostTunnels, ToSet, Entry
<1>2. /\ at[p] = "loaded" /\ at' = [at EXCEPT ![p] = "run"]
      /\ ~Unusable(mem[p])
  BY DEF Opens, CreateState
<1>3. at'[p] = "run"
  BY <1>2 DEF TypeOK
<1>4. ~Return(p, "done") /\ ~Return(p, "failed")
  BY <1>3 DEF Return, Ends, TypeOK
<1>5. /\ tun' = [tun EXCEPT ![p] =
                   [e \in HostTunnels(mem[p]) \cup ToSet(mem[p].client) |-> "created"]]
      /\ UNCHANGED <<file, cmd, mem, calm, torn>>
  BY <1>4, Zenon DEF Opens, CreateState
<1> QED
  BY <1>1, <1>2, <1>5

\* Every variable keeps its type: the steps write configurations and known
\* places of main, and file is one of the texts.
LEMMA TypeStep ==
  ASSUME IInv, [Next]_vars
  PROVE  TypeOK'
<1> USE DEF Over
<1>0. TypeOK /\ Called /\ Tunnels /\ Default \in Config /\ DOMAIN NoTunnels = {}
  BY Empty DEF IInv
<1> DEFINE Stages == Over \cup {"uncalled", "load", "create", "fill", "loaded", "save", "run"}
           Ways == {"created", "started", "listening", "ended"}
           OnDisk == Config \cup Garbled \cup {NoFile, Blank}
           Tuns == \A q \in Process : /\ DOMAIN tun'[q] \subseteq Entry
                                      /\ \A e \in DOMAIN tun'[q] : tun'[q][e] \in Ways
<1>1. /\ file \in OnDisk /\ cmd \in [Process -> Command \cup {None}] /\ at \in [Process -> Stages]
      /\ mem \in [Process -> Config] /\ calm \in BOOLEAN /\ torn \in BOOLEAN
      /\ UNCHANGED tun => Tuns
  BY <1>0 DEF TypeOK
<1>2. ASSUME file' \in OnDisk, cmd' \in [Process -> Command \cup {None}], at' \in [Process -> Stages],
             mem' \in [Process -> Config], calm' \in BOOLEAN, torn' \in BOOLEAN, Tuns
      PROVE  TypeOK'
  BY <1>2, Zenon DEF TypeOK
<1>3. DOMAIN tun = Process
  BY <1>0 DEF Tunnels
<1>4. ASSUME NEW p \in Process, NEW how \in Over, Ends(p, how)
      PROVE  /\ cmd' \in [Process -> Command \cup {None}] /\ at' \in [Process -> Stages]
             /\ mem' \in [Process -> Config] /\ Tuns
  <2>1. cmd' = [cmd EXCEPT ![p] = None] /\ at' = [at EXCEPT ![p] = how]
        /\ mem' = [mem EXCEPT ![p] = Default] /\ tun' = [tun EXCEPT ![p] = NoTunnels]
    BY <1>4 DEF Ends
  <2>2. \A q \in Process : tun'[q] = IF q = p THEN NoTunnels ELSE tun[q]
    BY <1>3, <2>1
  <2>3. Tuns
    BY <1>0, <2>2 DEF TypeOK
  <2> QED
    BY <1>0, <1>1, <2>1, <2>3
<1> HIDE DEF Tuns
<1>5. ASSUME NEW p \in Process,
             Call(p) \/ FindsNoFile(p) \/ CreatesFile(p) \/ Loads(p)
      PROVE  TypeOK'
  BY <1>0, <1>1, <1>2, <1>5 DEF Call, FindsNoFile, CreatesFile, Loads
<1>6. ASSUME NEW p \in Process, Leaves(p)
      PROVE  TypeOK'
  BY <1>1, <1>2, <1>4, <1>6 DEF Leaves, Return
<1>7. ASSUME NEW p \in Process, Written(p)
      PROVE  TypeOK'
  <2>1. file' \in OnDisk /\ UNCHANGED <<calm, torn>>
    BY <1>1, <1>7, FillsOf DEF Written
  <2>2. CASE at[p] = "fill"
    BY <1>1, <1>2, <1>7, <2>1, <2>2 DEF Written
  <2>3. CASE at[p] # "fill"
    BY <1>1, <1>2, <1>4, <1>7, <2>1, <2>3 DEF Written
  <2> QED
    BY <2>2, <2>3
<1>8. ASSUME NEW p \in Process, SaveCutOff(p)
      PROVE  TypeOK'
  <2>1. file' \in Parts(mem[p]) /\ mem[p] \in Config
    BY <1>1, <1>8 DEF SaveCutOff
  <2>2. file' \in OnDisk
    <3>1. CASE file' = file
      BY <1>1, <3>1
    <3>2. CASE file' # file
      BY <2>1, <3>2, PartsOf
    <3> QED
      BY <3>1, <3>2
  <2> QED
    BY <1>1, <1>2, <1>4, <1>8, <2>2 DEF SaveCutOff
<1>9. ASSUME NEW p \in Process, Edits(p)
      PROVE  TypeOK'
  <2>1. PICK c \in Config : Save(p, c)
    BY <1>0, <1>9, EditedCopy
  <2> QED
    BY <1>1, <1>2, <2>1 DEF Save
<1>10. ASSUME NEW p \in Process, Opens(p)
       PROVE  TypeOK'
  <2> DEFINE T == HostTunnels(mem[p]) \cup ToSet(mem[p].client)
  <2>1. /\ tun' = [tun EXCEPT ![p] = [e \in T |-> "created"]]
        /\ T \subseteq Entry /\ at' = [at EXCEPT ![p] = "run"]
        /\ UNCHANGED <<file, cmd, mem, calm, torn>>
    BY <1>0, <1>10, OpenedTunnels
  <2> HIDE DEF T
  <2>2. \A q \in Process : tun'[q] = IF q = p THEN [e \in T |-> "created"] ELSE tun[q]
    BY <1>3, <2>1
  <2>3. Tuns
    BY <1>0, <2>1, <2>2 DEF TypeOK, Tuns
  <2> QED
    BY <1>1, <1>2, <2>1, <2>3
<1>11. ASSUME NEW p \in Process, Moves(p)
       PROVE  TypeOK'
  <2>1. PICK e \in DOMAIN tun[p], how \in {"started", "listening", "ended"} : Becomes(p, e, how)
    BY <1>11 DEF Moves
  <2>2. tun' = [tun EXCEPT ![p][e] = how] /\ UNCHANGED <<file, cmd, at, mem, calm, torn>>
    BY <2>1 DEF Becomes
  <2>3. \A q \in Process : tun'[q] = IF q = p THEN [tun[p] EXCEPT ![e] = how] ELSE tun[q]
    BY <1>3, <2>2
  <2>4. Tuns
    BY <1>0, <2>3 DEF TypeOK, Tuns
  <2> QED
    BY <1>1, <1>2, <2>2, <2>4
<1>12. CASE UNCHANGED vars
  BY <1>1, <1>2, <1>12 DEF vars
<1> QED
  BY <1>5, <1>6, <1>7, <1>8, <1>9, <1>10, <1>11, <1>12, Kinds

\* The way of a process through main.
Onward ==
  {<<"uncalled", "load">>, <<"load", "create">>, <<"create", "fill">>,
   <<"load", "loaded">>, <<"fill", "loaded">>, <<"loaded", "save">>, <<"loaded", "run">>}
    \cup ({"load", "loaded", "run", "fill", "save"} \X Over)

\* Every step moves one process on, or none.
LEMMA Progress ==
  ASSUME IInv, [Next]_vars
  PROVE  \/ UNCHANGED at
         \/ \E p \in Process : \E w :
              at' = [at EXCEPT ![p] = w] /\ <<at[p], w>> \in Onward
<1>0. TypeOK
  BY DEF IInv
<1>1. ASSUME NEW p \in Process, Call(p) \/ FindsNoFile(p) \/ CreatesFile(p) \/ Loads(p)
      PROVE  \E w : at' = [at EXCEPT ![p] = w] /\ <<at[p], w>> \in Onward
  BY <1>1 DEF Call, FindsNoFile, CreatesFile, Loads, Onward
<1>2. ASSUME NEW p \in Process, Leaves(p) \/ Written(p) \/ SaveCutOff(p)
      PROVE  \E w : at' = [at EXCEPT ![p] = w] /\ <<at[p], w>> \in Onward
  BY <1>2 DEF Leaves, Return, Written, SaveCutOff, Ends, Writers, Onward, Over
<1>3. ASSUME NEW p \in Process, Edits(p) \/ Opens(p)
      PROVE  \E w : at' = [at EXCEPT ![p] = w] /\ <<at[p], w>> \in Onward
  <2>1. Edits(p) => at[p] = "loaded" /\ at' = [at EXCEPT ![p] = "save"]
    BY <1>0, EditedCopy DEF Edits, Save
  <2>2. Opens(p) => at[p] = "loaded" /\ at' = [at EXCEPT ![p] = "run"]
    BY DEF Opens, CreateState
  <2> QED
    BY <1>3, <2>1, <2>2 DEF Onward
<1>4. ASSUME NEW p \in Process, Moves(p)
      PROVE  UNCHANGED at
  BY <1>4 DEF Moves, Becomes
<1>5. UNCHANGED vars => UNCHANGED at
  BY DEF vars
<1> QED
  BY <1>1, <1>2, <1>3, <1>4, <1>5, Kinds

\* The secrets drawn stay drawn.
LEMMA DrawnGrows ==
  ASSUME IInv, [Next]_vars
  PROVE  Drawn \subseteq Drawn'
<1>0. TypeOK
  BY DEF IInv
<1>1. ASSUME NEW p \in Process, at[p] \in {"save"} \cup Over
      PROVE  at'[p] \in {"save"} \cup Over
  BY <1>0, <1>1, Progress DEF TypeOK, Over, Onward
<1> QED
  BY <1>1 DEF Drawn

\* A step of one process leaves the place, the command and the copy of the
\* others alone: processes meet only in the file.
LEMMA OthersStay ==
  ASSUME TypeOK, NEW p \in Process, NEW q \in Process, q # p,
         \/ Call(p) \/ FindsNoFile(p) \/ CreatesFile(p) \/ Loads(p) \/ Leaves(p)
         \/ Written(p) \/ SaveCutOff(p) \/ Edits(p) \/ Opens(p) \/ Moves(p)
  PROVE  at'[q] = at[q] /\ cmd'[q] = cmd[q] /\ mem'[q] = mem[q]
<1> USE DEF TypeOK
<1>1. CASE Call(p) \/ FindsNoFile(p) \/ CreatesFile(p) \/ Loads(p)
  BY <1>1 DEF Call, FindsNoFile, CreatesFile, Loads
<1>2. ASSUME NEW how, Ends(p, how)
      PROVE  at'[q] = at[q] /\ cmd'[q] = cmd[q] /\ mem'[q] = mem[q]
  BY <1>2 DEF Ends
<1>3. CASE Leaves(p) \/ Written(p) \/ SaveCutOff(p)
  <2>1. \/ \E how : Ends(p, how)
        \/ at' = [at EXCEPT ![p] = "loaded"] /\ UNCHANGED <<cmd, mem>>
    BY <1>3 DEF Leaves, Return, Written, SaveCutOff
  <2> QED
    BY <1>2, <2>1
<1>4. CASE Edits(p)
  BY <1>4, EditedCopy DEF Save
<1>5. CASE Opens(p)
  BY <1>5, OpenedTunnels
<1>6. CASE Moves(p)
  BY <1>6 DEF Moves, Becomes
<1> QED
  BY <1>1, <1>3, <1>4, <1>5, <1>6

\* What a process does with its command.
LEMMA CalledStep ==
  ASSUME IInv, [Next]_vars
  PROVE  Called'
<1>0. TypeOK /\ Called
  BY DEF IInv
<1> SUFFICES ASSUME NEW q \in Process, at'[q] \notin {"uncalled"} \cup Over
             PROVE  cmd'[q] \in Command
  BY DEF Called
<1>1. ASSUME NEW p \in Process,
             \/ Call(p) \/ FindsNoFile(p) \/ CreatesFile(p) \/ Loads(p) \/ Leaves(p)
             \/ Written(p) \/ SaveCutOff(p) \/ Edits(p) \/ Opens(p) \/ Moves(p)
      PROVE  cmd'[q] \in Command
  <2>1. CASE q # p
    BY <1>0, <1>1, <2>1, OthersStay DEF Called
  <2>2. CASE q = p /\ at[p] \in {"uncalled"} \cup Over
    <3>1. Call(p)
      <4>1. ~Edits(p) /\ ~Opens(p) /\ ~Moves(p) /\ ~Leaves(p)
        BY <2>2 DEF Edits, Opens, CreateState, Moves, Leaves, Over
      <4>2. ~FindsNoFile(p) /\ ~CreatesFile(p) /\ ~Loads(p)
        BY <2>2 DEF FindsNoFile, CreatesFile, Loads, Over
      <4>3. ~Written(p) /\ ~SaveCutOff(p)
        BY <2>2 DEF Written, SaveCutOff, Writers, Over
      <4> QED
        BY <1>1, <4>1, <4>2, <4>3
    <3> QED
      BY <1>0, <2>2, <3>1 DEF Call, TypeOK
  <2>3. CASE q = p /\ at[p] \notin {"uncalled"} \cup Over
    <3>0. cmd[p] \in Command
      BY <1>0, <2>3 DEF Called
    <3>1. ~Call(p)
      BY <2>3 DEF Call
    <3>2. ASSUME NEW how \in Over PROVE ~Ends(p, how)
      BY <1>0, <2>3, <3>2 DEF Ends, TypeOK
    <3>3. ~Leaves(p) /\ ~SaveCutOff(p)
      BY <3>2 DEF Leaves, Return, SaveCutOff, Over
    <3>4. Written(p) => UNCHANGED cmd
      BY <3>2 DEF Written, Over
    <3>5. FindsNoFile(p) \/ CreatesFile(p) \/ Loads(p) \/ Moves(p) => UNCHANGED cmd
      BY DEF FindsNoFile, CreatesFile, Loads, Moves, Becomes
    <3>6. Edits(p) \/ Opens(p) => UNCHANGED cmd
      BY <1>0, EditedCopy, OpenedTunnels DEF Save
    <3> QED
      BY <1>1, <2>3, <3>0, <3>1, <3>3, <3>4, <3>5, <3>6
  <2> QED
    BY <2>1, <2>2, <2>3
<1>2. CASE UNCHANGED vars
  BY <1>0, <1>2 DEF vars, Called
<1> QED
  BY <1>1, <1>2, Kinds

-----------------------------------------------------------------------------
(* Who writes.                                                             *)

\* Two processes that wrote at one time did.
LEMMA TornStays ==
  ASSUME IInv, [Next]_vars, ~torn'
  PROVE  /\ ~torn
         /\ \A p \in Process : CreatesFile(p) \/ Edits(p) => Writers = {}
<1>0. TypeOK
  BY DEF IInv
<1>1. ASSUME NEW p \in Process, CreatesFile(p) \/ Edits(p)
      PROVE  ~torn /\ Writers = {}
  <2>1. torn' = (torn \/ Writers # {})
    BY <1>0, <1>1, EditedCopy DEF CreatesFile, Save
  <2> QED
    BY <2>1, Zenon
<1>2. ASSUME NEW p \in Process, \/ Call(p) \/ FindsNoFile(p) \/ Loads(p) \/ Leaves(p)
                                \/ Written(p) \/ SaveCutOff(p) \/ Opens(p) \/ Moves(p)
      PROVE  ~torn
  <2>1. Opens(p) => UNCHANGED torn
    BY <1>0, OpenedTunnels
  <2>2. UNCHANGED torn
    BY <1>2, <2>1 DEF Call, FindsNoFile, Loads, Leaves, Return, Written,
       SaveCutOff, Moves, Becomes
  <2> QED
    BY <2>2
<1>3. UNCHANGED vars => ~torn
  BY DEF vars
<1> QED
  BY <1>1, <1>2, <1>3, Kinds

\* Who truncates the file while nobody writes is alone with it until it has
\* written.
LEMMA OneWriterStep ==
  ASSUME IInv, [Next]_vars
  PROVE  OneWriter'
<1> DEFINE W2 == {q \in Process : at'[q] \in {"fill", "save"}}
<1>1. SUFFICES ASSUME ~torn'
               PROVE  (\A q, r \in W2 : q = r) /\ (W2 # {} => file' = Blank)
  BY DEF OneWriter, Writers
<1>2. /\ TypeOK /\ \A q, r \in Writers : q = r
      /\ Writers # {} => file = Blank
      /\ \A p \in Process : CreatesFile(p) \/ Edits(p) => Writers = {}
  BY <1>1, TornStays DEF IInv, OneWriter
<1>3. ASSUME NEW p \in Process,
             \/ Call(p) \/ FindsNoFile(p) \/ CreatesFile(p) \/ Loads(p) \/ Leaves(p)
             \/ Written(p) \/ SaveCutOff(p) \/ Edits(p) \/ Opens(p) \/ Moves(p)
      PROVE  \A q \in Process \ {p} : q \in W2 <=> q \in Writers
  BY <1>2, <1>3, OthersStay DEF Writers
<1>4. ASSUME NEW p \in Process, CreatesFile(p) \/ Edits(p)
      PROVE  W2 \subseteq {p} /\ file' = Blank
  <2>1. file' = Blank
    BY <1>2, <1>4, EditedCopy DEF CreatesFile, Save
  <2> QED
    BY <1>2, <1>3, <1>4, <2>1
<1>5. ASSUME NEW p \in Process, Written(p) \/ SaveCutOff(p)
      PROVE  W2 = {}
  <2>1. p \in Writers /\ \A q \in Writers : q = p
    BY <1>2, <1>5 DEF Written, SaveCutOff
  <2>2. p \notin W2
    BY <1>2, <1>5 DEF Written, SaveCutOff, Ends, TypeOK
  <2> QED
    BY <1>3, <1>5, <2>1, <2>2
<1>6. ASSUME NEW p \in Process, \/ Call(p) \/ FindsNoFile(p) \/ Loads(p) \/ Leaves(p)
                                \/ Opens(p) \/ Moves(p)
      PROVE  W2 \subseteq Writers /\ UNCHANGED file
  <2>1. CASE Call(p) \/ FindsNoFile(p) \/ Loads(p)
    <3>1. UNCHANGED file /\ p \notin W2
      BY <1>2, <2>1 DEF Call, FindsNoFile, Loads, TypeOK
    <3> QED
      BY <1>3, <1>6, <3>1
  <2>2. CASE Leaves(p)
    <3>1. PICK how \in Over : at' = [at EXCEPT ![p] = how] /\ UNCHANGED file
      BY <2>2 DEF Leaves, Return, Ends
    <3>2. p \notin W2
      BY <1>2, <3>1 DEF TypeOK, Over
    <3> QED
      BY <1>3, <1>6, <3>1, <3>2
  <2>3. CASE Opens(p)
    <3>1. at' = [at EXCEPT ![p] = "run"] /\ UNCHANGED file
      BY <1>2, <2>3, OpenedTunnels
    <3>2. p \notin W2
      BY <1>2, <3>1 DEF TypeOK
    <3> QED
      BY <1>3, <1>6, <3>1, <3>2
  <2>4. CASE Moves(p)
    BY <2>4 DEF Moves, Becomes, Writers
  <2> QED
    BY <1>6, <2>1, <2>2, <2>3, <2>4
<1>7. UNCHANGED vars => W2 = Writers /\ UNCHANGED file
  BY DEF vars, Writers
<1> HIDE DEF W2
<1> QED
  BY <1>2, <1>4, <1>5, <1>6, <1>7, Kinds

-----------------------------------------------------------------------------
(* The secrets.                                                            *)

\* While one process writes at a time no step repeats a secret: a copy comes
\* from the file, and what is added to it has the secret its process has just
\* drawn.
LEMMA EachMadeStep ==
  ASSUME IInv, [Next]_vars
  PROVE  EachMade'
<1> DEFINE Good(d) == OwnSecrets(d.host) /\ \A i \in DOMAIN d.host : d.host[i].secret \in Drawn'
<1> SUFFICES ASSUME ~torn'
             PROVE  /\ file' \in Config => Good(file')
                    /\ \A q \in Process : Good(mem'[q])
  BY DEF EachMade, Made
<1>0. /\ TypeOK /\ ~torn /\ EachMade /\ Drawn \subseteq Drawn'
      /\ Writers # {} => file = Blank
      /\ Blank \notin Config
  BY DrawnGrows, TornStays, Texts DEF IInv, OneWriter
<1>1. \A d : Made(d) => Good(d)
  BY <1>0 DEF Made
<1>2. Good(Default) /\ (file \in Config => Good(file)) /\ \A q \in Process : Good(mem[q])
  BY <1>0, <1>1, Empty DEF EachMade
<1> HIDE DEF Good
<1>3. ASSUME NEW p \in Process, NEW m, mem' = [mem EXCEPT ![p] = m], Good(m)
      PROVE  \A q \in Process : Good(mem'[q])
  BY <1>0, <1>2, <1>3 DEF TypeOK
<1>4. ASSUME NEW p \in Process, Call(p) \/ FindsNoFile(p) \/ Opens(p) \/ Moves(p)
      PROVE  UNCHANGED <<file, mem>>
  BY <1>0, <1>4, OpenedTunnels DEF Call, FindsNoFile, Moves, Becomes
<1>5. ASSUME NEW p \in Process, CreatesFile(p)
      PROVE  file' \notin Config /\ \A q \in Process : Good(mem'[q])
  BY <1>0, <1>2, <1>3, <1>5 DEF CreatesFile
<1>6. ASSUME NEW p \in Process, Loads(p)
      PROVE  UNCHANGED file /\ \A q \in Process : Good(mem'[q])
  <2>1. file \in Config
    BY <1>6 DEF Loads
  <2> QED
    BY <1>2, <1>3, <1>6, <2>1 DEF Loads
<1>7. ASSUME NEW p \in Process, Leaves(p)
      PROVE  UNCHANGED file /\ \A q \in Process : Good(mem'[q])
  BY <1>2, <1>3, <1>7 DEF Leaves, Return, Ends
<1>8. ASSUME NEW p \in Process, Written(p)
      PROVE  (file' \in Config => Good(file')) /\ \A q \in Process : Good(mem'[q])
  <2>0. mem[p] \in Config /\ p \in Writers
    BY <1>0, <1>8 DEF Written, TypeOK
  <2>1. file' = mem[p]
    BY <1>0, <1>8, <2>0, FillsOf DEF Written
  <2>2. UNCHANGED mem \/ mem' = [mem EXCEPT ![p] = Default]
    BY <1>8 DEF Written, Ends
  <2> QED
    BY <1>0, <1>2, <1>3, <2>1, <2>2
<1>9. ASSUME NEW p \in Process, SaveCutOff(p)
      PROVE  (file' \in Config => Good(file')) /\ \A q \in Process : Good(mem'[q])
  <2>1. /\ file' \in Parts(mem[p]) /\ mem[p] \in Config /\ Made(mem[p])
        /\ file = Blank
    BY <1>0, <1>9 DEF SaveCutOff, TypeOK, EachMade
  <2>2. file' \in Config => Good(file')
    BY <1>0, <1>1, <1>2, <2>1, PartsOf
  <2> QED
    BY <1>2, <1>3, <1>9, <2>2 DEF SaveCutOff, Ends
<1>10. ASSUME NEW p \in Process, Edits(p)
       PROVE  file' \notin Config /\ \A q \in Process : Good(mem'[q])
  <2>1. p \notin Drawn /\ Made(mem[p])
    BY <1>0, <1>10, CommandsAssumption DEF Edits, Drawn, Over, EachMade
  <2>2. PICK c \in Config :
          /\ Save(p, c)
          /\ OwnSecrets(c.host)
          /\ \A i \in DOMAIN c.host : c.host[i].secret \in Drawn \cup {p}
    BY <1>0, <1>10, <2>1, EditedCopy
  <2>3. p \in Drawn'
    BY <1>0, <2>2 DEF Save, Drawn, TypeOK
  <2>4. Good(c)
    BY <1>0, <2>2, <2>3 DEF Good
  <2> QED
    BY <1>0, <1>3, <2>2, <2>4 DEF Save
<1>11. UNCHANGED vars => UNCHANGED <<file, mem>>
  BY DEF vars
<1> QED
  BY <1>2, <1>4, <1>5, <1>6, <1>7, <1>8, <1>9, <1>10, <1>11, Kinds

\* While one process writes at a time no step gives one place to two entries
\* of a list.
LEMMA EachPlacedStep ==
  ASSUME IInv, EachPlaced, [Next]_vars
  PROVE  EachPlaced'
<1> SUFFICES ASSUME ~torn'
             PROVE  /\ file' \in Config => Placed(file')
                    /\ \A q \in Process : Placed(mem'[q])
  BY DEF EachPlaced, Placed
<1>0. /\ TypeOK /\ ~torn /\ EachPlaced
      /\ Writers # {} => file = Blank
      /\ Blank \notin Config
  BY TornStays, Texts DEF IInv, OneWriter
<1>2. Placed(Default) /\ (file \in Config => Placed(file)) /\ \A q \in Process : Placed(mem[q])
  BY <1>0, Empty DEF EachPlaced
<1>3. ASSUME NEW p \in Process, NEW m, mem' = [mem EXCEPT ![p] = m], Placed(m)
      PROVE  \A q \in Process : Placed(mem'[q])
  BY <1>0, <1>2, <1>3 DEF TypeOK
<1>4. ASSUME NEW p \in Process, Call(p) \/ FindsNoFile(p) \/ Opens(p) \/ Moves(p)
      PROVE  UNCHANGED <<file, mem>>
  BY <1>0, <1>4, OpenedTunnels DEF Call, FindsNoFile, Moves, Becomes
<1>5. ASSUME NEW p \in Process, CreatesFile(p)
      PROVE  file' \notin Config /\ \A q \in Process : Placed(mem'[q])
  BY <1>0, <1>2, <1>3, <1>5 DEF CreatesFile
<1>6. ASSUME NEW p \in Process, Loads(p)
      PROVE  UNCHANGED file /\ \A q \in Process : Placed(mem'[q])
  <2>1. file \in Config
    BY <1>6 DEF Loads
  <2> QED
    BY <1>2, <1>3, <1>6, <2>1 DEF Loads
<1>7. ASSUME NEW p \in Process, Leaves(p)
      PROVE  UNCHANGED file /\ \A q \in Process : Placed(mem'[q])
  BY <1>2, <1>3, <1>7 DEF Leaves, Return, Ends
<1>8. ASSUME NEW p \in Process, Written(p)
      PROVE  (file' \in Config => Placed(file')) /\ \A q \in Process : Placed(mem'[q])
  <2>0. mem[p] \in Config /\ p \in Writers
    BY <1>0, <1>8 DEF Written, TypeOK
  <2>1. file' = mem[p]
    BY <1>0, <1>8, <2>0, FillsOf DEF Written
  <2>2. UNCHANGED mem \/ mem' = [mem EXCEPT ![p] = Default]
    BY <1>8 DEF Written, Ends
  <2> QED
    BY <1>0, <1>2, <1>3, <2>1, <2>2
<1>9. ASSUME NEW p \in Process, SaveCutOff(p)
      PROVE  (file' \in Config => Placed(file')) /\ \A q \in Process : Placed(mem'[q])
  <2>1. /\ file' \in Parts(mem[p]) /\ mem[p] \in Config /\ file = Blank
    BY <1>0, <1>9 DEF SaveCutOff, TypeOK
  <2>2. file' \in Config => Placed(file')
    BY <1>0, <1>2, <2>1, PartsOf
  <2> QED
    BY <1>2, <1>3, <1>9, <2>2 DEF SaveCutOff, Ends
<1>10. ASSUME NEW p \in Process, Edits(p)
       PROVE  file' \notin Config /\ \A q \in Process : Placed(mem'[q])
  <2>1. PICK c \in Config : Save(p, c) /\ Placed(c)
    BY <1>0, <1>2, <1>10, EditedCopy
  <2> QED
    BY <1>0, <1>3, <2>1 DEF Save
<1>11. UNCHANGED vars => UNCHANGED <<file, mem>>
  BY DEF vars
<1> QED
  BY <1>2, <1>4, <1>5, <1>6, <1>7, <1>8, <1>9, <1>10, <1>11, Kinds

-----------------------------------------------------------------------------
(* The tunnels.                                                            *)

\* lantun goes on to run only with a configuration it can use, and has then
\* a tunnel for every entry that is not replaced (create_state).
LEMMA TunnelsStep ==
  ASSUME IInv, [Next]_vars
  PROVE  Tunnels'
<1> DEFINE Whose(q) ==
             /\ tun'[q] = [e \in DOMAIN tun'[q] |-> tun'[q][e]]
             /\ at'[q] # "run" => DOMAIN tun'[q] = {}
             /\ at'[q] = "run" =>
                  /\ ~Unusable(mem'[q])
                  /\ DOMAIN tun'[q] = HostTunnels(mem'[q]) \cup ToSet(mem'[q].client)
<1>0. TypeOK /\ Tunnels
  BY DEF IInv
<1>1. /\ DOMAIN tun = Process /\ tun = [q \in Process |-> tun[q]]
      /\ \A q \in Process : tun[q] = [e \in DOMAIN tun[q] |-> tun[q][e]]
  BY <1>0 DEF Tunnels
<1>2. ASSUME DOMAIN tun' = Process, tun' = [q \in Process |-> tun'[q]],
             \A q \in Process : Whose(q)
      PROVE  Tunnels'
  <2>1. tun' = [q \in Process |-> [e \in DOMAIN tun'[q] |-> tun'[q][e]]]
    BY <1>2
  <2> QED
    BY <1>2, <2>1 DEF Tunnels, Unusable, HostTunnels
<1>3. ASSUME NEW q \in Process, tun'[q] = tun[q], at'[q] = at[q], mem'[q] = mem[q]
      PROVE  Whose(q)
  <2>1. /\ at[q] # "run" => DOMAIN tun[q] = {}
        /\ at[q] = "run" =>
             /\ ~Unusable(mem[q])
             /\ DOMAIN tun[q] = HostTunnels(mem[q]) \cup ToSet(mem[q].client)
    BY <1>0 DEF Tunnels
  <2> QED
    BY <1>1, <1>3, <2>1 DEF Unusable, HostTunnels
<1>4. ASSUME NEW p \in Process, NEW F, tun' = [tun EXCEPT ![p] = F]
      PROVE  /\ DOMAIN tun' = Process /\ tun' = [q \in Process |-> tun'[q]]
             /\ tun'[p] = F /\ \A q \in Process : q # p => tun'[q] = tun[q]
  BY <1>1, <1>4
<1> HIDE DEF Whose
<1>5. ASSUME NEW p \in Process,
             \/ Call(p) \/ FindsNoFile(p) \/ CreatesFile(p) \/ Loads(p) \/ Leaves(p)
             \/ Written(p) \/ SaveCutOff(p) \/ Edits(p) \/ Opens(p) \/ Moves(p),
             NEW F, tun' = [tun EXCEPT ![p] = F], Whose(p)
      PROVE  Tunnels'
  <2>1. ASSUME NEW q \in Process, q # p PROVE Whose(q)
    BY <1>0, <1>3, <1>4, <1>5, <2>1, OthersStay
  <2> QED
    BY <1>2, <1>4, <1>5, <2>1
<1>6. ASSUME NEW p \in Process, NEW how \in Over, Ends(p, how)
      PROVE  tun' = [tun EXCEPT ![p] = NoTunnels] /\ Whose(p)
  <2>1. tun' = [tun EXCEPT ![p] = NoTunnels] /\ at'[p] = how
    BY <1>0, <1>6 DEF Ends, TypeOK
  <2>2. tun'[p] = NoTunnels /\ at'[p] # "run"
    BY <1>4, <2>1 DEF Over
  <2> QED
    BY <2>1, <2>2, Empty DEF Whose, NoTunnels
<1>7. ASSUME NEW p \in Process, UNCHANGED tun, at[p] # "run", at'[p] # "run"
      PROVE  tun' = [tun EXCEPT ![p] = tun[p]] /\ Whose(p)
  <2>1. DOMAIN tun[p] = {}
    BY <1>0, <1>7 DEF Tunnels
  <2> QED
    BY <1>1, <1>7, <2>1 DEF Whose
<1>8. ASSUME NEW p \in Process, Call(p) \/ FindsNoFile(p) \/ CreatesFile(p) \/ Loads(p)
      PROVE  Tunnels'
  <2>1. UNCHANGED tun /\ at[p] # "run" /\ at'[p] # "run"
    BY <1>0, <1>8 DEF Call, FindsNoFile, CreatesFile, Loads, TypeOK
  <2> QED
    BY <1>5, <1>7, <1>8, <2>1
<1>9. ASSUME NEW p \in Process, Leaves(p) \/ SaveCutOff(p)
      PROVE  Tunnels'
  BY <1>5, <1>6, <1>9 DEF Leaves, Return, SaveCutOff, Over
<1>10. ASSUME NEW p \in Process, Written(p)
       PROVE  Tunnels'
  <2>1. CASE at[p] = "fill"
    <3>1. UNCHANGED tun /\ at'[p] # "run"
      BY <1>0, <1>10, <2>1 DEF Written, TypeOK
    <3> QED
      BY <1>5, <1>7, <1>10, <2>1, <3>1
  <2>2. CASE at[p] # "fill"
    <3>1. Ends(p, "done")
      BY <1>10, <2>2 DEF Written
    <3> QED
      BY <1>5, <1>6, <1>10, <3>1 DEF Over
  <2> QED
    BY <2>1, <2>2
<1>11. ASSUME NEW p \in Process, Edits(p)
       PROVE  Tunnels'
  <2>1. UNCHANGED tun /\ at[p] # "run" /\ at'[p] # "run"
    BY <1>0, <1>11, EditedCopy DEF Edits, Save, TypeOK
  <2> QED
    BY <1>5, <1>7, <1>11, <2>1
<1>12. ASSUME NEW p \in Process, Opens(p)
       PROVE  Tunnels'
  <2> DEFINE T == HostTunnels(mem[p]) \cup ToSet(mem[p].client)
  <2>1. /\ tun' = [tun EXCEPT ![p] = [e \in T |-> "created"]]
        /\ at' = [at EXCEPT ![p] = "run"] /\ UNCHANGED mem /\ ~Unusable(mem[p])
    BY <1>0, <1>12, OpenedTunnels DEF Opens
  <2>2. tun'[p] = [e \in T |-> "created"]
    BY <1>4, <2>1
  <2>3. DOMAIN tun'[p] = HostTunnels(mem'[p]) \cup ToSet(mem'[p].client)
    BY <2>1, <2>2 DEF HostTunnels
  <2>4. ~Unusable(mem'[p])
    BY <2>1 DEF Unusable
  <2>5. at'[p] = "run"
    BY <1>0, <2>1 DEF TypeOK
  <2> HIDE DEF T
  <2>6. Whose(p)
    BY <2>2, <2>3, <2>4, <2>5 DEF Whose
  <2> QED
    BY <1>5, <1>12, <2>1, <2>6
<1>13. ASSUME NEW p \in Process, Moves(p)
       PROVE  Tunnels'
  <2>1. PICK e \in DOMAIN tun[p], how \in {"started", "listening", "ended"} : Becomes(p, e, how)
    BY <1>13 DEF Moves
  <2> DEFINE F == [tun[p] EXCEPT ![e] = how]
  <2>2. tun' = [tun EXCEPT ![p] = F] /\ UNCHANGED <<at, mem>> /\ at[p] = "run"
    BY <1>13, <2>1 DEF Becomes, Moves
  <2>3. DOMAIN F = DOMAIN tun[p] /\ F = [d \in DOMAIN F |-> F[d]]
    BY <1>1
  <2> HIDE DEF F
  <2>4. tun'[p] = F
    BY <1>4, <2>2
  <2>5. ~Unusable(mem[p]) /\ DOMAIN tun[p] = HostTunnels(mem[p]) \cup ToSet(mem[p].client)
    BY <1>0, <2>2 DEF Tunnels
  <2>6. at'[p] = "run" /\ mem'[p] = mem[p]
    BY <2>2
  <2>7. ~Unusable(mem'[p]) /\ HostTunnels(mem'[p]) = HostTunnels(mem[p])
    BY <2>5, <2>6, Zenon
  <2>8. Whose(p)
    BY <2>3, <2>4, <2>5, <2>6, <2>7, Zenon DEF Whose
  <2> QED
    BY <1>5, <1>13, <2>2, <2>8
<1>14. CASE UNCHANGED vars
  BY <1>1, <1>2, <1>3, <1>14 DEF vars
<1> QED
  BY <1>8, <1>9, <1>10, <1>11, <1>12, <1>13, <1>14, Kinds

-----------------------------------------------------------------------------
(* Calm commands.                                                          *)

\* Once the commands were not calm they never are again.
LEMMA CalmEnds ==
  ASSUME IInv, [Next]_vars, calm'
  PROVE  calm
<1>0. TypeOK
  BY DEF IInv
<1>1. ASSUME NEW p \in Process, Call(p) \/ FindsNoFile(p) \/ CreatesFile(p) \/ Loads(p)
                                 \/ Leaves(p) \/ Written(p) \/ SaveCutOff(p) \/ Moves(p)
      PROVE  calm
  BY <1>1 DEF Call, FindsNoFile, CreatesFile, Loads, Leaves, Return, Written,
     SaveCutOff, Moves, Becomes
<1>2. ASSUME NEW p \in Process, Edits(p) \/ Opens(p)
      PROVE  calm
  BY <1>0, <1>2, EditedCopy, OpenedTunnels DEF Save
<1>3. UNCHANGED vars => calm
  BY DEF vars
<1> QED
  BY <1>1, <1>2, <1>3, Kinds

\* Calm commands do not write at one time.
LEMMA ApartStep ==
  ASSUME IInv, [Next]_vars, calm'
  PROVE  ~torn'
<1>0. /\ TypeOK /\ calm /\ ~torn
      /\ \A p, q \in Editors : p = q
      /\ Writers \subseteq Editors
  BY CalmEnds DEF IInv, Alone, Apart, Editors
<1>1. ASSUME NEW p \in Process, CreatesFile(p) \/ Edits(p)
      PROVE  ~torn'
  <2>1. p \in Editors /\ p \notin Writers
    BY <1>1 DEF CreatesFile, Edits, Editors, Writers
  <2>2. Writers = {}
    BY <1>0, <2>1
  <2>3. torn' = (torn \/ Writers # {})
    BY <1>0, <1>1, EditedCopy DEF CreatesFile, Save
  <2> QED
    BY <1>0, <2>2, <2>3, Zenon
<1>2. ASSUME NEW p \in Process, \/ Call(p) \/ FindsNoFile(p) \/ Loads(p) \/ Leaves(p)
                                \/ Written(p) \/ SaveCutOff(p) \/ Opens(p) \/ Moves(p)
      PROVE  UNCHANGED torn
  <2>1. Opens(p) => UNCHANGED torn
    BY <1>0, OpenedTunnels
  <2> QED
    BY <1>2, <2>1 DEF Call, FindsNoFile, Loads, Leaves, Return, Written,
       SaveCutOff, Moves, Becomes
<1>3. UNCHANGED vars => UNCHANGED torn
  BY DEF vars
<1> QED
  BY <1>0, <1>1, <1>2, <1>3, Kinds

\* Calm commands: how each kind of step changes who edits, who writes and
\* what the file holds.
LEMMA CalmStep ==
  ASSUME IInv, [Next]_vars, calm'
  PROVE  Alone' /\ Whole' /\ Current'
<1> USE DEF Editors, Writers
<1> DEFINE Sure(q) == /\ at'[q] = "create" => file' = NoFile
                      /\ at'[q] = "fill" => mem'[q] = Default
                      /\ at'[q] = "loaded" /\ cmd'[q].do \in Editing => mem'[q] = file'
           W2 == {q \in Process : at'[q] \in {"fill", "save"}}
           E2 == {q \in Process : \/ at'[q] \in {"fill", "save", "create"}
                                  \/ at'[q] = "loaded" /\ cmd'[q].do \in Editing}
<1>0. /\ TypeOK /\ calm
      /\ \A p, q \in Editors : p = q
      /\ file \notin Garbled /\ (file = Blank <=> Writers # {})
      /\ Writers \subseteq Editors
      /\ Blank \notin Config \cup Garbled /\ NoFile \notin Config \cup Garbled
      /\ NoFile # Blank /\ Config \cap Garbled = {}
  BY CalmEnds, Texts DEF IInv, Alone, Whole
<1>1. \A q \in Process :
        /\ at[q] = "create" => file = NoFile
        /\ at[q] = "fill" => mem[q] = Default
        /\ at[q] = "loaded" /\ cmd[q].do \in Editing => mem[q] = file
  BY <1>0 DEF IInv, Current
<1>2. SUFFICES /\ \A q, r \in E2 : q = r
               /\ file' \notin Garbled /\ (file' = Blank <=> W2 # {})
               /\ \A q \in Process : Sure(q)
  <2>1. Writers' = W2 /\ Editors' = E2
    OBVIOUS
  <2> HIDE DEF W2, E2, Editors, Writers
  <2> QED
    BY <1>2, <2>1 DEF Alone, Whole, Current
<1>3. ASSUME NEW p \in Process,
             \/ Call(p) \/ FindsNoFile(p) \/ CreatesFile(p) \/ Loads(p) \/ Leaves(p)
             \/ Written(p) \/ SaveCutOff(p) \/ Edits(p) \/ Opens(p) \/ Moves(p)
      PROVE  \A q \in Process \ {p} :
               /\ at'[q] = at[q] /\ cmd'[q] = cmd[q] /\ mem'[q] = mem[q]
               /\ q \in E2 <=> q \in Editors
               /\ q \in W2 <=> q \in Writers
  BY <1>0, <1>3, OthersStay
<1>4. ASSUME NEW p \in Process, Call(p) \/ Opens(p) \/ Leaves(p)
      PROVE  /\ \A q, r \in E2 : q = r
             /\ file' \notin Garbled /\ (file' = Blank <=> W2 # {})
             /\ \A q \in Process : Sure(q)
  <2>1. /\ at'[p] \in {"load", "run"} \cup Over /\ UNCHANGED file
        /\ at[p] \in {"uncalled", "load", "loaded", "run"}
    <3>1. CASE Call(p)
      BY <1>0, <3>1 DEF Call, TypeOK
    <3>2. CASE Opens(p)
      <4>1. at[p] = "loaded" /\ at' = [at EXCEPT ![p] = "run"] /\ UNCHANGED file
        BY <1>0, <3>2, OpenedTunnels
      <4> QED
        BY <1>0, <4>1 DEF TypeOK
    <3>3. CASE Leaves(p)
      <4>1. PICK how \in Over : at' = [at EXCEPT ![p] = how]
        BY <3>3 DEF Leaves, Return, Ends
      <4> QED
        BY <1>0, <3>3, <4>1 DEF Leaves, Return, TypeOK
    <3> QED
      BY <1>4, <3>1, <3>2, <3>3
  <2>2. p \notin E2 /\ p \notin W2 /\ p \notin Writers /\ Sure(p)
    BY <2>1 DEF Over
  <2>3. \A q \in E2 : q \in Editors
    BY <1>3, <1>4, <2>2
  <2>4. W2 = Writers
    BY <1>3, <1>4, <2>2
  <2>5. ASSUME NEW q \in Process PROVE Sure(q)
    BY <1>1, <1>3, <1>4, <2>1, <2>2
  <2> HIDE DEF E2, W2, Sure
  <2> QED
    BY <1>0, <2>1, <2>3, <2>4, <2>5
<1>5. ASSUME (\E p \in Process : Moves(p)) \/ UNCHANGED vars
      PROVE  /\ \A q, r \in E2 : q = r
             /\ file' \notin Garbled /\ (file' = Blank <=> W2 # {})
             /\ \A q \in Process : Sure(q)
  <2>1. UNCHANGED <<file, cmd, at, mem>>
    BY <1>5 DEF Moves, Becomes, vars
  <2>2. E2 = Editors /\ W2 = Writers
    BY <2>1
  <2>3. ASSUME NEW q \in Process PROVE Sure(q)
    BY <1>1, <2>1
  <2> HIDE DEF E2, W2, Sure
  <2> QED
    BY <1>0, <2>1, <2>2, <2>3
<1>6. ASSUME NEW p \in Process, FindsNoFile(p)
      PROVE  /\ \A q, r \in E2 : q = r
             /\ file' \notin Garbled /\ (file' = Blank <=> W2 # {})
             /\ \A q \in Process : Sure(q)
  <2>1. Editors = {} /\ file = NoFile /\ UNCHANGED file /\ at'[p] = "create"
    BY <1>0, <1>6 DEF FindsNoFile, TypeOK
  <2>2. E2 \subseteq {p} /\ W2 = {}
    BY <1>0, <1>3, <1>6, <2>1
  <2>3. ASSUME NEW q \in Process PROVE Sure(q)
    BY <1>3, <1>6, <2>1
  <2> HIDE DEF E2, W2, Sure
  <2> QED
    BY <1>0, <2>1, <2>2, <2>3
<1>7. ASSUME NEW p \in Process, CreatesFile(p) \/ Edits(p)
      PROVE  /\ \A q, r \in E2 : q = r
             /\ file' \notin Garbled /\ (file' = Blank <=> W2 # {})
             /\ \A q \in Process : Sure(q)
  <2>1. p \in Editors
    BY <1>7 DEF CreatesFile, Edits
  <2>2. file' = Blank /\ (\/ at'[p] = "fill" /\ mem'[p] = Default
                         \/ at'[p] = "save")
    BY <1>0, <1>7, EditedCopy DEF CreatesFile, Save, TypeOK
  <2>3. E2 \subseteq {p} /\ W2 # {}
    BY <1>0, <1>3, <1>7, <2>1, <2>2
  <2>4. ASSUME NEW q \in Process PROVE Sure(q)
    BY <1>0, <1>3, <1>7, <2>1, <2>2
  <2> HIDE DEF E2, W2, Sure
  <2> QED
    BY <1>0, <2>2, <2>3, <2>4
<1>8. ASSUME NEW p \in Process, Loads(p)
      PROVE  /\ \A q, r \in E2 : q = r
             /\ file' \notin Garbled /\ (file' = Blank <=> W2 # {})
             /\ \A q \in Process : Sure(q)
  <2>1. /\ file \in Config /\ UNCHANGED <<file, cmd>> /\ at'[p] = "loaded" /\ mem'[p] = file
        /\ cmd[p].do \in Editing => Editors = {}
    BY <1>0, <1>8 DEF Loads, TypeOK
  <2>2. Writers = {} /\ W2 = {}
    BY <1>0, <1>3, <1>8, <2>1
  <2>3. p \in E2 => Editors = {}
    BY <2>1
  <2>4. \A q \in E2 : q = p \/ q \in Editors
    BY <1>3, <1>8
  <2>5. ASSUME NEW q \in Process PROVE Sure(q)
    BY <1>1, <1>3, <1>8, <2>1
  <2> HIDE DEF E2, W2, Sure
  <2> QED
    BY <1>0, <2>1, <2>2, <2>3, <2>4, <2>5
<1>9. ASSUME NEW p \in Process, Written(p)
      PROVE  /\ \A q, r \in E2 : q = r
             /\ file' \notin Garbled /\ (file' = Blank <=> W2 # {})
             /\ \A q \in Process : Sure(q)
  <2>1. p \in Writers /\ p \in Editors /\ mem[p] \in Config
    BY <1>0, <1>9 DEF Written, TypeOK
  <2>2. file' = mem[p]
    BY <1>0, <1>9, <2>1, FillsOf DEF Written
  <2>3. \/ at'[p] = "loaded" /\ UNCHANGED mem
        \/ at'[p] = "done"
    BY <1>0, <1>9 DEF Written, Ends, TypeOK
  <2>4. E2 \subseteq {p} /\ W2 = {}
    BY <1>0, <1>3, <1>9, <2>1, <2>3
  <2>5. ASSUME NEW q \in Process PROVE Sure(q)
    BY <1>0, <1>3, <1>9, <2>1, <2>2, <2>3
  <2> HIDE DEF E2, W2, Sure
  <2> QED
    BY <1>0, <2>1, <2>2, <2>4, <2>5
<1>10. ASSUME NEW p \in Process, SaveCutOff(p)
       PROVE  FALSE
  BY <1>10 DEF SaveCutOff
<1> HIDE DEF E2, W2, Sure
<1> QED
  BY <1>4, <1>5, <1>6, <1>7, <1>8, <1>9, <1>10, Kinds

-----------------------------------------------------------------------------
(* The invariant and what it says.                                         *)

\* What lantun starts from: no call yet, and a file that no two host tunnels
\* share a secret in.
LEMMA IInvInit ==
  ASSUME Init
  PROVE  IInv
<1> USE DEF Init
<1>0. /\ Blank \notin Config \cup Garbled /\ NoFile \notin Config \cup Garbled
      /\ NoFile # Blank /\ Config \cap Garbled = {}
      /\ \A f \in Earlier \cap Config :
           OwnSecrets(f.host) /\ \A e \in ToSet(f.host) : e.secret \in Key
      /\ Default \in Config /\ Made(Default) /\ DOMAIN NoTunnels = {}
  BY CommandsAssumption, Texts, Empty
<1>1. \A p \in Process : /\ at[p] = "uncalled" /\ mem[p] = Default /\ tun[p] = NoTunnels
                         /\ cmd[p] = None
  OBVIOUS
<1>2. TypeOK
  <2>1. file \in Config \cup Garbled \cup {NoFile, Blank}
    BY CommandsAssumption
  <2>3. calm \in BOOLEAN
    BY <2>1
  <2>4. torn \in BOOLEAN
    OBVIOUS
  <2>2. \A p \in Process : DOMAIN tun[p] = {}
    BY <1>0, <1>1
  <2> QED
    BY <1>0, <2>1, <2>2, <2>3, <2>4 DEF TypeOK
<1>3. Called
  BY <1>1 DEF Called
<1>4. EachMade
  <2>1. ASSUME file \in Config
        PROVE  Made(file)
    <3>1. OwnSecrets(file.host) /\ \A e \in ToSet(file.host) : e.secret \in Key
      BY <1>0, <2>1
    <3> QED
      BY <3>1 DEF Made, Drawn, ToSet
  <2> QED
    BY <1>0, <1>1, <2>1 DEF EachMade
<1>5. Tunnels
  <2>1. NoTunnels = [e \in DOMAIN NoTunnels |-> NoTunnels[e]]
    BY DEF NoTunnels
  <2> QED
    BY <1>0, <1>1, <2>1 DEF Tunnels
<1>6. Writers = {} /\ Editors = {}
  BY <1>1 DEF Writers, Editors
<1>7. OneWriter /\ Alone /\ Whole /\ Apart /\ Current
  BY <1>0, <1>1, <1>6 DEF OneWriter, Alone, Whole, Apart, Current
<1> QED
  BY <1>2, <1>3, <1>4, <1>5, <1>7 DEF IInv

\* The invariant holds of every call of lantun at every moment.
THEOREM Invariance == Spec => []IInv
<1>1. Init => IInv
  BY IInvInit
<1>2. ASSUME IInv, [Next]_vars
      PROVE  IInv'
  <2>1. Alone' /\ Whole' /\ Apart' /\ Current'
    <3>1. CASE calm'
      BY <1>2, <3>1, CalmStep, ApartStep DEF Apart
    <3>2. CASE ~calm'
      BY <3>2 DEF Alone, Whole, Apart, Current
    <3> QED
      BY <3>1, <3>2
  <2> QED
    BY <1>2, <2>1, TypeStep, CalledStep, OneWriterStep, EachMadeStep, TunnelsStep DEF IInv
<1> QED
  BY <1>1, <1>2, PTL DEF Spec

\* Every variable keeps its type: what is on disk is no file, a blank one,
\* one that does not parse or a configuration (main.rs:77-240).
THEOREM TypeCorrect == Spec => []TypeOK
<1>1. IInv => TypeOK
  BY DEF IInv
<1> QED
  BY <1>1, Invariance, PTL

\* Between calm commands the file parses: only a process in the middle of
\* save_config leaves it blank, and only an overlap or a broken save garbled
\* (config.rs:74).
THEOREM ReadableFile == Spec => []Readable
<1>1. IInv => Readable
  BY DEF IInv, TypeOK, Whole, Readable
<1> QED
  BY <1>1, Invariance, PTL

\* In a list whose secrets are apart no entry replaces another in the map of
\* host tunnels (HostState, host.rs:57), and one whose places are apart fills
\* the map of client tunnels with an entry each.
LEMMA AllKept ==
  ASSUME NEW c \in Config, OwnSecrets(c.host), ~Unusable(c)
  PROVE  Cardinality(HostTunnels(c) \cup ToSet(c.client)) = Len(c.host) + Len(c.client)
<1> DEFINE h == c.host
           l == c.client
<1>0. h \in Seq(HostEntry) /\ l \in Seq(ClientEntry)
  BY DEF Config
<1>1. HostTunnels(c) = ToSet(h)
  <2>1. ASSUME NEW i \in DOMAIN h
        PROVE  \A j \in DOMAIN h : h[j].secret = h[i].secret => j <= i
    BY <1>0, <2>1 DEF OwnSecrets
  <2> QED
    BY <2>1 DEF HostTunnels, ToSet
<1>2. \A i, j \in DOMAIN h : h[i] = h[j] => i = j
  BY DEF OwnSecrets
<1>3. \A i, j \in DOMAIN l : l[i] = l[j] => i = j
  BY DEF Unusable
<1>4. ToSet(h) \cap ToSet(l) = {}
  <2> HIDE DEF h, l
  <2>1. \A e \in HostEntry : e.kind = "host"
    BY DEF HostEntry
  <2>2. \A e \in ClientEntry : e.kind = "client"
    BY DEF ClientEntry
  <2>3. ToSet(h) \subseteq HostEntry /\ ToSet(l) \subseteq ClientEntry
    BY <1>0 DEF ToSet
  <2> QED
    BY <2>1, <2>2, <2>3
<1> HIDE DEF h, l
<1>5. IsFiniteSet(ToSet(h)) /\ Cardinality(ToSet(h)) = Len(h)
  BY <1>0, <1>2, CountDistinct
<1>6. IsFiniteSet(ToSet(l)) /\ Cardinality(ToSet(l)) = Len(l)
  BY <1>0, <1>3, CountDistinct
<1>7. Cardinality(ToSet(h) \cup ToSet(l)) =
        Cardinality(ToSet(h)) + Cardinality(ToSet(l)) - Cardinality(ToSet(h) \cap ToSet(l))
  BY <1>5, <1>6, FS_Union
<1>8. Cardinality(ToSet(h) \cap ToSet(l)) = 0
  BY <1>4, FS_EmptySet
<1>9. Len(h) \in Nat /\ Len(l) \in Nat
  BY <1>0
<1> QED
  BY <1>1, <1>5, <1>6, <1>7, <1>8, <1>9 DEF h, l

\* Every entry of the configuration that is run has a tunnel of its own,
\* whatever was loaded before another saved and whatever save broke off
\* before, if no two processes were writing the file at one time
\* (host.rs:121).
THEOREM NoneReplaced == Spec => []NoneDropped
<1>1. ASSUME IInv
      PROVE  NoneDropped
  <2>1. ASSUME ~torn, NEW p \in Process, at[p] = "run"
        PROVE  Cardinality(DOMAIN tun[p]) = Len(mem[p].host) + Len(mem[p].client)
    <3>1. mem[p] \in Config /\ OwnSecrets(mem[p].host)
      BY <1>1, <2>1 DEF IInv, TypeOK, EachMade, Made
    <3>2. ~Unusable(mem[p]) /\ DOMAIN tun[p] = HostTunnels(mem[p]) \cup ToSet(mem[p].client)
      BY <1>1, <2>1 DEF IInv, Tunnels
    <3> QED
      BY <3>1, <3>2, AllKept
  <2> QED
    BY <2>1 DEF NoneDropped
<1> QED
  BY <1>1, Invariance, PTL

-----------------------------------------------------------------------------
(* Calm commands keep the book.                                            *)

\* While a save is under way the copy that is being saved is what the file
\* will hold.
LEMMA ContentsSaved ==
  ASSUME IInv, calm, NEW p \in Writers
  PROVE  Contents = mem[p]
<1> DEFINE w == CHOOSE q \in Writers : TRUE
<1>1. w \in Writers
  OBVIOUS
<1>2. Writers \subseteq Editors
  BY DEF Editors
<1>3. w = p
  BY <1>1, <1>2 DEF IInv, Alone
<1> QED
  BY <1>3 DEF Contents

\* The same of the next state.
LEMMA ContentsSavedNext ==
  ASSUME IInv', calm', NEW p \in Writers'
  PROVE  Contents' = mem'[p]
<1> DEFINE w == CHOOSE q \in Writers' : TRUE
<1>1. w \in Writers'
  OBVIOUS
<1>2. Writers' \subseteq Editors'
  BY DEF Editors
<1>3. w = p
  BY <1>1, <1>2 DEF IInv, Alone
<1>4. Contents' = mem'[w]
  BY DEF Contents
<1> QED
  BY <1>3, <1>4

\* A step that leaves the file, its writers and their copies alone changes
\* nothing of the book.
LEMMA ContentsKept ==
  ASSUME UNCHANGED file, Writers' = Writers, \A q \in Writers : mem'[q] = mem[q]
  PROVE  Contents' = Contents
<1> DEFINE w == CHOOSE q \in Writers : TRUE
<1>1. Contents = IF Writers # {} THEN mem[w]
                 ELSE IF file \in Config THEN file ELSE Default
  BY DEF Contents
<1>2. Contents' = IF Writers # {} THEN mem'[w]
                  ELSE IF file \in Config THEN file ELSE Default
  BY DEF Contents
<1>3. Writers # {} => w \in Writers
  OBVIOUS
<1> QED
  BY <1>1, <1>2, <1>3

\* A call that neither edits nor writes leaves the book alone, and so do the
\* two halves of creating the file and the second half of a save.
LEMMA OtherStepsKeepContents ==
  ASSUME IInv, IInv', [Next]_vars, calm', NEW p \in Process,
         \/ Call(p) \/ FindsNoFile(p) \/ CreatesFile(p) \/ Loads(p) \/ Leaves(p)
         \/ Written(p) \/ SaveCutOff(p) \/ Opens(p) \/ Moves(p)
  PROVE  Contents' = Contents
<1>0. /\ TypeOK /\ calm /\ Default \in Config
      /\ \A q, r \in Editors : q = r
      /\ file = Blank <=> Writers # {}
      /\ Writers \subseteq Editors
      /\ at[p] = "create" => file = NoFile
      /\ Blank \notin Config /\ NoFile \notin Config
  BY CalmEnds, Empty, Texts DEF IInv, Alone, Whole, Current, Editors
<1>1. ASSUME UNCHANGED file, p \notin Writers, at'[p] \notin {"fill", "save"},
             \/ Call(p) \/ FindsNoFile(p) \/ Loads(p) \/ Leaves(p) \/ Opens(p) \/ Moves(p)
      PROVE  Contents' = Contents
  <2>1. \A q \in Process \ {p} : at'[q] = at[q] /\ mem'[q] = mem[q]
    BY <1>0, <1>1, OthersStay
  <2>2. Writers' = Writers /\ \A q \in Writers : mem'[q] = mem[q]
    BY <1>1, <2>1 DEF Writers
  <2> QED
    BY <1>1, <2>2, ContentsKept
<1>2. CASE Call(p) \/ FindsNoFile(p) \/ Loads(p)
  <2>1. UNCHANGED file /\ p \notin Writers /\ at'[p] \notin {"fill", "save"}
    BY <1>0, <1>2 DEF Call, FindsNoFile, Loads, Writers, TypeOK
  <2> QED
    BY <1>1, <1>2, <2>1
<1>3. CASE Leaves(p)
  <2>1. PICK how \in Over : at' = [at EXCEPT ![p] = how] /\ UNCHANGED file
    BY <1>3 DEF Leaves, Return, Ends
  <2>2. p \notin Writers /\ at'[p] \notin {"fill", "save"}
    BY <1>0, <1>3, <2>1 DEF Leaves, Writers, TypeOK, Over
  <2> QED
    BY <1>1, <1>3, <2>1, <2>2
<1>4. CASE Opens(p)
  <2>1. at[p] = "loaded" /\ at' = [at EXCEPT ![p] = "run"] /\ UNCHANGED file
    BY <1>0, <1>4, OpenedTunnels
  <2>2. p \notin Writers /\ at'[p] \notin {"fill", "save"}
    BY <1>0, <2>1 DEF Writers, TypeOK
  <2> QED
    BY <1>1, <1>4, <2>1, <2>2
<1>5. CASE Moves(p)
  <2>1. UNCHANGED <<file, at>> /\ p \notin Writers /\ at'[p] \notin {"fill", "save"}
    BY <1>5 DEF Moves, Becomes, Writers
  <2> QED
    BY <1>1, <1>5, <2>1
<1>6. CASE CreatesFile(p)
  <2>1. p \in Editors /\ p \notin Writers
    BY <1>6 DEF CreatesFile, Editors, Writers
  <2>2. Writers = {} /\ file = NoFile
    BY <1>0, <1>6, <2>1 DEF CreatesFile
  <2>3. Contents = Default
    BY <1>0, <2>2 DEF Contents
  <2>4. p \in Writers' /\ mem'[p] = Default
    BY <1>0, <1>6 DEF CreatesFile, Writers, TypeOK
  <2>5. Contents' = Default
    BY <2>4, ContentsSavedNext
  <2> QED
    BY <2>3, <2>5
<1>7. CASE Written(p)
  <2>1. p \in Writers /\ mem[p] \in Config
    BY <1>0, <1>7 DEF Written, TypeOK
  <2>2. Contents = mem[p]
    BY <1>0, <2>1, ContentsSaved
  <2>3. file' = mem[p]
    BY <1>0, <1>7, <2>1, FillsOf DEF Written
  <2>4. Writers' = {}
    BY <1>0, <2>1, <2>3 DEF IInv, Whole
  <2>5. Contents' = mem[p]
    BY <1>0, <2>1, <2>3, <2>4 DEF Contents
  <2> QED
    BY <2>2, <2>5
<1>8. CASE SaveCutOff(p)
  BY <1>8 DEF SaveCutOff
<1> QED
  BY <1>2, <1>3, <1>4, <1>5, <1>6, <1>7, <1>8

\* What an editing command starts from is the book: no other call edits.
LEMMA EditsTheBook ==
  ASSUME IInv, IInv', [Next]_vars, calm', NEW p \in Process, Edits(p)
  PROVE  /\ Contents = mem[p] /\ p \notin Drawn
         /\ \A c \in Config : Save(p, c) => Contents' = c
<1>0. /\ TypeOK /\ calm
      /\ \A q, r \in Editors : q = r
      /\ Writers \subseteq Editors
      /\ mem[p] = file /\ mem[p] \in Config
  BY CalmEnds DEF IInv, Alone, Current, Editors, Edits, TypeOK
<1>1. p \in Editors /\ p \notin Writers
  BY DEF Edits, Editors, Writers
<1>2. Writers = {}
  BY <1>0, <1>1
<1>3. Contents = mem[p]
  BY <1>0, <1>2 DEF Contents
<1>4. p \notin Drawn
  BY CommandsAssumption DEF Edits, Drawn, Over
<1>5. ASSUME NEW c \in Config, Save(p, c)
      PROVE  Contents' = c
  <2>1. p \in Writers' /\ mem'[p] = c
    BY <1>0, <1>5 DEF Save, Writers, TypeOK
  <2> QED
    BY <2>1, ContentsSavedNext
<1> QED
  BY <1>3, <1>4, <1>5

\* An edit of a calm command adds one tunnel to the book or removes one.
LEMMA EditsAsBook ==
  ASSUME IInv, IInv', EachPlaced, [Next]_vars, calm', NEW p \in Process, Edits(p)
  PROVE  Book!AddHost \/ Book!AddClient \/ Book!RemoveHost \/ Book!RemoveClient
<1> DEFINE h == mem[p].host
           l == mem[p].client
<1>0. /\ mem[p] = [host |-> h, client |-> l]
      /\ h \in Seq(HostEntry) /\ l \in Seq(ClientEntry)
  BY DEF IInv, TypeOK, Config
<1>1. /\ ToSet(Contents.host) = ToSet(h) /\ ToSet(Contents.client) = ToSet(l)
      /\ p \notin Drawn
      /\ \A c \in Config : Save(p, c) => Contents' = c
  BY EditsTheBook
<1>2. OwnPlaces(h) /\ OwnPlaces(l) /\ \A i \in DOMAIN h : h[i].secret \in Drawn
  <2>1. ~torn
    BY CalmEnds DEF IInv, Apart
  <2> QED
    BY <2>1 DEF EachPlaced, Placed, IInv, EachMade, Made
<1>3. \A g : /\ [mem[p] EXCEPT !.host = g] = [host |-> g, client |-> l]
             /\ [mem[p] EXCEPT !.client = g] = [host |-> h, client |-> g]
  BY <1>0
<1> HIDE DEF h, l
<1>4. ASSUME NEW g \in Seq(HostEntry), Save(p, [host |-> g, client |-> l])
      PROVE  /\ ToSet(Contents.host)' = ToSet(g)
             /\ ToSet(Contents.client)' = ToSet(l) /\ calm' = calm
  <2>1. [host |-> g, client |-> l] \in Config
    BY <1>0 DEF Config
  <2>2. Contents' = [host |-> g, client |-> l] /\ calm' = calm
    BY <1>1, <1>4, <2>1 DEF Save
  <2>3. Contents'.host = g /\ Contents'.client = l
    BY <2>2
  <2> QED
    BY <2>2, <2>3 DEF ToSet
<1>5. ASSUME NEW g \in Seq(ClientEntry), Save(p, [host |-> h, client |-> g])
      PROVE  /\ ToSet(Contents.host)' = ToSet(h)
             /\ ToSet(Contents.client)' = ToSet(g) /\ calm' = calm
  <2>1. [host |-> h, client |-> g] \in Config
    BY <1>0 DEF Config
  <2>2. Contents' = [host |-> h, client |-> g] /\ calm' = calm
    BY <1>1, <1>5, <2>1 DEF Save
  <2>3. Contents'.host = h /\ Contents'.client = g
    BY <2>2
  <2> QED
    BY <2>2, <2>3 DEF ToSet
<1>6. CASE AddsHost(p)
  <2>1. PICK e \in HostEntry :
          /\ e.secret = p /\ ~Taken(e.place, h)
          /\ Save(p, [host |-> Inserted(h, e), client |-> l])
    BY <1>3, <1>6 DEF AddsHost, h
  <2>2. Inserted(h, e) \in Seq(HostEntry) /\ ToSet(Inserted(h, e)) = ToSet(h) \cup {e}
    BY <1>0, Adding
  <2>3. /\ ToSet(Contents.host)' = ToSet(h) \cup {e}
        /\ ToSet(Contents.client)' = ToSet(l) /\ calm' = calm
    BY <1>4, <2>1, <2>2
  <2>4. \A u \in ToSet(h) : u.place # e.place /\ u.secret # e.secret
    BY <1>1, <1>2, <2>1 DEF Taken, ToSet
  <2>5. e \in (ToSet(h) \cup {e}) \ ToSet(h)
    BY <2>4
  <2>6. Book!AddHost
    BY <1>1, <2>3, <2>4, <2>5 DEF Book!AddHost, Book!Free
  <2> QED
    BY <2>6
<1>7. CASE AddsClient(p)
  <2>1. PICK e \in ClientEntry :
          /\ ~Taken(e.place, l)
          /\ Save(p, [host |-> h, client |-> Inserted(l, e)])
    BY <1>3, <1>7 DEF AddsClient, l
  <2>2. Inserted(l, e) \in Seq(ClientEntry) /\ ToSet(Inserted(l, e)) = ToSet(l) \cup {e}
    BY <1>0, Adding
  <2>3. /\ ToSet(Contents.client)' = ToSet(l) \cup {e}
        /\ ToSet(Contents.host)' = ToSet(h) /\ calm' = calm
    BY <1>5, <2>1, <2>2
  <2>4. \A u \in ToSet(l) : u.place # e.place
    BY <2>1 DEF Taken
  <2>5. e \in (ToSet(l) \cup {e}) \ ToSet(l)
    BY <2>4
  <2>6. Book!AddClient
    BY <1>1, <2>3, <2>4, <2>5 DEF Book!AddClient, Book!Free
  <2> QED
    BY <2>6
<1>8. CASE DropsHost(p)
  <2>1. PICK k \in DOMAIN h : Save(p, [host |-> RemoveAt(h, k), client |-> l])
    BY <1>3, <1>8 DEF DropsHost, h
  <2>2. /\ RemoveAt(h, k) \in Seq(HostEntry)
        /\ ToSet(RemoveAt(h, k)) = {h[j] : j \in DOMAIN h \ {k}}
    BY <1>0, Removing
  <2>3. {h[j] : j \in DOMAIN h \ {k}} = ToSet(h) \ {h[k]}
    BY <1>2 DEF OwnPlaces, ToSet
  <2>4. /\ ToSet(Contents.host)' = ToSet(h) \ {h[k]}
        /\ ToSet(Contents.client)' = ToSet(l) /\ calm' = calm
    BY <1>4, <2>1, <2>2, <2>3
  <2>5. h[k] \in ToSet(h)
    BY DEF ToSet
  <2>6. Book!RemoveHost
    BY <1>1, <2>4, <2>5 DEF Book!RemoveHost
  <2> QED
    BY <2>6
<1>9. CASE DropsClient(p)
  <2>1. PICK k \in DOMAIN l :
          /\ \A e \in ToSet(h) : e.name # l[k].name
          /\ Save(p, [host |-> h, client |-> RemoveAt(l, k)])
    BY <1>3, <1>9 DEF DropsClient, h, l
  <2>2. /\ RemoveAt(l, k) \in Seq(ClientEntry)
        /\ ToSet(RemoveAt(l, k)) = {l[j] : j \in DOMAIN l \ {k}}
    BY <1>0, Removing
  <2>3. {l[j] : j \in DOMAIN l \ {k}} = ToSet(l) \ {l[k]}
    BY <1>2 DEF OwnPlaces, ToSet
  <2>4. /\ ToSet(Contents.client)' = ToSet(l) \ {l[k]}
        /\ ToSet(Contents.host)' = ToSet(h) /\ calm' = calm
    BY <1>5, <2>1, <2>2, <2>3
  <2>5. l[k] \in ToSet(l)
    BY DEF ToSet
  <2>6. Book!RemoveClient
    BY <1>1, <2>1, <2>4, <2>5 DEF Book!RemoveClient
  <2> QED
    BY <2>6
<1> QED
  BY <1>6, <1>7, <1>8, <1>9 DEF Edits

\* Every step is a step of the book or leaves it alone.
LEMMA BookStep ==
  ASSUME IInv, IInv', EachPlaced, [Next]_vars
  PROVE  [Book!Next]_(Book!vars)
<1>1. CASE ~calm'
  BY <1>1 DEF Book!Next, Book!Spoil
<1>2. ASSUME calm', Contents' = Contents
      PROVE  UNCHANGED Book!vars
  <2>1. calm /\ calm \in BOOLEAN /\ calm' \in BOOLEAN
    BY <1>2, CalmEnds DEF IInv, TypeOK
  <2>2. calm' = calm
    BY <1>2, <2>1, Zenon
  <2> QED
    BY <1>2, <2>2 DEF Book!vars, ToSet
<1>3. CASE calm' /\ UNCHANGED vars
  <2>1. Writers' = Writers
    BY <1>3 DEF vars, Writers
  <2>2. Contents' = Contents
    BY <1>3, <2>1, ContentsKept DEF vars
  <2> QED
    BY <1>2, <1>3, <2>2
<1>4. ASSUME calm', NEW p \in Process, Edits(p)
      PROVE  Book!Next
  BY <1>4, EditsAsBook DEF Book!Next
<1>5. ASSUME calm', NEW p \in Process,
             \/ Call(p) \/ FindsNoFile(p) \/ CreatesFile(p) \/ Loads(p) \/ Leaves(p)
             \/ Written(p) \/ SaveCutOff(p) \/ Opens(p) \/ Moves(p)
      PROVE  UNCHANGED Book!vars
  BY <1>2, <1>5, OtherStepsKeepContents, Zenon
<1> QED
  BY <1>1, <1>3, <1>4, <1>5, Kinds

\* A file that parses, with a place of its own for every entry of a list, or
\* no file, is a book to start from.
LEMMA BookInit ==
  ASSUME Earlier \subseteq {c \in Config : Placed(c)} \cup {NoFile}, Init
  PROVE  Book!Init /\ EachPlaced
<1>1. /\ Placed(Default) /\ Default \in Config
      /\ file \in Config => Placed(file)
      /\ \A p \in Process : mem[p] = Default /\ at[p] = "uncalled"
  BY Empty, CommandsAssumption DEF Init
<1>2. EachPlaced
  BY <1>1 DEF EachPlaced
<1>3. calm = TRUE /\ (file \in Config \/ file = NoFile)
  BY DEF Init
<1>4. Writers = {}
  BY <1>1 DEF Writers
<1>5. Placed(Contents)
  BY <1>1, <1>3, <1>4, CommandsAssumption DEF Contents
<1>6. ASSUME NEW s, OwnPlaces(s)
      PROVE  \A t, u \in ToSet(s) : t.place = u.place => t = u
  BY <1>6 DEF OwnPlaces, ToSet
<1>7. Book!Init
  BY <1>3, <1>5, <1>6 DEF Placed, Book!Init, Book!Lawful
<1> QED
  BY <1>2, <1>7

\* Commands that do not overlap and are not cut off change one tunnel each,
\* or nothing, and never two tunnels of a list come to one place or two host
\* tunnels to one secret (main.rs:131-240), if the file was so at first.
THEOREM KeepsTheBook ==
  ASSUME Earlier \subseteq {c \in Config : Placed(c)} \cup {NoFile}
  PROVE  Spec => ImplementsBook
<1>1. Init => Book!Init /\ EachPlaced
  BY BookInit
<1>2. IInv /\ EachPlaced /\ [Next]_vars => EachPlaced'
  BY EachPlacedStep
<1>3. IInv /\ IInv' /\ EachPlaced /\ [Next]_vars => [Book!Next]_(Book!vars)
  BY BookStep
<1> QED
  BY <1>1, <1>2, <1>3, Invariance, PTL DEF Spec, ImplementsBook, Book!Spec
=============================================================================
