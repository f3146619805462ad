-------------------------- MODULE ActivationProof --------------------------
(***************************************************************************)
(* The properties of the activation flow for any plans, keys and functions *)
(* and wherever calls are interrupted.  The tables keep them because the   *)
(* statements of a call come in an order: the row of a function, the row   *)
(* of a key, their link, the result, the counts.  The first part is about  *)
(* FlattenSeq(), which builds that order, the second about the statements  *)
(* of a call, the third about the steps.                                   *)
(***************************************************************************)
EXTENDS Activation, WellFoundedInduction, SequenceTheorems, TLAPS

-----------------------------------------------------------------------------
(* FlattenSeq(). *)

\* Induction over a set of numbers: a nonempty one has a least element.
LEMMA Least ==
    ASSUME NEW T \in SUBSET Nat, T # {}
    PROVE  \E x \in T : x - 1 \notin T
  <1>1. PICK x \in T : \A y \in T : ~(<<y, x>> \in OpToRel(<, Nat))
    BY WFMin, NatLessThanWellFounded
  <1>2. \A y \in T : ~(y < x)
    BY <1>1 DEF OpToRel
  <1>3. x - 1 < x
    OBVIOUS
  <1> QED
    BY <1>2, <1>3

\* FlattenSeq() is the last of the concatenations it builds, of which each adds a sequence.
LEMMA FlattenUnfolds ==
    ASSUME NEW G, \A s, t \in G : s \o t \in G,
           NEW ss \in Seq(G), ss # <<>>
    PROVE  \E f \in [1..Len(ss) -> G] :
              /\ f[1] = ss[1]
              /\ \A i \in 2..Len(ss) : f[i] = f[i - 1] \o ss[i]
              /\ FlattenSeq(ss) = f[Len(ss)]
  <1> DEFINE n == Len(ss)
             next(f, i) == IF i = 1 THEN ss[i] ELSE f[i - 1] \o ss[i]
             Begun(m) == \E g \in [1..m -> G] : \A i \in 1..m : g[i] = next(g, i)
             T == {m \in 1..n : ~Begun(m)}
             flatten == CHOOSE f : f = [i \in 1..n |-> next(f, i)]
             U == {i \in 1..n : flatten[i] \notin G}
  <1>1. n \in Nat \ {0} /\ \A i \in 1..n : ss[i] \in G
    OBVIOUS
  <1>2. FlattenSeq(ss) = flatten[n]
    BY <1>1 DEF FlattenSeq
  <1>3. T = {}
    <2> SUFFICES ASSUME T # {} PROVE FALSE
      OBVIOUS
    <2>1. PICK x \in T : x - 1 \notin T
      <3>1. T \in SUBSET Nat
        BY <1>1
      <3> HIDE DEF T
      <3> QED
        BY <3>1, Least
    <2>2. x \in 1..n /\ ~Begun(x)
      OBVIOUS
    <2>3. CASE x = 1
      <3> DEFINE g == [i \in 1..1 |-> ss[1]]
      <3>1. g \in [1..1 -> G] /\ \A i \in 1..1 : g[i] = next(g, i)
        BY <1>1
      <3> QED
        BY <2>2, <2>3, <3>1
    <2>4. CASE x # 1
      <3>1. x - 1 \in 1..n /\ x - 1 \in 1..x /\ x \in 1..x /\ x - 1 < x /\ ~(x < x)
        BY <1>1, <2>2, <2>4
      <3>2. PICK g \in [1..(x - 1) -> G] : \A i \in 1..(x - 1) : g[i] = next(g, i)
        BY <2>1, <3>1
      <3> DEFINE h == [i \in 1..x |-> IF i < x THEN g[i] ELSE g[x - 1] \o ss[x]]
      <3>3. g[x - 1] \o ss[x] \in G
        BY <1>1, <2>2, <3>1, <3>2
      <3>4. h \in [1..x -> G]
        BY <2>2, <3>2, <3>3, <1>1
      <3>5. ASSUME NEW i \in 1..x PROVE h[i] = next(h, i)
        <4>1. CASE i = 1
          <5>1. h[1] = g[1] /\ 1 \in 1..(x - 1)
            BY <2>2, <2>4, <1>1
          <5> QED
            BY <3>2, <4>1, <5>1
        <4>2. CASE i # 1 /\ i < x
          <5>1. h[i] = g[i] /\ h[i - 1] = g[i - 1] /\ i \in 1..(x - 1)
            BY <2>2, <2>4, <1>1, <4>2
          <5> QED
            BY <3>2, <4>2, <5>1
        <4>3. CASE i = x
          <5>1. h[x] = g[x - 1] \o ss[x]
            BY <3>1
          <5>2. h[x - 1] = g[x - 1]
            BY <3>1
          <5> QED
            BY <2>4, <4>3, <5>1, <5>2
        <4> QED
          BY <4>1, <4>2, <4>3, <2>2, <1>1
      <3> QED
        BY <2>2, <3>4, <3>5
    <2> QED
      BY <2>3, <2>4
  <1>4. PICK g \in [1..n -> G] : \A i \in 1..n : g[i] = next(g, i)
    BY <1>1, <1>3
  <1>5. g = [i \in 1..n |-> next(g, i)]
    BY <1>4
  <1>6. flatten = [i \in 1..n |-> next(flatten, i)]
    BY <1>5
  <1> HIDE DEF flatten
  <1>7. U = {}
    <2> SUFFICES ASSUME U # {} PROVE FALSE
      OBVIOUS
    <2>1. PICK x \in U : x - 1 \notin U
      <3>1. U \in SUBSET Nat
        <4>1. U \subseteq 1..n
          OBVIOUS
        <4> QED
          BY <1>1, <4>1
      <3> HIDE DEF U
      <3> QED
        BY <3>1, Least
    <2>2. x \in 1..n /\ flatten[x] \notin G /\ flatten[x] = next(flatten, x)
      BY <1>6
    <2>3. CASE x = 1
      BY <1>1, <2>2, <2>3
    <2>4. CASE x # 1
      <3>1. x - 1 \in 1..n
        BY <1>1, <2>2, <2>4
      <3>2. flatten[x - 1] \in G
        BY <2>1, <3>1
      <3>3. flatten[x] = flatten[x - 1] \o ss[x]
        BY <2>2, <2>4
      <3> QED
        BY <1>1, <2>2, <3>2, <3>3
    <2> QED
      BY <2>3, <2>4
  <1>8. flatten \in [1..n -> G]
    BY <1>6, <1>7
  <1>9. flatten[1] = ss[1] /\ \A i \in 2..n : flatten[i] = flatten[i - 1] \o ss[i]
    <2>1. \A i \in 1..n : flatten[i] = next(flatten, i)
      BY <1>6
    <2>2. 1 \in 1..n /\ \A i \in 2..n : i \in 1..n /\ i # 1
      BY <1>1
    <2> QED
      BY <2>1, <2>2
  <1> QED
    BY <1>2, <1>8, <1>9

\* A function on 1..n is a sequence.
LEMMA SequenceOf ==
    ASSUME NEW T, NEW n \in Nat, NEW s \in [1..n -> T]
    PROVE  s \in Seq(T)
  BY SeqDef

\* What concatenation keeps, FlattenSeq() keeps.
LEMMA FlattenIn ==
    ASSUME NEW G, \A s, t \in G : s \o t \in G, <<>> \in G, NEW ss \in Seq(G)
    PROVE  FlattenSeq(ss) \in G
  <1>1. CASE ss = <<>>
    BY <1>1 DEF FlattenSeq
  <1>2. CASE ss # <<>>
    <2>1. PICK f \in [1..Len(ss) -> G] : FlattenSeq(ss) = f[Len(ss)]
      BY <1>2, FlattenUnfolds
    <2>2. Len(ss) \in 1..Len(ss)
      BY <1>2
    <2> QED
      BY <2>1, <2>2
  <1> QED
    BY <1>1, <1>2

\* Flattening sequences over a set gives a sequence over it.
LEMMA FlattenSeqIn ==
    ASSUME NEW T, NEW ss \in Seq(Seq(T))
    PROVE  FlattenSeq(ss) \in Seq(T)
  <1> DEFINE G == Seq(T)
  <1>1. \A s, t \in G : s \o t \in G
    OBVIOUS
  <1>2. <<>> \in G
    OBVIOUS
  <1> HIDE DEF G
  <1>3. \A rr \in Seq(G) : FlattenSeq(rr) \in G
    BY <1>1, <1>2, FlattenIn
  <1> QED
    BY <1>3 DEF G

\* The flattened sequence has the elements of all the sequences.
LEMMA FlattenHas ==
    ASSUME NEW T, NEW ss \in Seq(Seq(T)), NEW m \in DOMAIN ss, NEW k \in DOMAIN ss[m]
    PROVE  \E p \in DOMAIN FlattenSeq(ss) : FlattenSeq(ss)[p] = ss[m][k]
  <1> DEFINE G == Seq(T)
             n == Len(ss)
             Has(s) == \E p \in DOMAIN s : s[p] = ss[m][k]
  <1>1. n \in Nat /\ m \in 1..n /\ \A i \in 1..n : ss[i] \in G
    OBVIOUS
  <1>2. \A s, t \in G : /\ s \o t \in G
                        /\ Has(s) => Has(s \o t)
                        /\ Has(t) => Has(s \o t)
    <2> TAKE s, t \in G
    <2>1. s \o t \in G
      OBVIOUS
    <2>2. /\ DOMAIN s = 1..Len(s) /\ DOMAIN t = 1..Len(t) /\ Len(s) \in Nat /\ Len(t) \in Nat
          /\ DOMAIN (s \o t) = 1..(Len(s) + Len(t))
          /\ \A p \in 1..Len(s) : (s \o t)[p] = s[p]
          /\ \A p \in 1..Len(t) : (s \o t)[Len(s) + p] = t[p]
      OBVIOUS
    <2>3. ASSUME NEW p \in DOMAIN s, s[p] = ss[m][k] PROVE Has(s \o t)
      <3>1. p \in DOMAIN (s \o t) /\ (s \o t)[p] = s[p]
        BY <2>2
      <3> QED
        BY <2>3, <3>1
    <2>4. ASSUME NEW p \in DOMAIN t, t[p] = ss[m][k] PROVE Has(s \o t)
      <3>1. Len(s) + p \in DOMAIN (s \o t) /\ (s \o t)[Len(s) + p] = t[p]
        BY <2>2
      <3> QED
        BY <2>4, <3>1
    <2> QED
      BY <2>1, <2>3, <2>4
  <1>3. Has(ss[m])
    OBVIOUS
  <1>4. \E f \in [1..n -> G] : /\ f[1] = ss[1]
                               /\ \A i \in 2..n : f[i] = f[i - 1] \o ss[i]
                               /\ FlattenSeq(ss) = f[n]
    <2>1. \A s, t \in G : s \o t \in G
      BY <1>2
    <2>2. ss \in Seq(G) /\ ss # <<>>
      BY <1>1
    <2> HIDE DEF G
    <2> QED
      BY <2>1, <2>2, FlattenUnfolds
  <1>5. PICK f \in [1..n -> G] : /\ f[1] = ss[1]
                                 /\ \A i \in 2..n : f[i] = f[i - 1] \o ss[i]
                                 /\ FlattenSeq(ss) = f[n]
    BY <1>4
  <1> DEFINE U == {i \in m..n : ~Has(f[i])}
  <1> HIDE DEF G, Has
  <1>6. U = {}
    <2> SUFFICES ASSUME U # {} PROVE FALSE
      OBVIOUS
    <2>1. PICK x \in U : x - 1 \notin U
      <3>1. U \in SUBSET Nat
        BY <1>1
      <3> HIDE DEF U
      <3> QED
        BY <3>1, Least
    <2>2. x \in m..n /\ x \in 1..n /\ ~Has(f[x])
      BY <1>1
    <2>3. CASE x = m
      <3>1. CASE m = 1
        BY <1>3, <1>5, <2>2, <2>3, <3>1
      <3>2. CASE m # 1
        <4>1. m \in 2..n /\ m - 1 \in 1..n
          BY <1>1, <3>2
        <4>2. f[m] = f[m - 1] \o ss[m] /\ f[m - 1] \in G /\ ss[m] \in G
          BY <1>1, <1>5, <4>1
        <4> QED
          BY <1>2, <1>3, <2>2, <2>3, <4>2
      <3> QED
        BY <3>1, <3>2
    <2>4. CASE x # m
      <3>1. x \in 2..n /\ x - 1 \in m..n /\ x - 1 \in 1..n
        BY <1>1, <2>2, <2>4
      <3>2. Has(f[x - 1])
        BY <2>1, <3>1
      <3>3. f[x] = f[x - 1] \o ss[x] /\ f[x - 1] \in G /\ ss[x] \in G
        BY <1>1, <1>5, <2>2, <3>1
      <3> QED
        BY <1>2, <2>2, <3>2, <3>3
    <2> QED
      BY <2>3, <2>4
  <1>7. n \in m..n
    BY <1>1
  <1>8. Has(FlattenSeq(ss))
    BY <1>5, <1>6, <1>7
  <1> QED
    BY <1>8 DEF Has

-----------------------------------------------------------------------------
(* The statements of a call. *)

\* Some plan gives the function id the key k.
Planned(id, k) ==
    \E a \in Traces : \E i \in DOMAIN Plan[a] : \E j \in DOMAIN Plan[a][i] :
       /\ Plan[a][i][j].funcID = id
       /\ \E m \in DOMAIN Plan[a][i][j].keys : Plan[a][i][j].keys[m] = k

\* What Recorded(a) may consist of.
RecordStatements ==
    [do : {"func", "depends"}, funcID : Funcs]
    \union [do : {"key", "link"}, funcID : Funcs, key : Keys]
    \union [do : {"undefined"}]

\* The functions of a plan, and what is read instead of one.
Entries == {f \in FuncEntries : \A m \in DOMAIN f.keys : Planned(f.funcID, f.keys[m])}

\* What the loops get to see is in the groups, or is not there.
LEMMA VisitedAreThere ==
    ASSUME NEW T, NEW groups \in Seq(Seq(T))
    PROVE  VisitedFuncs(groups) \in Seq(T \union {None})
  <1>1. ASSUME NEW i \in DOMAIN groups PROVE Visited(groups[i], i) \in Seq(T \union {None})
    <2>1. groups[i] \in Seq(T)
      OBVIOUS
    <2>2. Len(groups[i]) \in Nat /\ DOMAIN groups[i] = 1..Len(groups[i])
      BY <2>1
    <2>3. \A j \in DOMAIN groups[i] : groups[i][j] \in T \union {None}
      BY <2>1
    <2>4. \A j \in DOMAIN groups[i] :
             (IF i \in DOMAIN groups[i] THEN groups[i][i] ELSE None) \in T \union {None}
      BY <2>3
    <2>5. Visited(groups[i], i) \in [1..Len(groups[i]) -> T \union {None}]
      BY <2>2, <2>4 DEF Visited
    <2> QED
      BY <2>2, <2>5, SequenceOf
  <1> DEFINE vv == [i \in DOMAIN groups |-> Visited(groups[i], i)]
  <1>2. Len(groups) \in Nat /\ DOMAIN groups = 1..Len(groups)
    OBVIOUS
  <1>3. vv \in [1..Len(groups) -> Seq(T \union {None})]
    BY <1>1, <1>2
  <1>4. vv \in Seq(Seq(T \union {None}))
    BY <1>2, <1>3, SeqDef
  <1> HIDE DEF vv
  <1>5. FlattenSeq(vv) \in Seq(T \union {None})
    BY <1>4, FlattenSeqIn
  <1> QED
    BY <1>5 DEF VisitedFuncs, vv

\* What the loops over a plan get to see is planned, or is not there.
LEMMA VisitedAreEntries ==
    ASSUME NEW a \in Traces
    PROVE  VisitedFuncs(Plan[a]) \in Seq(Entries \union {None})
  <1>1. Plan[a] \in Seq(Seq(FuncEntries))
    BY ActivationAssumption
  <1>2. ASSUME NEW i \in DOMAIN Plan[a] PROVE Plan[a][i] \in Seq(Entries)
    <2>1. Plan[a][i] \in Seq(FuncEntries)
      BY <1>1
    <2>2. \A j \in DOMAIN Plan[a][i] : Plan[a][i][j] \in Entries
      BY <2>1 DEF Entries, Planned
    <2>3. Plan[a][i] \in [1..Len(Plan[a][i]) -> Entries] /\ Len(Plan[a][i]) \in Nat
      BY <2>1, <2>2
    <2> QED
      BY <2>3, SeqDef
  <1>3. Plan[a] \in [1..Len(Plan[a]) -> Seq(Entries)] /\ Len(Plan[a]) \in Nat
    BY <1>1, <1>2
  <1>4. Plan[a] \in Seq(Seq(Entries))
    BY <1>3, SeqDef
  <1> QED
    BY <1>4, VisitedAreThere

\* A link is planned, and comes after its key and, unless that is in F, its function.
Ordered(F, s) ==
    \A i \in DOMAIN s : s[i].do = "link" =>
        /\ Planned(s[i].funcID, s[i].key)
        /\ \E j \in 1..(i - 1) : s[j].do = "key" /\ s[j].key = s[i].key
        /\ \/ s[i].funcID \in F
           \/ \E j \in 1..(i - 1) : s[j].do = "func" /\ s[j].funcID = s[i].funcID

\* What SMT needs to know of a concatenation.
LEMMA Concat ==
    ASSUME NEW T, NEW s \in Seq(T), NEW t \in Seq(T)
    PROVE  /\ s \o t \in Seq(T)
           /\ Len(s) \in Nat /\ Len(t) \in Nat
           /\ DOMAIN s = 1..Len(s) /\ DOMAIN t = 1..Len(t)
           /\ DOMAIN (s \o t) = 1..(Len(s) + Len(t))
           /\ \A p \in 1..Len(s) : (s \o t)[p] = s[p]
           /\ \A p \in 1..Len(t) : (s \o t)[Len(s) + p] = t[p]
           /\ \A q \in 1..(Len(s) + Len(t)) : q \notin 1..Len(s) =>
                 q - Len(s) \in 1..Len(t) /\ (s \o t)[q] = t[q - Len(s)]
  OBVIOUS

\* One ordered sequence after another is ordered.
LEMMA OrderedConcat ==
    ASSUME NEW F, NEW T, NEW s \in Seq(T), NEW t \in Seq(T), Ordered(F, s), Ordered(F, t)
    PROVE  Ordered(F, s \o t)
  <1> DEFINE r == s \o t
             n == Len(s)
  <1>1. /\ n \in Nat /\ Len(t) \in Nat
        /\ DOMAIN s = 1..n /\ DOMAIN t = 1..Len(t) /\ DOMAIN r = 1..(n + Len(t))
        /\ \A p \in 1..n : r[p] = s[p]
        /\ \A p \in 1..Len(t) : r[n + p] = t[p]
        /\ \A q \in 1..(n + Len(t)) : q \notin 1..n => q - n \in 1..Len(t) /\ r[q] = t[q - n]
    BY Concat
  <1> HIDE DEF r, n
  <1> SUFFICES ASSUME NEW i \in 1..(n + Len(t)), r[i].do = "link"
               PROVE  /\ Planned(r[i].funcID, r[i].key)
                      /\ \E j \in 1..(i - 1) : r[j].do = "key" /\ r[j].key = r[i].key
                      /\ \/ r[i].funcID \in F
                         \/ \E j \in 1..(i - 1) : r[j].do = "func" /\ r[j].funcID = r[i].funcID
    BY <1>1 DEF Ordered, r
  <1>2. CASE i \in 1..n
    <2>1. r[i] = s[i] /\ i \in DOMAIN s /\ \A j \in 1..(i - 1) : r[j] = s[j]
      BY <1>1, <1>2
    <2>2. /\ Planned(s[i].funcID, s[i].key)
          /\ \E j \in 1..(i - 1) : s[j].do = "key" /\ s[j].key = s[i].key
          /\ \/ s[i].funcID \in F
             \/ \E j \in 1..(i - 1) : s[j].do = "func" /\ s[j].funcID = s[i].funcID
      BY <2>1 DEF Ordered
    <2> QED
      BY <2>1, <2>2
  <1>3. CASE i \notin 1..n
    <2> DEFINE k == i - n
    <2>1. k \in DOMAIN t /\ r[i] = t[k]
      BY <1>1, <1>3
    <2>2. \A j \in 1..(k - 1) : n + j \in 1..(i - 1) /\ r[n + j] = t[j]
      BY <1>1, <1>3
    <2> HIDE DEF k
    <2>3. /\ Planned(t[k].funcID, t[k].key)
          /\ \E j \in 1..(k - 1) : t[j].do = "key" /\ t[j].key = t[k].key
          /\ \/ t[k].funcID \in F
             \/ \E j \in 1..(k - 1) : t[j].do = "func" /\ t[j].funcID = t[k].funcID
      BY <2>1 DEF Ordered
    <2> QED
      BY <2>1, <2>2, <2>3
  <1> QED
    BY <1>2, <1>3

\* So are any number of them, one after the other.
LEMMA OrderedFlatten ==
    ASSUME NEW F, NEW ss \in Seq({s \in Seq(RecordStatements) : Ordered(F, s)})
    PROVE  FlattenSeq(ss) \in Seq(RecordStatements) /\ Ordered(F, FlattenSeq(ss))
  <1> DEFINE G == {s \in Seq(RecordStatements) : Ordered(F, s)}
  <1>1. \A s, t \in G : s \o t \in G
    BY OrderedConcat, Concat
  <1>2. <<>> \in G
    BY DEF Ordered
  <1>3. FlattenSeq(ss) \in G
    <2> HIDE DEF G
    <2>1. \A rr \in Seq(G) : FlattenSeq(rr) \in G
      BY <1>1, <1>2, FlattenIn
    <2> QED
      BY <2>1 DEF G
  <1> QED
    BY <1>3

\* The statements that record one function.
LEMMA RecordFuncIsOrdered ==
    ASSUME NEW f \in Entries \union {None}
    PROVE  RecordFunc(f) \in Seq(RecordStatements) /\ Ordered({}, RecordFunc(f))
  <1>1. CASE f = None
    <2>1. RecordFunc(f) = << [do |-> "undefined"] >>
      BY <1>1 DEF RecordFunc, Undefined
    <2>2. [do |-> "undefined"] \in RecordStatements
      BY DEF RecordStatements
    <2> QED
      BY <2>1, <2>2 DEF Ordered
  <1>2. CASE f # None
    <2> DEFINE id == f.funcID
               ks == f.keys
               rr == [m \in DOMAIN ks |-> RecordKey(id, ks[m])]
               head == << [do |-> "func", funcID |-> id], [do |-> "depends", funcID |-> id] >>
               G == {s \in Seq(RecordStatements) : Ordered({id}, s)}
    <2>1. id \in Funcs /\ ks \in Seq(Keys) /\ \A m \in DOMAIN ks : Planned(id, ks[m])
      BY <1>2 DEF Entries, FuncEntries
    <2>2. ASSUME NEW m \in DOMAIN ks PROVE RecordKey(id, ks[m]) \in G
      <3> DEFINE k == ks[m]
                 one == [do |-> "key", funcID |-> id, key |-> k]
                 two == [do |-> "link", funcID |-> id, key |-> k]
      <3>1. k \in Keys /\ Planned(id, k)
        BY <2>1
      <3>2. one \in RecordStatements /\ two \in RecordStatements
        BY <2>1, <3>1 DEF RecordStatements
      <3>3. <<one, two>> \in Seq(RecordStatements)
        BY <3>2
      <3>4. Ordered({id}, <<one, two>>)
        <4> SUFFICES ASSUME NEW i \in 1..2, <<one, two>>[i].do = "link"
                     PROVE  /\ Planned(<<one, two>>[i].funcID, <<one, two>>[i].key)
                            /\ \E j \in 1..(i - 1) : /\ <<one, two>>[j].do = "key"
                                                     /\ <<one, two>>[j].key = <<one, two>>[i].key
                            /\ <<one, two>>[i].funcID \in {id}
          BY DEF Ordered
        <4>1. i = 2
          OBVIOUS
        <4>2. <<one, two>>[i] = two /\ <<one, two>>[1] = one /\ 1 \in 1..(i - 1)
          BY <4>1
        <4> QED
          BY <3>1, <4>2
      <3> QED
        BY <3>3, <3>4 DEF RecordKey
    <2>3. rr \in Seq(G)
      <3>1. Len(ks) \in Nat /\ DOMAIN ks = 1..Len(ks)
        BY <2>1
      <3>2. rr \in [1..Len(ks) -> G]
        BY <2>2, <3>1
      <3> HIDE DEF rr, G
      <3> QED
        BY <3>1, <3>2, SequenceOf
    <2>4. FlattenSeq(rr) \in Seq(RecordStatements) /\ Ordered({id}, FlattenSeq(rr))
      <3> HIDE DEF rr
      <3> QED
        BY <2>3, OrderedFlatten
    <2>5. head \in Seq(RecordStatements) /\ Ordered({id}, head)
      <3>1. /\ [do |-> "func", funcID |-> id] \in RecordStatements
            /\ [do |-> "depends", funcID |-> id] \in RecordStatements
        BY <2>1 DEF RecordStatements
      <3> QED
        BY <3>1 DEF Ordered
    <2>6. RecordFunc(f) = head \o FlattenSeq(rr)
      BY <1>2 DEF RecordFunc
    <2> DEFINE r == head \o FlattenSeq(rr)
    <2>7. /\ r \in Seq(RecordStatements) /\ Ordered({id}, r)
          /\ Len(r) \in Nat /\ DOMAIN r = 1..Len(r) /\ Len(r) >= 2
          /\ r[1] = [do |-> "func", funcID |-> id]
          /\ r[2] = [do |-> "depends", funcID |-> id]
      <3> DEFINE t == FlattenSeq(rr)
      <3> HIDE DEF rr, t
      <3>1. head \o t \in Seq(RecordStatements) /\ Ordered({id}, head \o t)
        BY <2>4, <2>5, OrderedConcat, Concat DEF t
      <3>2. t \in Seq(RecordStatements)
        BY <2>4 DEF t
      <3>3. /\ Len(head \o t) \in Nat /\ DOMAIN (head \o t) = 1..Len(head \o t)
            /\ Len(head \o t) >= 2
            /\ (head \o t)[1] = head[1] /\ (head \o t)[2] = head[2]
        BY <2>5, <3>2
      <3> QED
        BY <3>1, <3>3 DEF t
    <2> HIDE DEF r
    <2>8. Ordered({}, r)
      <3> SUFFICES ASSUME NEW i \in DOMAIN r, r[i].do = "link"
                   PROVE  /\ Planned(r[i].funcID, r[i].key)
                          /\ \E j \in 1..(i - 1) : r[j].do = "key" /\ r[j].key = r[i].key
                          /\ \E j \in 1..(i - 1) : r[j].do = "func" /\ r[j].funcID = r[i].funcID
        BY DEF Ordered
      <3>1. /\ Planned(r[i].funcID, r[i].key)
            /\ \E j \in 1..(i - 1) : r[j].do = "key" /\ r[j].key = r[i].key
            /\ r[i].funcID = id \/ \E j \in 1..(i - 1) : r[j].do = "func" /\ r[j].funcID = r[i].funcID
        BY <2>7 DEF Ordered
      <3>2. i # 1
        BY <2>7
      <3>3. 1 \in 1..(i - 1)
        BY <2>7, <3>2
      <3>4. r[1].do = "func" /\ r[1].funcID = id
        BY <2>7
      <3> QED
        BY <3>1, <3>3, <3>4
    <2> QED
      BY <2>6, <2>7, <2>8 DEF r
  <1> QED
    BY <1>1, <1>2

\* Whatever the plan, the statements that record an activation are in order.
LEMMA RecordedIsOrdered ==
    ASSUME NEW a \in Traces
    PROVE  Recorded(a) \in Seq(RecordStatements) /\ Ordered({}, Recorded(a))
  <1> DEFINE vf == VisitedFuncs(Plan[a])
             rr == [n \in DOMAIN vf |-> RecordFunc(vf[n])]
             G == {s \in Seq(RecordStatements) : Ordered({}, s)}
  <1>1. vf \in Seq(Entries \union {None})
    BY VisitedAreEntries
  <1> HIDE DEF vf
  <1>2. /\ Len(vf) \in Nat /\ DOMAIN vf = 1..Len(vf)
        /\ \A n \in DOMAIN vf : vf[n] \in Entries \union {None}
    BY <1>1
  <1>3. rr \in [1..Len(vf) -> G]
    BY <1>2, RecordFuncIsOrdered
  <1>4. rr \in Seq(G)
    BY <1>2, <1>3, SeqDef
  <1> HIDE DEF rr
  <1>5. FlattenSeq(rr) \in Seq(RecordStatements) /\ Ordered({}, FlattenSeq(rr))
    BY <1>4, OrderedFlatten
  <1> QED
    BY <1>5 DEF rr, vf, Recorded

\* The functions and keys that are linked while the activation is recorded.
RecordedPairs(a) ==
    {pair \in Funcs \X Keys : \E func \in RecordedFuncs(a) :
        func.funcID = pair[1] /\ \E m \in DOMAIN func.keys : func.keys[m] = pair[2]}

\* Each of them gets its link.
LEMMA PairsGetALink ==
    ASSUME NEW a \in Traces, NEW pair \in RecordedPairs(a)
    PROVE  \E p \in DOMAIN Recorded(a) : /\ Recorded(a)[p].do = "link"
                                         /\ Recorded(a)[p].funcID = pair[1]
                                         /\ Recorded(a)[p].key = pair[2]
  <1> DEFINE vf == VisitedFuncs(Plan[a])
             rr == [n \in DOMAIN vf |-> RecordFunc(vf[n])]
  <1>1. vf \in Seq(Entries \union {None})
    BY VisitedAreEntries
  <1> DEFINE k == pair[2]
  <1>2. PICK n \in DOMAIN vf : /\ vf[n] # None /\ vf[n].funcID = pair[1]
                               /\ \E m \in DOMAIN vf[n].keys : vf[n].keys[m] = k
    BY DEF RecordedPairs, RecordedFuncs, Range
  <1>3. PICK m \in DOMAIN vf[n].keys : vf[n].keys[m] = k
    BY <1>2
  <1> HIDE DEF vf
  <1> DEFINE f == vf[n]
             id == f.funcID
             ks == f.keys
             qq == [j \in DOMAIN ks |-> RecordKey(id, ks[j])]
             head == << [do |-> "func", funcID |-> id], [do |-> "depends", funcID |-> id] >>
             link == [do |-> "link", funcID |-> id, key |-> k]
  <1>4. f \in Entries \union {None} /\ f # None /\ id \in Funcs /\ ks \in Seq(Keys)
    BY <1>1, <1>2 DEF Entries, FuncEntries
  <1>5. qq \in Seq(Seq(RecordStatements))
    <2>1. Len(ks) \in Nat /\ DOMAIN ks = 1..Len(ks) /\ \A j \in DOMAIN ks : ks[j] \in Keys
      BY <1>4
    <2>2. ASSUME NEW q \in Keys PROVE RecordKey(id, q) \in Seq(RecordStatements)
      <3>1. /\ [do |-> "key", funcID |-> id, key |-> q] \in RecordStatements
            /\ [do |-> "link", funcID |-> id, key |-> q] \in RecordStatements
        BY <1>4 DEF RecordStatements
      <3> QED
        BY <3>1 DEF RecordKey
    <2>3. qq \in [1..Len(ks) -> Seq(RecordStatements)]
      BY <2>1, <2>2
    <2> QED
      BY <2>1, <2>3, SeqDef
  <1>6. m \in DOMAIN qq /\ 2 \in DOMAIN qq[m] /\ qq[m][2] = link
    BY <1>3 DEF RecordKey
  <1> HIDE DEF qq
  <1>7. PICK q \in DOMAIN FlattenSeq(qq) : FlattenSeq(qq)[q] = link
    BY <1>5, <1>6, FlattenHas
  <1>8. FlattenSeq(qq) \in Seq(RecordStatements)
    BY <1>5, FlattenSeqIn
  <1>9. RecordFunc(f) = head \o FlattenSeq(qq)
    BY <1>4 DEF RecordFunc, qq
  <1>10. head \in Seq(RecordStatements) /\ Len(head) = 2
    <2>1. /\ [do |-> "func", funcID |-> id] \in RecordStatements
          /\ [do |-> "depends", funcID |-> id] \in RecordStatements
      BY <1>4 DEF RecordStatements
    <2> QED
      BY <2>1
  <1>11. 2 + q \in DOMAIN RecordFunc(f) /\ RecordFunc(f)[2 + q] = link
    <2> DEFINE t == FlattenSeq(qq)
    <2> HIDE DEF t, head
    <2>1. q \in 1..Len(t) /\ t[q] = link /\ Len(t) \in Nat
      BY <1>7, <1>8 DEF t
    <2>2. t \in Seq(RecordStatements) /\ head \in Seq(RecordStatements)
      BY <1>8, <1>10 DEF t
    <2>3. /\ DOMAIN (head \o t) = 1..(Len(head) + Len(t))
          /\ \A p \in 1..Len(t) : (head \o t)[Len(head) + p] = t[p]
      BY <2>2, Concat
    <2>4. DOMAIN (head \o t) = 1..(2 + Len(t)) /\ (head \o t)[2 + q] = t[q]
      BY <1>10, <2>1, <2>3
    <2> QED
      BY <1>9, <2>1, <2>4 DEF t
  <1>12. rr \in Seq(Seq(RecordStatements))
    <2>1. /\ Len(vf) \in Nat /\ DOMAIN vf = 1..Len(vf)
          /\ \A j \in DOMAIN vf : vf[j] \in Entries \union {None}
      BY <1>1
    <2>2. rr \in [1..Len(vf) -> Seq(RecordStatements)]
      BY <2>1, RecordFuncIsOrdered
    <2> QED
      BY <2>1, <2>2, SeqDef
  <1>13. n \in DOMAIN rr /\ rr[n] = RecordFunc(f)
    OBVIOUS
  <1>14. link.do = "link" /\ link.funcID = pair[1] /\ link.key = pair[2]
    BY <1>2
  <1> HIDE DEF rr, f, link
  <1>15. \E p \in DOMAIN FlattenSeq(rr) : FlattenSeq(rr)[p] = link
    BY <1>11, <1>12, <1>13, FlattenHas
  <1>16. FlattenSeq(rr) = Recorded(a)
    BY DEF rr, vf, Recorded
  <1> QED
    BY <1>14, <1>15, <1>16

\* What Updated(a, result) may consist of.
UpdateStatements(a) ==
    [do : {"state"}, funcID : Funcs, state : FuncStates]
    \union [do : {"ref"}, trace : {a}, key : Keys, action : {"activate", "deactivate"}]
    \union [do : {"undefined"}]

\* What a result says of one function.
LEMMA UpdateIsOne ==
    ASSUME NEW a \in Traces, NEW f \in FuncResults \union {None}
    PROVE  Update(a, f) \in Seq(UpdateStatements(a))
  <1> DEFINE ks == f.keys
             one == [do |-> "state", funcID |-> f.funcID, state |-> f.state]
             ref(k) == [do |-> "ref", trace |-> a, key |-> k.key, action |-> f.action]
             qq == [m \in DOMAIN ks |-> IF ~ks[m].ok THEN <<>> ELSE << ref(ks[m]) >>]
  <1>1. CASE f = None
    <2>1. [do |-> "undefined"] \in UpdateStatements(a)
      BY DEF UpdateStatements
    <2> QED
      BY <1>1, <2>1 DEF Update, Undefined
  <1>2. CASE f # None
    <2>1. f \in FuncResults
      BY <1>2
    <2>2. /\ f.funcID \in Funcs /\ f.state \in FuncStates
          /\ f.action \in {"activate", "deactivate"}
          /\ ks \in Seq([key : Keys, ok : BOOLEAN])
      BY <2>1 DEF FuncResults
    <2>3. one \in UpdateStatements(a)
      BY <2>2 DEF UpdateStatements
    <2>4. /\ Len(ks) \in Nat /\ DOMAIN ks = 1..Len(ks)
          /\ \A m \in DOMAIN ks : ks[m] \in [key : Keys, ok : BOOLEAN]
      <3> DEFINE T == [key : Keys, ok : BOOLEAN]
      <3>1. ks \in Seq(T)
        BY <2>2
      <3> HIDE DEF T, ks
      <3>2. Len(ks) \in Nat /\ DOMAIN ks = 1..Len(ks) /\ \A m \in DOMAIN ks : ks[m] \in T
        BY <3>1
      <3> QED
        BY <3>2 DEF T
    <2>5. \A m \in DOMAIN ks : ref(ks[m]) \in UpdateStatements(a)
      BY <2>2, <2>4 DEF UpdateStatements
    <2>6. qq \in [1..Len(ks) -> Seq(UpdateStatements(a))]
      <3> HIDE DEF ref, ks
      <3> QED
        BY <2>4, <2>5
    <2>7. qq \in Seq(Seq(UpdateStatements(a)))
      BY <2>4, <2>6, SeqDef
    <2>8. Update(a, f) = <<one>> \o FlattenSeq(qq)
      BY <1>2 DEF Update
    <2> HIDE DEF qq, one
    <2>9. FlattenSeq(qq) \in Seq(UpdateStatements(a))
      BY <2>7, FlattenSeqIn
    <2>10. <<one>> \in Seq(UpdateStatements(a))
      BY <2>3
    <2> QED
      BY <2>8, <2>9, <2>10, Concat
  <1> QED
    BY <1>1, <1>2

\* Whatever a result says, it only updates.
LEMMA UpdatedAreUpdates ==
    ASSUME NEW a \in Traces, NEW result \in Results
    PROVE  Updated(a, result) \in Seq(UpdateStatements(a))
  <1> DEFINE vf == VisitedFuncs(result)
             uu == [n \in DOMAIN vf |-> Update(a, vf[n])]
  <1>1. vf \in Seq(FuncResults \union {None})
    BY ActivationAssumption, VisitedAreThere
  <1> HIDE DEF vf
  <1>2. /\ Len(vf) \in Nat /\ DOMAIN vf = 1..Len(vf)
        /\ \A n \in DOMAIN vf : vf[n] \in FuncResults \union {None}
    BY <1>1
  <1>3. uu \in [1..Len(vf) -> Seq(UpdateStatements(a))]
    BY <1>2, UpdateIsOne
  <1>4. uu \in Seq(Seq(UpdateStatements(a)))
    BY <1>2, <1>3, SeqDef
  <1> HIDE DEF uu
  <1>5. FlattenSeq(uu) \in Seq(UpdateStatements(a))
    BY <1>4, FlattenSeqIn
  <1> QED
    BY <1>5 DEF uu, vf, Updated

-----------------------------------------------------------------------------
(* The inductive invariant. *)

\* A function with a row, a function with a link to a key.
HasRow(rows, id) == \E r \in DOMAIN rows : rows[r].funcID = id
HasLink(rows, links, id, k) == \E link \in links : rows[link[1]].funcID = id /\ link[2] = k

\* A link that is still to be written is planned, and its key and its function have a row
\* or get one before.
LinksToCome ==
    \A i \in DOMAIN todo : todo[i].do = "link" =>
        /\ Planned(todo[i].funcID, todo[i].key)
        /\ \/ keys[todo[i].key] # None
           \/ \E j \in 1..(i - 1) : todo[j].do = "key" /\ todo[j].key = todo[i].key
        /\ \/ HasRow(funcsInGroup, todo[i].funcID)
           \/ \E j \in 1..(i - 1) : todo[j].do = "func" /\ todo[j].funcID = todo[i].funcID

\* A count that is still to be written is of a result that is written before.
CountsToCome ==
    \A i \in DOMAIN todo : todo[i].do = "ref" =>
        \/ activation[todo[i].trace] = "submitted"
        \/ \E j \in 1..(i - 1) : todo[j].do = "result" /\ todo[j].trace = todo[i].trace

\* A result that is still to be written comes after the links of its activation.
ResultsToCome ==
    \A i \in DOMAIN todo : todo[i].do = "result" =>
        \A pair \in RecordedPairs(todo[i].trace) :
            \/ HasLink(funcsInGroup, funcsInGroup_key, pair[1], pair[2])
            \/ \E j \in 1..(i - 1) : /\ todo[j].do = "link"
                                     /\ todo[j].funcID = pair[1] /\ todo[j].key = pair[2]

\* SubmittedIsLinked, pair by pair.
PairsAreLinked ==
    \A a \in Traces : activation[a] = "submitted" =>
        \A pair \in RecordedPairs(a) :
            HasLink(funcsInGroup, funcsInGroup_key, pair[1], pair[2])

\* What was counted since the last delivery was submitted since then.
CountedIsSubmitted == \A a \in counted : activation[a] = "submitted"

IInv == /\ TypeOK
        /\ OneRowPerFunc /\ ActivatedIffCounted
        /\ LinksToCome /\ CountsToCome /\ ResultsToCome
        /\ LinksResolve /\ CountedIsSubmitted /\ PairsAreLinked

\* What the fields of a statement are.
LEMMA Fields ==
    ASSUME NEW s \in Statements
    PROVE  /\ s.do \in {"func", "depends", "state", "key", "link"} => s.funcID \in Funcs
           /\ s.do \in {"key", "link", "ref"} => s.key \in Keys
           /\ s.do \in {"result", "ref"} => s.trace \in Traces
           /\ s.do = "state" => s.state \in FuncStates
           /\ s.do = "ref" => s.action \in {"activate", "deactivate"}
  BY DEF Statements

\* todo when its first statement was run.
LEMMA Shift ==
    ASSUME TypeOK, todo # <<>>, todo' = Tail(todo)
    PROVE  /\ Head(todo) \in Statements /\ Head(todo) = todo[1]
           /\ todo' \in Seq(Statements)
           /\ \A i \in DOMAIN todo' : i + 1 \in DOMAIN todo /\ todo'[i] = todo[i + 1]
           /\ \A i \in DOMAIN todo' : \A j \in 1..i : j # 1 =>
                 j - 1 \in 1..(i - 1) /\ todo'[j - 1] = todo[j]
  <1>1. todo \in Seq(Statements) /\ Len(todo) \in Nat /\ Len(todo) > 0
    BY DEF TypeOK
  <1>2. /\ Tail(todo) \in Seq(Statements)
        /\ Len(Tail(todo)) = Len(todo) - 1
        /\ \A i \in 1..(Len(todo) - 1) : Tail(todo)[i] = todo[i + 1]
    BY <1>1
  <1>3. DOMAIN todo = 1..Len(todo) /\ DOMAIN todo' = 1..(Len(todo) - 1)
    BY <1>1, <1>2
  <1>4. Head(todo) = todo[1] /\ todo[1] \in Statements
    BY <1>1
  <1>5. ASSUME NEW i \in DOMAIN todo', NEW j \in 1..i, j # 1
        PROVE  j - 1 \in 1..(i - 1) /\ todo'[j - 1] = todo[j]
    <2>1. j - 1 \in 1..(i - 1) /\ j - 1 \in 1..(Len(todo) - 1) /\ (j - 1) + 1 = j
      BY <1>1, <1>3, <1>5
    <2> QED
      BY <1>2, <2>1
  <1> QED
    BY <1>2, <1>3, <1>4, <1>5

\* A statement may be taken off todo if no row gets lost, and if it wrote what the
\* others rely on.
LEMMA StatementIsDone ==
    ASSUME TypeOK, LinksToCome, CountsToCome, ResultsToCome, todo # <<>>, todo' = Tail(todo),
           \A k \in Keys : keys[k] # None => keys'[k] # None,
           \A id \in Funcs : HasRow(funcsInGroup, id) => HasRow(funcsInGroup', id),
           \A a \in Traces : activation[a] = "submitted" => activation'[a] = "submitted",
           \A id \in Funcs, k \in Keys : HasLink(funcsInGroup, funcsInGroup_key, id, k)
                                        => HasLink(funcsInGroup', funcsInGroup_key', id, k),
           Head(todo).do = "key" => keys'[Head(todo).key] # None,
           Head(todo).do = "func" => HasRow(funcsInGroup', Head(todo).funcID),
           Head(todo).do = "result" => activation'[Head(todo).trace] = "submitted",
           Head(todo).do = "link" => HasLink(funcsInGroup', funcsInGroup_key',
                                             Head(todo).funcID, Head(todo).key)
    PROVE  LinksToCome' /\ CountsToCome' /\ ResultsToCome'
  <1>1. /\ Head(todo) \in Statements /\ Head(todo) = todo[1]
        /\ todo' \in Seq(Statements)
        /\ \A i \in DOMAIN todo' : i + 1 \in DOMAIN todo /\ todo'[i] = todo[i + 1]
        /\ \A i \in DOMAIN todo' : \A j \in 1..i : j # 1 =>
              j - 1 \in 1..(i - 1) /\ todo'[j - 1] = todo[j]
    BY Shift
  <1>2. \A i \in DOMAIN todo' : i \in Nat /\ (i + 1) - 1 = i /\ todo'[i] \in Statements
    BY <1>1
  <1>3. ASSUME NEW i \in DOMAIN todo', todo'[i].do = "link"
        PROVE  /\ Planned(todo'[i].funcID, todo'[i].key)
               /\ \/ keys'[todo'[i].key] # None
                  \/ \E j \in 1..(i - 1) : todo'[j].do = "key" /\ todo'[j].key = todo'[i].key
               /\ \/ HasRow(funcsInGroup', todo'[i].funcID)
                  \/ \E j \in 1..(i - 1) : todo'[j].do = "func" /\ todo'[j].funcID = todo'[i].funcID
    <2> DEFINE s == todo'[i]
    <2>1. s = todo[i + 1] /\ i + 1 \in DOMAIN todo /\ s.key \in Keys /\ s.funcID \in Funcs
      BY <1>1, <1>2, <1>3, Fields
    <2>2. /\ Planned(s.funcID, s.key)
          /\ \/ keys[s.key] # None
             \/ \E j \in 1..i : todo[j].do = "key" /\ todo[j].key = s.key
          /\ \/ HasRow(funcsInGroup, s.funcID)
             \/ \E j \in 1..i : todo[j].do = "func" /\ todo[j].funcID = s.funcID
      BY <1>2, <1>3, <2>1 DEF LinksToCome
    <2> HIDE DEF s
    <2>3. \/ keys'[s.key] # None
          \/ \E j \in 1..(i - 1) : todo'[j].do = "key" /\ todo'[j].key = s.key
      <3>1. CASE keys[s.key] # None
        BY <2>1, <3>1
      <3>2. ASSUME NEW j \in 1..i, todo[j].do = "key", todo[j].key = s.key
            PROVE  \/ keys'[s.key] # None
                   \/ \E q \in 1..(i - 1) : todo'[q].do = "key" /\ todo'[q].key = s.key
        <4>1. CASE j = 1
          BY <1>1, <3>2, <4>1
        <4>2. CASE j # 1
          BY <1>1, <3>2, <4>2
        <4> QED
          BY <4>1, <4>2
      <3> QED
        BY <2>2, <3>1, <3>2
    <2>4. \/ HasRow(funcsInGroup', s.funcID)
          \/ \E j \in 1..(i - 1) : todo'[j].do = "func" /\ todo'[j].funcID = s.funcID
      <3>1. CASE HasRow(funcsInGroup, s.funcID)
        BY <2>1, <3>1
      <3>2. ASSUME NEW j \in 1..i, todo[j].do = "func", todo[j].funcID = s.funcID
            PROVE  \/ HasRow(funcsInGroup', s.funcID)
                   \/ \E q \in 1..(i - 1) : todo'[q].do = "func" /\ todo'[q].funcID = s.funcID
        <4>1. CASE j = 1
          BY <1>1, <3>2, <4>1
        <4>2. CASE j # 1
          BY <1>1, <3>2, <4>2
        <4> QED
          BY <4>1, <4>2
      <3> QED
        BY <2>2, <3>1, <3>2
    <2> QED
      BY <2>2, <2>3, <2>4 DEF s
  <1>4. ASSUME NEW i \in DOMAIN todo', todo'[i].do = "ref"
        PROVE  \/ activation'[todo'[i].trace] = "submitted"
               \/ \E j \in 1..(i - 1) : todo'[j].do = "result" /\ todo'[j].trace = todo'[i].trace
    <2> DEFINE s == todo'[i]
    <2>1. s = todo[i + 1] /\ i + 1 \in DOMAIN todo /\ s.trace \in Traces
      BY <1>1, <1>2, <1>4, Fields
    <2>2. \/ activation[s.trace] = "submitted"
          \/ \E j \in 1..i : todo[j].do = "result" /\ todo[j].trace = s.trace
      BY <1>2, <1>4, <2>1 DEF CountsToCome
    <2> HIDE DEF s
    <2>3. CASE activation[s.trace] = "submitted"
      BY <2>1, <2>3 DEF s
    <2>4. ASSUME NEW j \in 1..i, todo[j].do = "result", todo[j].trace = s.trace
          PROVE  \/ activation'[s.trace] = "submitted"
                 \/ \E q \in 1..(i - 1) : todo'[q].do = "result" /\ todo'[q].trace = s.trace
      <3>1. CASE j = 1
        BY <1>1, <2>4, <3>1
      <3>2. CASE j # 1
        BY <1>1, <2>4, <3>2
      <3> QED
        BY <3>1, <3>2
    <2> QED
      BY <2>2, <2>3, <2>4 DEF s
  <1>5. ASSUME NEW i \in DOMAIN todo', todo'[i].do = "result",
               NEW pair \in RecordedPairs(todo'[i].trace)
        PROVE  \/ HasLink(funcsInGroup', funcsInGroup_key', pair[1], pair[2])
               \/ \E j \in 1..(i - 1) : /\ todo'[j].do = "link"
                                        /\ todo'[j].funcID = pair[1] /\ todo'[j].key = pair[2]
    <2> DEFINE id == pair[1]
               k == pair[2]
    <2>1. todo'[i] = todo[i + 1] /\ i + 1 \in DOMAIN todo
      BY <1>1
    <2>2. \/ HasLink(funcsInGroup, funcsInGroup_key, id, k)
          \/ \E j \in 1..i : todo[j].do = "link" /\ todo[j].funcID = id /\ todo[j].key = k
      BY <1>2, <1>5, <2>1 DEF ResultsToCome
    <2>3. id \in Funcs /\ k \in Keys
      BY DEF RecordedPairs
    <2> HIDE DEF id, k
    <2>4. CASE HasLink(funcsInGroup, funcsInGroup_key, id, k)
      BY <2>3, <2>4 DEF id, k
    <2>5. ASSUME NEW j \in 1..i, todo[j].do = "link", todo[j].funcID = id, todo[j].key = k
          PROVE  \/ HasLink(funcsInGroup', funcsInGroup_key', id, k)
                 \/ \E q \in 1..(i - 1) : /\ todo'[q].do = "link"
                                          /\ todo'[q].funcID = id /\ todo'[q].key = k
      <3>1. CASE j = 1
        BY <1>1, <2>5, <3>1
      <3>2. CASE j # 1
        BY <1>1, <2>5, <3>2
      <3> QED
        BY <3>1, <3>2
    <2> QED
      BY <2>2, <2>4, <2>5 DEF id, k
  <1>6. LinksToCome'
    BY <1>3 DEF LinksToCome
  <1>7. CountsToCome'
    BY <1>4 DEF CountsToCome
  <1>8. ResultsToCome'
    BY <1>5 DEF ResultsToCome
  <1> QED
    BY <1>6, <1>7, <1>8

\* What the first statement of a call can rely on.
LEMMA NothingToCome ==
    ASSUME TypeOK, LinksToCome, CountsToCome, ResultsToCome, todo # <<>>
    PROVE  /\ Head(todo) \in Statements
           /\ Head(todo).do = "link" => /\ Planned(Head(todo).funcID, Head(todo).key)
                                        /\ keys[Head(todo).key] # None
                                        /\ HasRow(funcsInGroup, Head(todo).funcID)
           /\ Head(todo).do = "ref" => activation[Head(todo).trace] = "submitted"
           /\ Head(todo).do = "result" =>
                 \A pair \in RecordedPairs(Head(todo).trace) :
                     HasLink(funcsInGroup, funcsInGroup_key, pair[1], pair[2])
  <1>1. todo \in Seq(Statements) /\ Head(todo) = todo[1] /\ 1 \in DOMAIN todo
    BY DEF TypeOK
  <1>2. \A j : j \notin 1..(1 - 1)
    OBVIOUS
  <1> QED
    BY <1>1, <1>2 DEF LinksToCome, CountsToCome, ResultsToCome

\* A link stays resolved while rows stay and keep their funcID.
LEMMA LinksStillResolve ==
    ASSUME TypeOK, LinksResolve, funcsInGroup_key' = funcsInGroup_key,
           \A k \in Keys : keys[k] # None => keys'[k] # None,
           \A r \in DOMAIN funcsInGroup : funcsInGroup'[r].funcID = funcsInGroup[r].funcID
    PROVE  LinksResolve'
  <1> SUFFICES ASSUME NEW link \in funcsInGroup_key
               PROVE  keys'[link[2]] # None /\ Planned(funcsInGroup'[link[1]].funcID, link[2])
    BY DEF LinksResolve, Planned
  <1>1. link[1] \in DOMAIN funcsInGroup /\ link[2] \in Keys
    BY DEF TypeOK
  <1>2. keys[link[2]] # None /\ Planned(funcsInGroup[link[1]].funcID, link[2])
    BY DEF LinksResolve, Planned
  <1> QED
    BY <1>1, <1>2

\* A link stays while rows keep their funcID.
LEMMA LinksStay ==
    ASSUME TypeOK, funcsInGroup_key \subseteq funcsInGroup_key',
           \A r \in DOMAIN funcsInGroup : funcsInGroup'[r].funcID = funcsInGroup[r].funcID
    PROVE  \A id, k : HasLink(funcsInGroup, funcsInGroup_key, id, k)
                       => HasLink(funcsInGroup', funcsInGroup_key', id, k)
  BY DEF TypeOK, HasLink

\* And so does what the result of an activation was saved for.
LEMMA PairsStayLinked ==
    ASSUME PairsAreLinked, activation' = activation,
           \A id, k : HasLink(funcsInGroup, funcsInGroup_key, id, k)
                      => HasLink(funcsInGroup', funcsInGroup_key', id, k)
    PROVE  PairsAreLinked'
  BY DEF PairsAreLinked

\* A row of funcsInGroup.
FuncRow == [funcID : Funcs, state : FuncStates \union {"inLine"}]

\* An UPDATE writes rows, and leaves their number and their funcID alone.
LEMMA RowsAreUpdated ==
    ASSUME TypeOK, OneRowPerFunc, NEW id \in Funcs, NEW state \in FuncStates,
           funcsInGroup' = [i \in DOMAIN funcsInGroup |->
               IF i \in Rows(id) THEN [funcsInGroup[i] EXCEPT !.state = state]
                                 ELSE funcsInGroup[i]]
    PROVE  /\ funcsInGroup' \in Seq(FuncRow)
           /\ DOMAIN funcsInGroup' = DOMAIN funcsInGroup
           /\ \A r \in DOMAIN funcsInGroup : funcsInGroup'[r].funcID = funcsInGroup[r].funcID
           /\ OneRowPerFunc'
  <1>1. /\ Len(funcsInGroup) \in Nat /\ DOMAIN funcsInGroup = 1..Len(funcsInGroup)
        /\ \A r \in DOMAIN funcsInGroup : funcsInGroup[r] \in FuncRow
    <2>1. funcsInGroup \in Seq(FuncRow)
      BY DEF TypeOK, FuncRow
    <2> QED
      BY <2>1
  <1>2. DOMAIN funcsInGroup' = DOMAIN funcsInGroup
    OBVIOUS
  <1>3. \A r \in DOMAIN funcsInGroup : funcsInGroup'[r] \in FuncRow
    BY <1>1 DEF FuncRow
  <1>4. funcsInGroup' \in [1..Len(funcsInGroup) -> FuncRow]
    BY <1>1, <1>3
  <1>5. funcsInGroup' \in Seq(FuncRow)
    BY <1>1, <1>4, SeqDef
  <1>6. \A r \in DOMAIN funcsInGroup : funcsInGroup'[r].funcID = funcsInGroup[r].funcID
    BY <1>1 DEF FuncRow
  <1>7. OneRowPerFunc'
    BY <1>2, <1>6 DEF OneRowPerFunc
  <1> QED
    BY <1>2, <1>5, <1>6, <1>7

\* Check and insert: a row is only appended for a function that has none.
LEMMA FuncIsInserted ==
    ASSUME TypeOK, OneRowPerFunc, WriteFunc, Head(todo).funcID \in Funcs
    PROVE  /\ funcsInGroup' \in Seq(FuncRow)
           /\ DOMAIN funcsInGroup \subseteq DOMAIN funcsInGroup'
           /\ \A r \in DOMAIN funcsInGroup : funcsInGroup'[r] = funcsInGroup[r]
           /\ HasRow(funcsInGroup', Head(todo).funcID)
           /\ OneRowPerFunc'
  <1> DEFINE id  == Head(todo).funcID
             new == [funcID |-> id, state |-> "inLine"]
  <1>1. funcsInGroup \in Seq(FuncRow) /\ new \in FuncRow
    BY DEF TypeOK, FuncRow
  <1>2. CASE Rows(id) # {}
    BY <1>1, <1>2 DEF WriteFunc, OneRowPerFunc, HasRow, Rows
  <1>3. CASE Rows(id) = {}
    <2>1. funcsInGroup' = Append(funcsInGroup, new)
      BY <1>3 DEF WriteFunc
    <2>2. /\ funcsInGroup' \in Seq(FuncRow)
          /\ Len(funcsInGroup) \in Nat
          /\ \A i \in 1..Len(funcsInGroup) : funcsInGroup'[i] = funcsInGroup[i]
          /\ funcsInGroup'[Len(funcsInGroup) + 1] = new
          /\ DOMAIN funcsInGroup = 1..Len(funcsInGroup)
          /\ DOMAIN funcsInGroup' = 1..(Len(funcsInGroup) + 1)
      BY <1>1, <2>1
    <2>3. \A i \in 1..Len(funcsInGroup) : funcsInGroup[i].funcID # id
      BY <1>3, <2>2 DEF Rows
    <2>4. OneRowPerFunc'
      BY <2>2, <2>3 DEF OneRowPerFunc
    <2>5. HasRow(funcsInGroup', id)
      BY <2>2 DEF HasRow
    <2> QED
      BY <2>2, <2>4, <2>5
  <1> QED
    BY <1>2, <1>3

\* Counting keeps the state of a key and its count in agreement.
LEMMA CountedIsSound ==
    ASSUME NEW row \in KeyRow, NEW action
    PROVE  /\ Counted(row, action) \in KeyRow
           /\ Counted(row, action).state = "activated" <=> Counted(row, action).ref > 0
  BY DEF Counted, KeyRow

-----------------------------------------------------------------------------
(* Each action keeps the invariant. *)

LEMMA StartsSound == Init => IInv
  <1> SUFFICES ASSUME Init PROVE IInv
    OBVIOUS
  <1>1. TypeOK
    BY DEF Init, TypeOK
  <1>2. OneRowPerFunc /\ LinksToCome /\ CountsToCome /\ ResultsToCome
    BY DEF Init, OneRowPerFunc, LinksToCome, CountsToCome, ResultsToCome
  <1>3. ActivatedIffCounted /\ PairsAreLinked
    BY DEF Init, ActivatedIffCounted, PairsAreLinked
  <1>4. LinksResolve /\ CountedIsSubmitted
    BY DEF Init, LinksResolve, CountedIsSubmitted
  <1> QED
    BY <1>1, <1>2, <1>3, <1>4 DEF IInv

LEMMA DeliverKeepsIt == ASSUME IInv, NEW a \in Traces, Deliver(a) PROVE IInv'
  <1>1. TypeOK'
    BY DEF IInv, Deliver, TypeOK
  <1>2. LinksToCome' /\ CountsToCome' /\ ResultsToCome'
    BY DEF Deliver, Idle, LinksToCome, CountsToCome, ResultsToCome
  <1>3. CountedIsSubmitted'
    BY DEF IInv, Deliver, CountedIsSubmitted, TypeOK
  <1>4. PairsAreLinked'
    <2>1. \A b \in Traces : activation'[b] = "submitted" => activation[b] = "submitted"
      BY DEF IInv, Deliver, TypeOK
    <2> QED
      BY <2>1 DEF IInv, Deliver, PairsAreLinked
  <1>5. OneRowPerFunc' /\ ActivatedIffCounted' /\ LinksResolve'
    BY DEF IInv, Deliver, OneRowPerFunc, ActivatedIffCounted, LinksResolve
  <1> QED
    BY <1>1, <1>2, <1>3, <1>4, <1>5 DEF IInv

LEMMA InterruptKeepsIt == ASSUME IInv, Interrupt PROVE IInv'
  <1>1. TypeOK'
    BY DEF IInv, Interrupt, TypeOK
  <1>2. LinksToCome' /\ CountsToCome' /\ ResultsToCome'
    BY DEF Interrupt, LinksToCome, CountsToCome, ResultsToCome
  <1>3. /\ OneRowPerFunc' /\ ActivatedIffCounted' /\ LinksResolve' /\ PairsAreLinked'
        /\ CountedIsSubmitted'
    BY DEF IInv, Interrupt, OneRowPerFunc, ActivatedIffCounted, LinksResolve, PairsAreLinked,
       CountedIsSubmitted
  <1> QED
    BY <1>1, <1>2, <1>3 DEF IInv

LEMMA SetFuncInfoKeepsIt ==
    ASSUME IInv, NEW id \in Funcs, NEW state \in FuncStates, SetFuncInfo(id, state)
    PROVE  IInv'
  <1>1. /\ funcsInGroup' \in Seq(FuncRow) /\ DOMAIN funcsInGroup' = DOMAIN funcsInGroup
        /\ \A r \in DOMAIN funcsInGroup : funcsInGroup'[r].funcID = funcsInGroup[r].funcID
        /\ OneRowPerFunc'
    BY RowsAreUpdated DEF IInv, SetFuncInfo
  <1>2. TypeOK'
    BY <1>1 DEF IInv, SetFuncInfo, TypeOK, FuncRow
  <1>3. LinksToCome' /\ CountsToCome' /\ ResultsToCome'
    BY DEF SetFuncInfo, Idle, LinksToCome, CountsToCome, ResultsToCome
  <1>4. LinksResolve'
    BY <1>1, LinksStillResolve DEF IInv, SetFuncInfo
  <1>5. PairsAreLinked'
    BY <1>1, LinksStay, PairsStayLinked DEF IInv, SetFuncInfo
  <1>6. ActivatedIffCounted' /\ CountedIsSubmitted'
    BY DEF IInv, SetFuncInfo, ActivatedIffCounted, CountedIsSubmitted
  <1> QED
    BY <1>1, <1>2, <1>3, <1>4, <1>5, <1>6 DEF IInv

\* The statements of a call: what records the plan, the result, and what it says.
LEMMA SaveKeepsIt ==
    ASSUME IInv, NEW a \in Traces, NEW result \in Results, Save(a, result)
    PROVE  IInv'
  <1> DEFINE r == Recorded(a)
             m == << [do |-> "result", trace |-> a] >>
             u == Updated(a, result)
             n == Len(r)
  <1>1. r \in Seq(RecordStatements) /\ Ordered({}, r)
    BY RecordedIsOrdered
  <1>2. u \in Seq(UpdateStatements(a))
    BY UpdatedAreUpdates
  <1>3. todo' = r \o m \o u
    BY DEF Save, SaveStatements
  <1>4. \A pair \in RecordedPairs(a) : \E p \in DOMAIN r :
           r[p].do = "link" /\ r[p].funcID = pair[1] /\ r[p].key = pair[2]
    BY PairsGetALink
  <1>5. RecordStatements \subseteq Statements
    BY DEF RecordStatements, Statements
  <1>6. UpdateStatements(a) \subseteq Statements
    BY DEF UpdateStatements, Statements
  <1>7. [do |-> "result", trace |-> a] \in Statements
    BY DEF Statements
  <1> HIDE DEF r, u
  <1>8. /\ r \in Seq(Statements) /\ m \in Seq(Statements) /\ u \in Seq(Statements)
        /\ n \in Nat /\ Len(u) \in Nat /\ DOMAIN r = 1..n /\ Len(m) = 1
        /\ \A p \in 1..n : r[p] \in RecordStatements
        /\ \A p \in 1..Len(u) : u[p] \in UpdateStatements(a)
    BY <1>1, <1>2, <1>5, <1>6, <1>7
  <1>9. /\ todo' \in Seq(Statements)
        /\ DOMAIN todo' = 1..(n + 1 + Len(u))
        /\ \A p \in 1..n : todo'[p] = r[p]
        /\ todo'[n + 1] = [do |-> "result", trace |-> a]
        /\ \A p \in 1..(n + 1 + Len(u)) : p > n + 1 => todo'[p] \in UpdateStatements(a)
    BY <1>3, <1>8
  <1>10. \A p \in DOMAIN todo' : p \in 1..n \/ p = n + 1 \/ p > n + 1
    BY <1>8, <1>9
  <1>11. \A s \in UpdateStatements(a) :
            /\ s.do \in {"state", "ref", "undefined"}
            /\ s.do = "ref" => s.trace = a
    BY DEF UpdateStatements
  <1>12. \A s \in RecordStatements : s.do \in {"func", "depends", "key", "link", "undefined"}
    BY DEF RecordStatements
  <1> HIDE DEF n, m
  <1>13. LinksToCome'
    <2>1. ASSUME NEW i \in DOMAIN todo', todo'[i].do = "link"
          PROVE  /\ Planned(todo'[i].funcID, todo'[i].key)
                 /\ \E j \in 1..(i - 1) : todo'[j].do = "key" /\ todo'[j].key = todo'[i].key
                 /\ \E j \in 1..(i - 1) : todo'[j].do = "func" /\ todo'[j].funcID = todo'[i].funcID
      <3>1. i \in 1..n
        BY <1>9, <1>10, <1>11, <2>1
      <3>2. todo'[i] = r[i] /\ i \in DOMAIN r /\ \A j \in 1..(i - 1) : todo'[j] = r[j]
        BY <1>8, <1>9, <3>1
      <3>3. /\ Planned(r[i].funcID, r[i].key)
            /\ \E j \in 1..(i - 1) : r[j].do = "key" /\ r[j].key = r[i].key
            /\ \E j \in 1..(i - 1) : r[j].do = "func" /\ r[j].funcID = r[i].funcID
        BY <1>1, <2>1, <3>2 DEF Ordered
      <3> QED
        BY <3>2, <3>3
    <2> QED
      BY <2>1 DEF LinksToCome
  <1>14. CountsToCome'
    <2>1. ASSUME NEW i \in DOMAIN todo', todo'[i].do = "ref"
          PROVE  \E j \in 1..(i - 1) : todo'[j].do = "result" /\ todo'[j].trace = todo'[i].trace
      <3>1. i \notin 1..n
        BY <1>9, <1>12, <1>8, <2>1
      <3>2. i # n + 1
        BY <1>9, <2>1
      <3>3. i > n + 1 /\ todo'[i].trace = a
        BY <1>9, <1>10, <1>11, <2>1, <3>1, <3>2
      <3>4. n + 1 \in 1..(i - 1)
        BY <1>8, <1>9, <3>3
      <3> QED
        BY <1>9, <3>3, <3>4
    <2> QED
      BY <2>1 DEF CountsToCome
  <1>15. ResultsToCome'
    <2>1. ASSUME NEW i \in DOMAIN todo', todo'[i].do = "result",
                 NEW pair \in RecordedPairs(todo'[i].trace)
          PROVE  \E j \in 1..(i - 1) : /\ todo'[j].do = "link"
                                       /\ todo'[j].funcID = pair[1] /\ todo'[j].key = pair[2]
      <3>1. i = n + 1
        <4>1. i \notin 1..n
          BY <1>8, <1>9, <1>12, <2>1
        <4>2. ~(i > n + 1)
          BY <1>9, <1>11, <2>1
        <4> QED
          BY <1>10, <4>1, <4>2
      <3>2. todo'[i].trace = a /\ \A p \in 1..n : p \in 1..(i - 1)
        BY <1>8, <1>9, <3>1
      <3>3. PICK p \in 1..n : r[p].do = "link" /\ r[p].funcID = pair[1] /\ r[p].key = pair[2]
        BY <1>4, <1>8, <2>1, <3>2
      <3>4. p \in 1..(i - 1) /\ todo'[p] = r[p]
        BY <1>9, <3>2
      <3> QED
        BY <3>3, <3>4
    <2> QED
      BY <2>1 DEF ResultsToCome
  <1>16. TypeOK'
    BY <1>9 DEF IInv, Save, TypeOK
  <1>17. /\ OneRowPerFunc' /\ ActivatedIffCounted' /\ LinksResolve' /\ PairsAreLinked'
         /\ CountedIsSubmitted'
    BY DEF IInv, Save, OneRowPerFunc, ActivatedIffCounted, LinksResolve, PairsAreLinked,
       CountedIsSubmitted
  <1> QED
    BY <1>13, <1>14, <1>15, <1>16, <1>17 DEF IInv

LEMMA WriteFuncKeepsIt == ASSUME IInv, WriteFunc PROVE IInv'
  <1>1. /\ TypeOK /\ OneRowPerFunc /\ LinksToCome /\ CountsToCome /\ ResultsToCome
        /\ LinksResolve
        /\ todo # <<>> /\ todo' = Tail(todo) /\ Head(todo).do = "func"
    BY DEF IInv, WriteFunc, Runs, Idle
  <1>2. todo' \in Seq(Statements) /\ Head(todo).funcID \in Funcs
    BY <1>1, Shift, Fields
  <1>3. /\ funcsInGroup' \in Seq(FuncRow)
        /\ DOMAIN funcsInGroup \subseteq DOMAIN funcsInGroup'
        /\ \A r \in DOMAIN funcsInGroup : funcsInGroup'[r] = funcsInGroup[r]
        /\ HasRow(funcsInGroup', Head(todo).funcID)
        /\ OneRowPerFunc'
    BY <1>1, <1>2, FuncIsInserted
  <1>4. TypeOK'
    BY <1>1, <1>2, <1>3 DEF WriteFunc, TypeOK, FuncRow
  <1>5. LinksResolve'
    BY <1>1, <1>3, LinksStillResolve DEF WriteFunc
  <1>6. \A id \in Funcs : HasRow(funcsInGroup, id) => HasRow(funcsInGroup', id)
    BY <1>3 DEF HasRow
  <1>7. \A id, k : HasLink(funcsInGroup, funcsInGroup_key, id, k)
                   => HasLink(funcsInGroup', funcsInGroup_key', id, k)
    BY <1>1, <1>3, LinksStay DEF WriteFunc
  <1>8. LinksToCome' /\ CountsToCome' /\ ResultsToCome'
    BY <1>1, <1>3, <1>6, <1>7, StatementIsDone DEF WriteFunc
  <1>9. PairsAreLinked'
    BY <1>7, PairsStayLinked DEF IInv, WriteFunc
  <1>10. ActivatedIffCounted' /\ CountedIsSubmitted'
    BY DEF IInv, WriteFunc, ActivatedIffCounted, CountedIsSubmitted
  <1> QED
    BY <1>3, <1>4, <1>5, <1>8, <1>9, <1>10 DEF IInv

LEMMA WriteStateKeepsIt == ASSUME IInv, WriteState PROVE IInv'
  <1>1. /\ TypeOK /\ OneRowPerFunc /\ LinksToCome /\ CountsToCome /\ ResultsToCome
        /\ LinksResolve
        /\ todo # <<>> /\ todo' = Tail(todo) /\ Head(todo).do = "state"
    BY DEF IInv, WriteState, Runs, Idle
  <1>2. /\ todo' \in Seq(Statements)
        /\ Head(todo).funcID \in Funcs /\ Head(todo).state \in FuncStates
    BY <1>1, Shift, Fields
  <1>3. /\ funcsInGroup' \in Seq(FuncRow) /\ DOMAIN funcsInGroup' = DOMAIN funcsInGroup
        /\ \A r \in DOMAIN funcsInGroup : funcsInGroup'[r].funcID = funcsInGroup[r].funcID
        /\ OneRowPerFunc'
    BY <1>1, <1>2, RowsAreUpdated DEF WriteState
  <1>4. TypeOK'
    BY <1>1, <1>2, <1>3 DEF WriteState, TypeOK, FuncRow
  <1>5. LinksResolve'
    BY <1>1, <1>3, LinksStillResolve DEF WriteState
  <1>6. \A id \in Funcs : HasRow(funcsInGroup, id) => HasRow(funcsInGroup', id)
    BY <1>3 DEF HasRow
  <1>7. \A id, k : HasLink(funcsInGroup, funcsInGroup_key, id, k)
                   => HasLink(funcsInGroup', funcsInGroup_key', id, k)
    BY <1>1, <1>3, LinksStay DEF WriteState
  <1>8. LinksToCome' /\ CountsToCome' /\ ResultsToCome'
    BY <1>1, <1>6, <1>7, StatementIsDone DEF WriteState
  <1>9. PairsAreLinked'
    BY <1>7, PairsStayLinked DEF IInv, WriteState
  <1>10. ActivatedIffCounted' /\ CountedIsSubmitted'
    BY DEF IInv, WriteState, ActivatedIffCounted, CountedIsSubmitted
  <1> QED
    BY <1>3, <1>4, <1>5, <1>8, <1>9, <1>10 DEF IInv

LEMMA WriteDependsKeepsIt == ASSUME IInv, WriteDepends PROVE IInv'
  <1>1. /\ TypeOK /\ LinksToCome /\ CountsToCome /\ ResultsToCome
        /\ todo # <<>> /\ todo' = Tail(todo) /\ Head(todo).do = "depends"
    BY DEF IInv, WriteDepends, Runs, Idle
  <1>2. todo' \in Seq(Statements)
    BY <1>1, Shift
  <1>3. TypeOK'
    BY <1>1, <1>2 DEF WriteDepends, TypeOK, Rows
  <1>4. LinksToCome' /\ CountsToCome' /\ ResultsToCome'
    BY <1>1, StatementIsDone DEF WriteDepends
  <1>5. /\ OneRowPerFunc' /\ ActivatedIffCounted' /\ LinksResolve' /\ PairsAreLinked'
        /\ CountedIsSubmitted'
    BY DEF IInv, WriteDepends, OneRowPerFunc, ActivatedIffCounted, LinksResolve,
       PairsAreLinked, CountedIsSubmitted
  <1> QED
    BY <1>3, <1>4, <1>5 DEF IInv

LEMMA WriteKeyKeepsIt == ASSUME IInv, WriteKey PROVE IInv'
  <1> DEFINE k == Head(todo).key
             new == [state |-> "inLine", ref |-> 0]
  <1>1. /\ TypeOK /\ LinksToCome /\ CountsToCome /\ ResultsToCome
        /\ LinksResolve /\ PairsAreLinked /\ ActivatedIffCounted
        /\ todo # <<>> /\ todo' = Tail(todo) /\ Head(todo).do = "key"
    BY DEF IInv, WriteKey, Runs, Idle
  <1>2. todo' \in Seq(Statements) /\ k \in Keys
    BY <1>1, Shift, Fields
  <1>3. /\ keys \in [Keys -> KeyRow \union {None}]
        /\ keys' = [keys EXCEPT ![k] = IF keys[k] = None THEN new ELSE keys[k]]
    BY <1>1 DEF WriteKey, TypeOK
  <1>4. new \in KeyRow /\ None \notin KeyRow
    BY ActivationAssumption DEF KeyRow
  <1>5. keys' \in [Keys -> KeyRow \union {None}]
    BY <1>3, <1>4
  <1>6. \A q \in Keys : keys'[q] = keys[q] \/ keys'[q] = new
    BY <1>3
  <1>7. keys'[k] # None /\ \A q \in Keys : keys[q] # None => keys'[q] # None
    BY <1>2, <1>3, <1>4
  <1>8. TypeOK'
    BY <1>1, <1>2, <1>5 DEF WriteKey, TypeOK
  <1>9. LinksToCome' /\ CountsToCome' /\ ResultsToCome'
    BY <1>1, <1>7, StatementIsDone DEF WriteKey
  <1>10. LinksResolve'
    BY <1>1, <1>7, LinksStillResolve DEF WriteKey
  <1>11. ActivatedIffCounted'
    BY <1>1, <1>6 DEF ActivatedIffCounted
  <1>12. PairsAreLinked'
    BY <1>1 DEF PairsAreLinked, WriteKey
  <1>13. OneRowPerFunc' /\ CountedIsSubmitted'
    BY DEF IInv, WriteKey, OneRowPerFunc, CountedIsSubmitted
  <1> QED
    BY <1>8, <1>9, <1>10, <1>11, <1>12, <1>13 DEF IInv

LEMMA WriteLinkKeepsIt == ASSUME IInv, WriteLink PROVE IInv'
  <1> DEFINE k == Head(todo).key
             id == Head(todo).funcID
             new == Rows(id) \X {k}
  <1>1. /\ TypeOK /\ LinksToCome /\ CountsToCome /\ ResultsToCome
        /\ LinksResolve /\ PairsAreLinked
        /\ todo # <<>> /\ todo' = Tail(todo) /\ Head(todo).do = "link"
    BY DEF IInv, WriteLink, Runs, Idle
  <1>2. todo' \in Seq(Statements) /\ k \in Keys /\ id \in Funcs
    BY <1>1, Shift, Fields
  <1>3. Planned(id, k) /\ keys[k] # None /\ HasRow(funcsInGroup, id)
    BY <1>1, NothingToCome
  <1>4. funcsInGroup_key' = funcsInGroup_key \union new
    BY DEF WriteLink
  <1>5. \A link \in new : link \in (DOMAIN funcsInGroup) \X Keys /\ link[2] = k
                          /\ funcsInGroup[link[1]].funcID = id
    BY <1>2 DEF Rows
  <1>6. \E link \in new : funcsInGroup[link[1]].funcID = id /\ link[2] = k
    <2>1. PICK r \in DOMAIN funcsInGroup : funcsInGroup[r].funcID = id
      BY <1>3 DEF HasRow
    <2>2. <<r, k>> \in new /\ <<r, k>>[1] = r /\ <<r, k>>[2] = k
      BY <2>1 DEF Rows
    <2> QED
      BY <2>1, <2>2
  <1> HIDE DEF new, k, id
  <1>7. TypeOK'
    BY <1>1, <1>2, <1>4, <1>5 DEF WriteLink, TypeOK
  <1>8. /\ HasLink(funcsInGroup', funcsInGroup_key', id, k)
        /\ \A i, q : HasLink(funcsInGroup, funcsInGroup_key, i, q)
                     => HasLink(funcsInGroup', funcsInGroup_key', i, q)
    BY <1>4, <1>6 DEF HasLink, WriteLink
  <1>9. LinksToCome' /\ CountsToCome' /\ ResultsToCome'
    BY <1>1, <1>8, StatementIsDone DEF WriteLink, k, id
  <1>10. LinksResolve'
    <2>1. \A link \in funcsInGroup_key \union new :
             keys[link[2]] # None /\ Planned(funcsInGroup[link[1]].funcID, link[2])
      BY <1>1, <1>3, <1>5 DEF LinksResolve, Planned
    <2> QED
      BY <1>4, <2>1 DEF LinksResolve, Planned, WriteLink
  <1>11. PairsAreLinked'
    BY <1>1, <1>8, PairsStayLinked DEF WriteLink
  <1>12. OneRowPerFunc' /\ ActivatedIffCounted' /\ CountedIsSubmitted'
    BY DEF IInv, WriteLink, OneRowPerFunc, ActivatedIffCounted, CountedIsSubmitted
  <1> QED
    BY <1>7, <1>9, <1>10, <1>11, <1>12 DEF IInv

LEMMA WriteResultKeepsIt == ASSUME IInv, WriteResult PROVE IInv'
  <1> DEFINE a == Head(todo).trace
  <1>1. /\ TypeOK /\ LinksToCome /\ CountsToCome /\ ResultsToCome
        /\ CountedIsSubmitted /\ PairsAreLinked
        /\ todo # <<>> /\ todo' = Tail(todo) /\ Head(todo).do = "result"
    BY DEF IInv, WriteResult, Runs, Idle
  <1>2. todo' \in Seq(Statements) /\ a \in Traces
    BY <1>1, Shift, Fields
  <1>3. /\ activation \in [Traces -> {"none", "pending", "submitted"}]
        /\ activation' = [activation EXCEPT ![a] = "submitted"]
    BY <1>1 DEF WriteResult, TypeOK
  <1>4. activation'[a] = "submitted" /\ \A b \in Traces : b # a => activation'[b] = activation[b]
    BY <1>2, <1>3
  <1>5. TypeOK'
    BY <1>1, <1>2, <1>3 DEF WriteResult, TypeOK
  <1>6. LinksToCome' /\ CountsToCome' /\ ResultsToCome'
    BY <1>1, <1>4, StatementIsDone DEF WriteResult
  <1>7. CountedIsSubmitted'
    BY <1>1, <1>4 DEF CountedIsSubmitted, WriteResult, TypeOK
  <1>8. PairsAreLinked'
    <2>1. \A pair \in RecordedPairs(a) :
             HasLink(funcsInGroup, funcsInGroup_key, pair[1], pair[2])
      BY <1>1, NothingToCome
    <2> HIDE DEF a
    <2> QED
      BY <1>1, <1>4, <2>1 DEF PairsAreLinked, WriteResult
  <1>9. OneRowPerFunc' /\ ActivatedIffCounted' /\ LinksResolve'
    BY DEF IInv, WriteResult, OneRowPerFunc, ActivatedIffCounted, LinksResolve
  <1> QED
    BY <1>5, <1>6, <1>7, <1>8, <1>9 DEF IInv

LEMMA WriteRefKeepsIt == ASSUME IInv, WriteRef PROVE IInv'
  <1> DEFINE k == Head(todo).key
             a == Head(todo).trace
             row(q) == Counted(keys[q], Head(todo).action)
  <1>1. /\ TypeOK /\ LinksToCome /\ CountsToCome /\ ResultsToCome
        /\ LinksResolve /\ PairsAreLinked /\ ActivatedIffCounted /\ CountedIsSubmitted
        /\ todo # <<>> /\ todo' = Tail(todo) /\ Head(todo).do = "ref"
    BY DEF IInv, WriteRef, Runs, Idle
  <1>2. todo' \in Seq(Statements) /\ k \in Keys /\ a \in Traces
    BY <1>1, Shift, Fields
  <1>3. activation[a] = "submitted"
    BY <1>1, NothingToCome
  <1>4. /\ keys \in [Keys -> KeyRow \union {None}]
        /\ keys' = [keys EXCEPT ![k] = IF keys[k] = None THEN None ELSE row(k)]
        /\ counted' = IF keys[k] = None THEN counted ELSE counted \union {a}
    BY <1>1 DEF WriteRef, TypeOK
  <1>5. \A q \in Keys : keys[q] \in KeyRow =>
          row(q) \in KeyRow /\ (row(q).state = "activated" <=> row(q).ref > 0)
    BY CountedIsSound
  <1>6. \A q \in Keys : q # k => keys'[q] = keys[q]
    BY <1>4
  <1>7. keys'[k] = keys[k] \/ (keys[k] \in KeyRow /\ keys'[k] = row(k))
    BY <1>2, <1>4
  <1>8. None \notin KeyRow
    BY ActivationAssumption DEF KeyRow
  <1> HIDE DEF row, k, a
  <1>9. keys' \in [Keys -> KeyRow \union {None}]
    BY <1>2, <1>4, <1>5
  <1>10. \A q \in Keys : keys[q] # None => keys'[q] # None
    BY <1>2, <1>5, <1>6, <1>7, <1>8
  <1>11. TypeOK'
    BY <1>1, <1>2, <1>4, <1>9 DEF WriteRef, TypeOK
  <1>12. LinksToCome' /\ CountsToCome' /\ ResultsToCome'
    BY <1>1, <1>10, StatementIsDone DEF WriteRef
  <1>13. LinksResolve'
    BY <1>1, <1>10, LinksStillResolve DEF WriteRef
  <1>14. ActivatedIffCounted'
    BY <1>1, <1>2, <1>5, <1>6, <1>7 DEF ActivatedIffCounted
  <1>15. PairsAreLinked'
    BY <1>1 DEF PairsAreLinked, WriteRef
  <1>16. CountedIsSubmitted'
    BY <1>1, <1>3, <1>4 DEF CountedIsSubmitted, WriteRef
  <1>17. OneRowPerFunc'
    BY DEF IInv, WriteRef, OneRowPerFunc
  <1> QED
    BY <1>11, <1>12, <1>13, <1>14, <1>15, <1>16, <1>17 DEF IInv

LEMMA StepKeepsIt == ASSUME IInv, [Next]_vars PROVE IInv'
  <1>1. CASE UNCHANGED vars
    <2>1. TypeOK' /\ LinksToCome' /\ CountsToCome' /\ ResultsToCome' /\ OneRowPerFunc' /\ LinksResolve'
      BY <1>1 DEF IInv, vars, TypeOK, LinksToCome, CountsToCome, ResultsToCome, OneRowPerFunc,
         LinksResolve
    <2>2. ActivatedIffCounted' /\ PairsAreLinked' /\ CountedIsSubmitted'
      BY <1>1 DEF IInv, vars, ActivatedIffCounted, PairsAreLinked, CountedIsSubmitted
    <2> QED
      BY <2>1, <2>2 DEF IInv
  <1>2. CASE Statement
    BY <1>2, WriteFuncKeepsIt, WriteStateKeepsIt, WriteDependsKeepsIt, WriteKeyKeepsIt,
       WriteLinkKeepsIt, WriteResultKeepsIt, WriteRefKeepsIt DEF Statement
  <1>3. CASE Next /\ ~Statement
    BY <1>3, DeliverKeepsIt, SaveKeepsIt, SetFuncInfoKeepsIt, InterruptKeepsIt DEF Next
  <1> QED
    BY <1>1, <1>2, <1>3

\* Every reachable state satisfies the inductive invariant.
THEOREM Invariance == Spec => []IInv
  BY StartsSound, StepKeepsIt, PTL DEF Spec

-----------------------------------------------------------------------------
(* The properties. *)

\* Rows, links and statements stay what the tables and save_activations_result() declare.
THEOREM TypeCorrect == Spec => []TypeOK
  BY Invariance, PTL DEF IInv

\* The SELECT count(*) before each INSERT leaves one row per function, although the two are
\* statements of their own, since one thread calls.
THEOREM FunctionsAreNotRepeated == Spec => []OneRowPerFunc
  BY Invariance, PTL DEF IInv

\* State and count of a key agree after any sequence of activations and deactivations,
\* a deactivation without an activation and an interrupted call included.
THEOREM StateAgreesWithCount == Spec => []ActivatedIffCounted
  BY Invariance, PTL DEF IInv

\* Every row of funcsInGroup_key leads to a key with a row and to a function that a plan
\* gives that key, whatever the plans are: save_activations_result() writes it last.
THEOREM LinksAreFollowed == Spec => []LinksResolve
  BY Invariance, PTL DEF IInv

\* Once the result of an activation is saved, every function that was recorded is linked to
\* every one of its keys, whatever interrupted calls left out and whatever the result says.
THEOREM SubmittedAreLinked == Spec => []SubmittedIsLinked
  <1>1. ASSUME PairsAreLinked PROVE SubmittedIsLinked
    <2> SUFFICES ASSUME NEW a \in Traces, activation[a] = "submitted",
                        NEW func \in RecordedFuncs(a), NEW m \in DOMAIN func.keys
                 PROVE  HasLink(funcsInGroup, funcsInGroup_key, func.funcID, func.keys[m])
      BY DEF SubmittedIsLinked, HasLink
    <2>1. func \in Entries
      <3> DEFINE vf == VisitedFuncs(Plan[a])
      <3>1. vf \in Seq(Entries \union {None}) /\ DOMAIN vf = 1..Len(vf)
        BY VisitedAreEntries
      <3>2. PICK n \in DOMAIN vf : func = vf[n] /\ func # None
        BY DEF RecordedFuncs, Range
      <3> QED
        BY <3>1, <3>2
    <2>2. func.funcID \in Funcs /\ func.keys[m] \in Keys
      BY <2>1 DEF Entries, FuncEntries
    <2>3. << func.funcID, func.keys[m] >> \in RecordedPairs(a)
      BY <2>2 DEF RecordedPairs
    <2> QED
      BY <1>1, <2>3 DEF PairsAreLinked
  <1> QED
    BY <1>1, Invariance, PTL DEF IInv

\* The result is written before the first count, so that an activation that is still
\* reported as pending has none.
THEOREM PendingCountsNothing == Spec => []PendingIsNotCounted
  <1>1. CountedIsSubmitted => PendingIsNotCounted
    BY DEF CountedIsSubmitted, PendingIsNotCounted
  <1> QED
    BY <1>1, Invariance, PTL DEF IInv

=============================================================================
