------------------------- MODULE DataResolverProofs -------------------------
(***************************************************************************)
(* resolve() yields what the paths of a mapping denote, or the exception   *)
(* of the first that denotes nothing, for values nested to any depth and   *)
(* mappings of any size.                                                   *)
(***************************************************************************)
EXTENDS DataResolver, SequenceTheorems, TLAPS

(* An entry is a child, and there is at most one by a key.                 *)
LEMMA ItemIsElement ==
  ASSUME NEW list \in Seq(Objects), NEW n \in Int, NEW w \in Objects
  PROVE  Item(list, n) = w <=> \E i \in DOMAIN list : list[i] = w /\ n \in {i - 1, i - 1 - Len(list)}
<1>1. Len(list) \in Nat /\ DOMAIN list = 1..Len(list)
  OBVIOUS
<1>2. CASE n \in 0..(Len(list) - 1)
  <2>1. Item(list, n) = list[n + 1] /\ n + 1 \in DOMAIN list
    BY <1>1, <1>2 DEF Item
  <2>2. \A i \in DOMAIN list : n \in {i - 1, i - 1 - Len(list)} <=> i = n + 1
    BY <1>1, <1>2
  <2>3. QED
    BY <2>1, <2>2
<1>3. CASE n \in (-Len(list))..(-1)
  <2>1. Item(list, n) = list[Len(list) + n + 1] /\ Len(list) + n + 1 \in DOMAIN list
    BY <1>1, <1>3 DEF Item
  <2>2. \A i \in DOMAIN list : n \in {i - 1, i - 1 - Len(list)} <=> i = Len(list) + n + 1
    BY <1>1, <1>3
  <2>3. QED
    BY <2>1, <2>2
<1>4. CASE n \notin 0..(Len(list) - 1) /\ n \notin (-Len(list))..(-1)
  <2>1. Item(list, n) = None
    BY <1>4 DEF Item
  <2>2. \A i \in DOMAIN list : n \notin {i - 1, i - 1 - Len(list)}
    BY <1>1, <1>4
  <2>3. QED
    BY <2>1, <2>2, ValuesAssumption
<1>5. QED
  BY <1>2, <1>3, <1>4

LEMMA EntryIsChild ==
  ASSUME NEW v \in Objects, NEW key
  PROVE  /\ \A w \in Objects : Child(v, key, w) <=> Entry(v, key) = w
         /\ Entry(v, key) \in Objects \cup {None}
<1>1. CASE Kind[v] = "dict" /\ key \in DOMAIN Fields[v]
  BY <1>1, ValuesAssumption DEF Child, Entry, Dicts
<1>2. CASE Kind[v] = "list" /\ key \in DOMAIN Number
  <2>1. Entry(v, key) = Item(Items[v], Number[key])
    BY <1>2 DEF Entry
  <2>2. Items[v] \in Seq(Objects) /\ Number[key] \in Int
    BY <1>2, ValuesAssumption
  <2>3. Item(Items[v], Number[key]) \in Objects \cup {None}
    BY <2>2 DEF Item
  <2>4. \A w \in Objects : Child(v, key, w) <=>
          \E i \in DOMAIN Items[v] :
            Items[v][i] = w /\ Number[key] \in {i - 1, i - 1 - Len(Items[v])}
    BY <1>2 DEF Child
  <2>5. QED
    BY <2>1, <2>2, <2>3, <2>4, ItemIsElement
<1>3. CASE ~(Kind[v] = "dict" /\ key \in DOMAIN Fields[v]) /\ ~(Kind[v] = "list" /\ key \in DOMAIN Number)
  <2>1. Entry(v, key) = None
    BY <1>3 DEF Entry
  <2>2. \A w \in Objects : ~Child(v, key, w)
    BY <1>3 DEF Child
  <2>3. QED
    BY <2>1, <2>2, ValuesAssumption
<1>4. QED
  BY <1>1, <1>2, <1>3

(* Following no key, one more key, and some of the keys.                   *)
LEMMA LeadsNowhere ==
  ASSUME NEW v \in Objects, NEW w
  PROVE  Leads(v, <<>>, w) <=> w = v
<1>1. Len(<<>>) = 0 /\ DOMAIN <<>> = {}
  OBVIOUS
<1>2. ASSUME w = v
      PROVE  Leads(v, <<>>, w)
  <2> DEFINE trail == [k \in 0..0 |-> v]
  <2>1. trail \in [0..0 -> Objects] /\ trail[0] = v
    OBVIOUS
  <2>2. QED
    BY <1>1, <1>2, <2>1 DEF Leads
<1>3. QED
  BY <1>1, <1>2 DEF Leads

LEMMA LeadsFurther ==
  ASSUME NEW v, NEW path \in Seq(STRING), NEW key \in STRING, NEW w \in Objects
  PROVE  Leads(v, Append(path, key), w) <=>
           \E u \in Objects : Leads(v, path, u) /\ Child(u, key, w)
<1> DEFINE longer == Append(path, key)
           n == Len(path)
<1>1. /\ n \in Nat /\ DOMAIN path = 1..n
      /\ Len(longer) = n + 1 /\ DOMAIN longer = 1..(n + 1)
      /\ longer[n + 1] = key /\ \A k \in 1..n : longer[k] = path[k]
  OBVIOUS
<1> HIDE DEF longer, n
<1>2. ASSUME Leads(v, longer, w)
      PROVE  \E u \in Objects : Leads(v, path, u) /\ Child(u, key, w)
  <2>1. PICK trail \in [0..(n + 1) -> Objects] :
          /\ trail[0] = v /\ trail[n + 1] = w
          /\ \A k \in 1..(n + 1) : Child(trail[k - 1], longer[k], trail[k])
    BY <1>1, <1>2 DEF Leads
  <2> DEFINE shorter == [k \in 0..n |-> trail[k]]
  <2>2. shorter \in [0..n -> Objects] /\ \A k \in 0..n : shorter[k] = trail[k]
    BY <1>1
  <2> HIDE DEF shorter
  <2>3. \A k \in 1..n : Child(shorter[k - 1], path[k], shorter[k])
    <3>1. SUFFICES ASSUME NEW k \in 1..n
                   PROVE  Child(shorter[k - 1], path[k], shorter[k])
      OBVIOUS
    <3>2. k \in 1..(n + 1) /\ k \in 0..n /\ k - 1 \in 0..n
      BY <1>1
    <3>3. Child(trail[k - 1], longer[k], trail[k])
      BY <2>1, <3>2
    <3>4. QED
      BY <1>1, <2>2, <3>2, <3>3
  <2>4. shorter[0] = v /\ shorter[n] = trail[n] /\ trail[n] \in Objects
    BY <1>1, <2>1, <2>2
  <2>5. Leads(v, path, trail[n])
    <3>1. \E t \in [0..n -> Objects] :
            t[0] = v /\ t[n] = trail[n] /\ \A k \in 1..n : Child(t[k - 1], path[k], t[k])
      BY <2>2, <2>3, <2>4
    <3>2. QED
      BY <1>1, <3>1 DEF Leads, n
  <2>6. Child(trail[n], key, w)
    <3>1. n + 1 \in 1..(n + 1) /\ (n + 1) - 1 = n
      BY <1>1
    <3>2. QED
      BY <1>1, <2>1, <3>1
  <2>7. QED
    BY <2>4, <2>5, <2>6
<1>3. ASSUME NEW u \in Objects, Leads(v, path, u), Child(u, key, w)
      PROVE  Leads(v, longer, w)
  <2>1. PICK trail \in [0..n -> Objects] :
          /\ trail[0] = v /\ trail[n] = u
          /\ \A k \in 1..n : Child(trail[k - 1], path[k], trail[k])
    BY <1>1, <1>3 DEF Leads, n
  <2> DEFINE extended == [k \in 0..(n + 1) |-> IF k = n + 1 THEN w ELSE trail[k]]
  <2>2. /\ extended \in [0..(n + 1) -> Objects]
        /\ extended[n + 1] = w /\ \A k \in 0..n : extended[k] = trail[k]
    BY <1>1
  <2> HIDE DEF extended
  <2>3. ASSUME NEW k \in 1..(n + 1)
        PROVE  Child(extended[k - 1], longer[k], extended[k])
    <3>1. CASE k = n + 1
      <4>1. k - 1 = n /\ n \in 0..n
        BY <1>1, <3>1
      <4>2. extended[k - 1] = u /\ extended[k] = w /\ longer[k] = key
        BY <1>1, <2>1, <2>2, <3>1, <4>1
      <4>3. QED
        BY <1>3, <4>2
    <3>2. CASE k \in 1..n
      <4>1. k \in 0..n /\ k - 1 \in 0..n
        BY <1>1, <3>2
      <4>2. extended[k - 1] = trail[k - 1] /\ extended[k] = trail[k] /\ longer[k] = path[k]
        BY <1>1, <2>2, <3>2, <4>1
      <4>3. Child(trail[k - 1], path[k], trail[k])
        BY <2>1, <3>2
      <4>4. QED
        BY <4>2, <4>3
    <3>3. QED
      BY <1>1, <3>1, <3>2
  <2>4. extended[0] = v
    BY <1>1, <2>1, <2>2
  <2>5. QED
    BY <1>1, <2>2, <2>3, <2>4 DEF Leads
<1>4. QED
  BY <1>2, <1>3 DEF longer

LEMMA LeadsThrough ==
  ASSUME NEW v, NEW path \in Seq(STRING), NEW w, Leads(v, path, w), NEW e \in 0..Len(path)
  PROVE  \E u \in Objects : Leads(v, SubSeq(path, 1, e), u)
<1> DEFINE n == Len(path)
           part == SubSeq(path, 1, e)
<1>1. /\ n \in Nat /\ DOMAIN path = 1..n /\ e \in Nat /\ e <= n
      /\ Len(part) = e /\ DOMAIN part = 1..e /\ \A k \in 1..e : part[k] = path[k]
  BY SubSeqProperties
<1> HIDE DEF part
<1>2. PICK trail \in [0..n -> Objects] :
        /\ trail[0] = v
        /\ \A k \in 1..n : Child(trail[k - 1], path[k], trail[k])
  BY <1>1 DEF Leads
<1> DEFINE short == [k \in 0..e |-> trail[k]]
<1>3. short \in [0..e -> Objects] /\ \A k \in 0..e : short[k] = trail[k]
  BY <1>1
<1> HIDE DEF short, n
<1>4. ASSUME NEW k \in 1..e
      PROVE  Child(short[k - 1], part[k], short[k])
  <2>1. k \in 1..n /\ k \in 0..e /\ k - 1 \in 0..e
    BY <1>1
  <2>2. Child(trail[k - 1], path[k], trail[k])
    BY <1>2, <2>1
  <2>3. QED
    BY <1>1, <1>3, <2>1, <2>2
<1>5. short[0] = v /\ short[e] \in Objects
  BY <1>1, <1>2, <1>3
<1>6. Leads(v, part, short[e])
  BY <1>1, <1>3, <1>4, <1>5 DEF Leads
<1>7. QED
  BY <1>5, <1>6 DEF part
-----------------------------------------------------------------------------
(* The keys followed and the keys to follow are two parts of one sequence. *)
LEMMA PrefixGrows ==
  ASSUME NEW seq \in Seq(STRING), NEW d \in Nat, d < Len(seq)
  PROVE  /\ SubSeq(seq, 1, d) \in Seq(STRING) /\ seq[d + 1] \in STRING
         /\ SubSeq(seq, 1, d + 1) = Append(SubSeq(seq, 1, d), seq[d + 1])
<1>1. /\ \A i \in 1..d : seq[i] \in STRING
      /\ \A i \in 1..(d + 1) : seq[i] \in STRING
      /\ d \in Int /\ d + 1 \in Int
  OBVIOUS
<1>2. /\ SubSeq(seq, 1, d) \in Seq(STRING) /\ Len(SubSeq(seq, 1, d)) = d
      /\ \A i \in 1..d : SubSeq(seq, 1, d)[i] = seq[i]
  BY <1>1, SubSeqProperties
<1>3. /\ SubSeq(seq, 1, d + 1) \in Seq(STRING) /\ Len(SubSeq(seq, 1, d + 1)) = d + 1
      /\ \A i \in 1..(d + 1) : SubSeq(seq, 1, d + 1)[i] = seq[i]
  BY <1>1, SubSeqProperties
<1> DEFINE short == SubSeq(seq, 1, d)
           long == SubSeq(seq, 1, d + 1)
<1> HIDE DEF short, long
<1>4. long = Append(short, seq[d + 1])
  <2>1. /\ short \in Seq(STRING) /\ Len(short) = d /\ \A i \in 1..d : short[i] = seq[i]
        /\ long \in Seq(STRING) /\ Len(long) = d + 1 /\ \A i \in 1..(d + 1) : long[i] = seq[i]
    BY <1>2, <1>3 DEF short, long
  <2>2. seq[d + 1] \in STRING
    BY <1>1
  <2>3. Append(short, seq[d + 1]) \in Seq(STRING)
    BY <2>1, <2>2
  <2>4. Len(Append(short, seq[d + 1])) = d + 1
    BY <2>1, <2>2
  <2>5. \A i \in 1..(d + 1) : Append(short, seq[d + 1])[i] = seq[i]
    BY <2>1, <2>2
  <2>6. QED
    BY <2>1, <2>3, <2>4, <2>5, SeqEqual
<1>5. QED
  BY <1>1, <1>2, <1>4 DEF short, long

LEMMA RestShrinks ==
  ASSUME NEW seq \in Seq(STRING), NEW d \in 0..Len(seq)
  PROVE  /\ From(seq, d + 1) \in Seq(STRING)
         /\ From(seq, d + 1) = <<>> <=> d = Len(seq)
         /\ d < Len(seq) => /\ Head(From(seq, d + 1)) = seq[d + 1]
                            /\ Tail(From(seq, d + 1)) = From(seq, d + 2)
<1>1. Len(seq) \in Nat /\ d \in Nat /\ \A i \in (d + 1)..Len(seq) : seq[i] \in STRING
  OBVIOUS
<1>2. /\ From(seq, d + 1) \in Seq(STRING)
      /\ Len(From(seq, d + 1)) = IF d + 1 <= Len(seq) THEN Len(seq) - (d + 1) + 1 ELSE 0
  BY <1>1, SubSeqProperties DEF From
<1>3. From(seq, d + 1) = <<>> <=> d = Len(seq)
  BY <1>1, <1>2
<1>4. ASSUME d < Len(seq)
      PROVE  /\ Head(From(seq, d + 1)) = seq[d + 1]
             /\ Tail(From(seq, d + 1)) = From(seq, d + 2)
  <2>1. d + 1 \in 1..Len(seq) /\ Len(seq) \in (d + 1)..Len(seq) /\ (d + 1) + 1 = d + 2
    BY <1>1, <1>4
  <2>2. QED
    BY <2>1, HeadTailOfSubSeq DEF From
<1>5. QED
  BY <1>2, <1>3, <1>4

(* How many parts of a path name its root.                                 *)
Named(path) == IF path[1] = "$input" THEN 1 ELSE 2

LEMMA KeysOfPath ==
  ASSUME TypeOK, NEW path \in Seq(STRING) \ {<<>>}, Root(path) # None
  PROVE  /\ Named(path) \in 1..Len(path) /\ Root(path) \in Objects
         /\ KeysOf(path) = From(path, Named(path) + 1)
         /\ KeysOf(path) \in Seq(STRING) /\ Len(KeysOf(path)) = Len(path) - Named(path)
         /\ \A i \in 1..Len(KeysOf(path)) : KeysOf(path)[i] = path[Named(path) + i]
<1>1. Len(path) \in Nat \ {0} /\ \A i \in 1..Len(path) : path[i] \in STRING
  OBVIOUS
<1>2. Named(path) \in 1..Len(path)
  BY <1>1 DEF Root, NamesOutput, Named
<1>3. Root(path) \in Objects
  BY DEF Root, TypeOK, Dicts
<1>4. KeysOf(path) = SubSeq(path, Named(path) + 1, Len(path))
  BY DEF KeysOf, Named, From
<1>5. Named(path) + 1 \in Int /\ \A i \in (Named(path) + 1)..Len(path) : path[i] \in STRING
  BY <1>1, <1>2
<1>6. KeysOf(path) \in Seq(STRING)
  BY <1>1, <1>4, <1>5, SubSeqProperties
<1>7. Len(KeysOf(path)) =
        IF Named(path) + 1 <= Len(path) THEN Len(path) - (Named(path) + 1) + 1 ELSE 0
  BY <1>1, <1>4, <1>5, SubSeqProperties
<1>8. Len(KeysOf(path)) = Len(path) - Named(path)
  BY <1>1, <1>2, <1>7
<1>9. \A i \in 1..(Len(path) - (Named(path) + 1) + 1) :
        KeysOf(path)[i] = path[Named(path) + 1 + i - 1]
  BY <1>1, <1>4, <1>5, SubSeqProperties
<1>10. ASSUME NEW i \in 1..Len(KeysOf(path))
       PROVE  KeysOf(path)[i] = path[Named(path) + i]
  <2>1. i \in 1..(Len(path) - (Named(path) + 1) + 1) /\ Named(path) + 1 + i - 1 = Named(path) + i
    BY <1>1, <1>2, <1>8
  <2>2. QED
    BY <1>9, <2>1
<1>11. QED
  BY <1>2, <1>3, <1>4, <1>6, <1>8, <1>10 DEF From

(* A path denotes what its keys lead to from its root.                     *)
LEMMA DenotesFromRoot ==
  ASSUME TypeOK, NEW path \in Seq(STRING) \ {<<>>}, NEW w
  PROVE  Denotes(path, w) <=> Root(path) # None /\ Leads(Root(path), KeysOf(path), w)
<1>1. Len(path) \in Nat \ {0} /\ Head(path) = path[1]
  OBVIOUS
<1>2. /\ input \in Objects /\ input # None
      /\ result \in Objects <=> result \notin {None, Missing}
  BY ValuesAssumption DEF TypeOK, Dicts
<1>3. ASSUME Len(path) > 2
      PROVE  SubSeq(path, 1, 2) = <<"a", "output">> <=> path[1] = "a" /\ path[2] = "output"
  <2>1. \A i \in 1..2 : path[i] \in STRING
    BY <1>3
  <2>2. /\ SubSeq(path, 1, 2) \in Seq(STRING) /\ Len(SubSeq(path, 1, 2)) = 2
        /\ SubSeq(path, 1, 2)[1] = path[1] /\ SubSeq(path, 1, 2)[2] = path[2]
    BY <2>1, SubSeqProperties
  <2>3. /\ <<"a", "output">> \in Seq({"a", "output"})
        /\ Len(<<"a", "output">>) = 2
        /\ <<"a", "output">>[1] = "a"
        /\ <<"a", "output">>[2] = "output"
    OBVIOUS
  <2>4. ASSUME path[1] = "a", path[2] = "output"
        PROVE  SubSeq(path, 1, 2) = <<"a", "output">>
    <3> DEFINE front == SubSeq(path, 1, 2)
               named == <<"a", "output">>
    <3>1. \A i \in 1..Len(front) : front[i] = named[i]
      BY <2>2, <2>3, <2>4
    <3>2. \A i \in 1..2 : path[i] \in {"a", "output"}
      BY <2>4
    <3>3. Len(front) = Len(named) /\ front \in Seq({"a", "output"})
      BY <2>2, <2>3, <3>2, SubSeqProperties
    <3> HIDE DEF front, named
    <3>4. front = named
      BY <2>3, <3>1, <3>3, SeqEqual DEF named
    <3>5. QED
      BY <3>4 DEF front, named
  <2>5. QED
    BY <2>2, <2>3, <2>4
<1>4. CASE path[1] = "$input"
  <2>1. Root(path) = input /\ KeysOf(path) = From(path, 2)
    BY <1>4 DEF Root, KeysOf
  <2>2. QED
    BY <1>1, <1>2, <1>3, <1>4, <2>1 DEF Denotes
<1>5. CASE path[1] = "a"
  <2>1. KeysOf(path) = From(path, 3)
    BY <1>5 DEF KeysOf
  <2>2. Root(path) = IF NamesOutput(path) /\ result \in Objects THEN result ELSE None
    BY <1>2, <1>5 DEF Root
  <2>3. NamesOutput(path) <=> Len(path) > 2 /\ path[2] = "output"
    BY <1>1 DEF NamesOutput
  <2>4. result \in Objects => result # None
    BY <1>2
  <2>5. QED
    BY <1>1, <1>3, <1>5, <2>1, <2>2, <2>3, <2>4 DEF Denotes
<1>6. CASE path[1] \notin {"$input", "a"}
  BY <1>1, <1>3, <1>6 DEF Denotes, Root
<1>7. QED
  BY <1>4, <1>5, <1>6

(* A shorter path with a root is a shorter way from the same root.         *)
LEMMA ShorterPath ==
  ASSUME TypeOK, NEW path \in Seq(STRING) \ {<<>>}, NEW k \in 1..Len(path)
  PROVE  /\ SubSeq(path, 1, k) \in Seq(STRING) \ {<<>>}
         /\ Root(SubSeq(path, 1, k)) # None =>
              /\ Root(path) = Root(SubSeq(path, 1, k)) /\ Named(path) <= k
              /\ KeysOf(SubSeq(path, 1, k)) = SubSeq(KeysOf(path), 1, k - Named(path))
         /\ Root(path) # None /\ (path[1] = "$input" \/ k > 2) => Root(SubSeq(path, 1, k)) # None
<1> DEFINE short == SubSeq(path, 1, k)
<1>1. Len(path) \in Nat /\ k \in Nat /\ k >= 1 /\ \A i \in 1..k : path[i] \in STRING
  OBVIOUS
<1>2. short \in Seq(STRING) /\ Len(short) = k /\ \A i \in 1..k : short[i] = path[i]
  BY <1>1, SubSeqProperties
<1> HIDE DEF short
<1>3. short # <<>> /\ short[1] = path[1]
  BY <1>1, <1>2
<1>4. NamesOutput(short) <=> k > 2 /\ NamesOutput(path)
  BY <1>1, <1>2 DEF NamesOutput
<1>5. Root(short) # None => Root(path) = Root(short)
  BY <1>3, <1>4 DEF Root
<1>6. Root(path) # None /\ (path[1] = "$input" \/ k > 2) => Root(short) # None
  BY <1>3, <1>4 DEF Root
<1>7. ASSUME Root(short) # None
      PROVE  Named(path) <= k /\ KeysOf(short) = SubSeq(KeysOf(path), 1, k - Named(path))
  <2>1. Root(path) # None /\ Named(short) = Named(path)
    BY <1>3, <1>5, <1>7 DEF Named
  <2>2. /\ Named(path) \in 1..k
        /\ KeysOf(short) \in Seq(STRING) /\ Len(KeysOf(short)) = k - Named(path)
        /\ \A i \in 1..Len(KeysOf(short)) : KeysOf(short)[i] = short[Named(path) + i]
    BY <1>2, <1>3, <1>7, <2>1, KeysOfPath
  <2>3. /\ Named(path) \in 1..Len(path)
        /\ KeysOf(path) \in Seq(STRING) /\ Len(KeysOf(path)) = Len(path) - Named(path)
        /\ \A i \in 1..Len(KeysOf(path)) : KeysOf(path)[i] = path[Named(path) + i]
    BY <2>1, KeysOfPath
  <2> DEFINE m == k - Named(path)
  <2>4. m \in Nat /\ m <= Len(KeysOf(path))
    BY <1>1, <2>2, <2>3
  <2>5. \A i \in 1..m : KeysOf(path)[i] \in STRING
    BY <2>3, <2>4
  <2>6. /\ SubSeq(KeysOf(path), 1, m) \in Seq(STRING) /\ Len(SubSeq(KeysOf(path), 1, m)) = m
        /\ \A i \in 1..m : SubSeq(KeysOf(path), 1, m)[i] = KeysOf(path)[i]
    BY <2>4, <2>5, SubSeqProperties
  <2>7. \A i \in 1..m : KeysOf(short)[i] = SubSeq(KeysOf(path), 1, m)[i]
    <3>1. SUFFICES ASSUME NEW i \in 1..m
                   PROVE  KeysOf(short)[i] = SubSeq(KeysOf(path), 1, m)[i]
      OBVIOUS
    <3>2. i \in 1..Len(KeysOf(path)) /\ i \in 1..Len(KeysOf(short)) /\ Named(path) + i \in 1..k
      BY <1>1, <2>2, <2>3, <2>4
    <3>3. QED
      BY <1>2, <2>2, <2>3, <2>6, <3>2
  <2>8. KeysOf(short) = SubSeq(KeysOf(path), 1, m)
    BY <2>2, <2>6, <2>7, SeqEqual
  <2>9. QED
    BY <2>2, <2>8
<1>8. QED
  BY <1>2, <1>3, <1>5, <1>6, <1>7 DEF short

(* A way along the first keys passes through every key before.             *)
LEMMA LeadsPast ==
  ASSUME NEW v, NEW path \in Seq(STRING), NEW e \in 0..Len(path), NEW w,
         Leads(v, SubSeq(path, 1, e), w), NEW d \in Nat, d < e
  PROVE  \E x, u \in Objects : Leads(v, SubSeq(path, 1, d), x) /\ Child(x, path[d + 1], u)
<1> DEFINE front == SubSeq(path, 1, e)
<1>1. Len(path) \in Nat /\ e \in Nat /\ \A i \in 1..e : path[i] \in STRING
  OBVIOUS
<1>2. front \in Seq(STRING) /\ Len(front) = e /\ \A i \in 1..e : front[i] = path[i]
  BY <1>1, SubSeqProperties
<1>3. SubSeq(front, 1, d) = SubSeq(path, 1, d)
  <2>1. /\ \A i \in 1..d : path[i] \in STRING
        /\ \A i \in 1..d : front[i] \in STRING
        /\ \A i \in 1..d : front[i] = path[i]
    BY <1>1, <1>2
  <2>2. /\ SubSeq(path, 1, d) \in Seq(STRING) /\ Len(SubSeq(path, 1, d)) = d
        /\ \A i \in 1..d : SubSeq(path, 1, d)[i] = path[i]
    BY <2>1, SubSeqProperties
  <2> HIDE DEF front
  <2>3. /\ SubSeq(front, 1, d) \in Seq(STRING) /\ Len(SubSeq(front, 1, d)) = d
        /\ \A i \in 1..d : SubSeq(front, 1, d)[i] = front[i]
    BY <2>1, SubSeqProperties
  <2>4. \A i \in 1..d : SubSeq(front, 1, d)[i] = SubSeq(path, 1, d)[i]
    BY <2>1, <2>2, <2>3
  <2>5. QED
    BY <2>2, <2>3, <2>4, SeqEqual
<1>4. Leads(v, front, w)
  OBVIOUS
<1> HIDE DEF front
<1>5. d + 1 \in 0..Len(front) /\ d < Len(front) /\ d + 1 \in 1..e
  BY <1>1, <1>2
<1>6. PICK u \in Objects : Leads(v, SubSeq(front, 1, d + 1), u)
  BY <1>2, <1>4, <1>5, LeadsThrough
<1>7. /\ SubSeq(front, 1, d) \in Seq(STRING) /\ front[d + 1] \in STRING
      /\ SubSeq(front, 1, d + 1) = Append(SubSeq(front, 1, d), front[d + 1])
  BY <1>2, <1>5, PrefixGrows
<1>8. PICK x \in Objects : Leads(v, SubSeq(front, 1, d), x) /\ Child(x, front[d + 1], u)
  BY <1>6, <1>7, LeadsFurther
<1>9. front[d + 1] = path[d + 1]
  BY <1>2, <1>5
<1>10. QED
  BY <1>3, <1>8, <1>9
-----------------------------------------------------------------------------
(* The first d of the keys lead from v to u, and to nothing else, as they  *)
(* do up to each key before.                                               *)
Reached(v, ks, d, u) ==
  /\ Leads(v, SubSeq(ks, 1, d), u)
  /\ \A e \in 0..d, x, y \in Objects :
       Leads(v, SubSeq(ks, 1, e), x) /\ Leads(v, SubSeq(ks, 1, e), y) => x = y

LEMMA ReachedNothing ==
  ASSUME NEW v \in Objects, NEW ks \in Seq(STRING)
  PROVE  Reached(v, ks, 0, v)
<1>1. SubSeq(ks, 1, 0) = <<>>
  BY SubSeqEmpty
<1>2. \A x : Leads(v, SubSeq(ks, 1, 0), x) <=> x = v
  BY <1>1, LeadsNowhere
<1>3. \A e \in 0..0 : e = 0
  OBVIOUS
<1>4. QED
  BY <1>2, <1>3 DEF Reached

LEMMA ReachedFurther ==
  ASSUME NEW v, NEW ks \in Seq(STRING), NEW d \in Nat, d < Len(ks),
         NEW u \in Objects, Reached(v, ks, d, u), Entry(u, ks[d + 1]) \in Objects
  PROVE  Reached(v, ks, d + 1, Entry(u, ks[d + 1]))
<1> DEFINE w == Entry(u, ks[d + 1])
<1>1. /\ SubSeq(ks, 1, d) \in Seq(STRING) /\ ks[d + 1] \in STRING
      /\ SubSeq(ks, 1, d + 1) = Append(SubSeq(ks, 1, d), ks[d + 1])
  BY PrefixGrows
<1>2. Child(u, ks[d + 1], w)
  BY EntryIsChild
<1>3. Leads(v, SubSeq(ks, 1, d + 1), w)
  <2>1. Leads(v, SubSeq(ks, 1, d), u) /\ w \in Objects
    BY DEF Reached
  <2> HIDE DEF w
  <2>2. Leads(v, Append(SubSeq(ks, 1, d), ks[d + 1]), w)
    BY <1>1, <1>2, <2>1, LeadsFurther
  <2>3. QED
    BY <1>1, <2>2
<1>4. ASSUME NEW x \in Objects, Leads(v, SubSeq(ks, 1, d + 1), x)
      PROVE  x = w
  <2>1. PICK z \in Objects : Leads(v, SubSeq(ks, 1, d), z) /\ Child(z, ks[d + 1], x)
    BY <1>1, <1>4, LeadsFurther
  <2>2. d \in 0..d
    OBVIOUS
  <2>3. z = u
    BY <2>1, <2>2 DEF Reached
  <2>4. QED
    BY <2>1, <2>3, EntryIsChild
<1>5. ASSUME NEW e \in 0..(d + 1), NEW x \in Objects, NEW y \in Objects,
             Leads(v, SubSeq(ks, 1, e), x), Leads(v, SubSeq(ks, 1, e), y)
      PROVE  x = y
  <2>1. CASE e = d + 1
    BY <1>4, <1>5, <2>1
  <2>2. CASE e \in 0..d
    BY <1>5, <2>2 DEF Reached
  <2>3. QED
    BY <2>1, <2>2
<1>6. QED
  BY <1>3, <1>5 DEF Reached

(* Where the next key has no entry, no longer way leads anywhere.          *)
LEMMA NothingBeyond ==
  ASSUME NEW v, NEW ks \in Seq(STRING), NEW d \in Nat, NEW u \in Objects, Reached(v, ks, d, u),
         Entry(u, ks[d + 1]) = None, NEW e \in 0..Len(ks), d < e, NEW w
  PROVE  ~Leads(v, SubSeq(ks, 1, e), w)
<1>1. SUFFICES ASSUME Leads(v, SubSeq(ks, 1, e), w)
               PROVE  FALSE
  OBVIOUS
<1>2. PICK x, y \in Objects : Leads(v, SubSeq(ks, 1, d), x) /\ Child(x, ks[d + 1], y)
  BY <1>1, LeadsPast
<1>3. d \in 0..d
  OBVIOUS
<1>4. x = u
  BY <1>2, <1>3 DEF Reached
<1>5. Entry(u, ks[d + 1]) = y
  BY <1>2, <1>4, EntryIsChild
<1>6. QED
  BY <1>5, ValuesAssumption
-----------------------------------------------------------------------------
(* The inductive invariant: what is resolved is what the paths denote, the *)
(* traversal has followed the first keys of the next path, and whatever    *)
(* was raised was raised rightly.                                          *)
Following ==
  current # None =>
    /\ Len(resolved) < Len(mapping)
    /\ LET path == mapping[Len(resolved) + 1]
       IN  /\ Root(path) # None
           /\ \E d \in 0..Len(KeysOf(path)) :
                keys = From(KeysOf(path), d + 1) /\ Reached(Root(path), KeysOf(path), d, current)

ResolverInv ==
  /\ TypeOK
  /\ Len(resolved) <= Len(mapping)
  /\ \A i \in 1..Len(resolved) : Denotes(mapping[i], resolved[i])
  /\ outcome = "resolved" => Len(resolved) = Len(mapping)
  /\ Following
  /\ FirstFailureDecides

(* The path that is being followed, or is to be followed next.             *)
LEMMA NextPath ==
  ASSUME TypeOK, Len(resolved) < Len(mapping)
  PROVE  /\ Len(resolved) \in Nat /\ Len(mapping) \in Nat
         /\ Len(resolved) + 1 \in DOMAIN mapping
         /\ mapping[Len(resolved) + 1] \in Seq(STRING) \ {<<>>}
<1>1. mapping \in Seq(Seq(STRING) \ {<<>>}) /\ resolved \in Seq(Objects)
  BY ValuesAssumption DEF TypeOK
<1>2. QED
  BY <1>1

(* A path without a root denotes nothing.                                  *)
LEMMA RootlessFails ==
  ASSUME TypeOK, NEW path \in Seq(STRING) \ {<<>>}, Root(path) = None
  PROVE  \A w \in Objects : ~Denotes(path, w)
BY DenotesFromRoot

(* A path one of whose keys has no entry denotes nothing, and the error is *)
(* a ValueError only when that key is a word and indexes a list.           *)
LEMMA KeylessFails ==
  ASSUME TypeOK, NEW path \in Seq(STRING) \ {<<>>}, Root(path) # None,
         NEW d \in 0..Len(KeysOf(path)), d < Len(KeysOf(path)), NEW u \in Objects,
         Reached(Root(path), KeysOf(path), d, u), Entry(u, KeysOf(path)[d + 1]) = None
  PROVE  /\ \A w \in Objects : ~Denotes(path, w)
         /\ Error(u, KeysOf(path)[d + 1]) = "ValueError" => IndexesListByWord(path)
<1> DEFINE ks == KeysOf(path)
           n == Named(path)
           key == ks[d + 1]
<1>1. /\ n \in 1..Len(path) /\ Root(path) \in Objects
      /\ ks \in Seq(STRING) /\ Len(ks) = Len(path) - n
      /\ \A i \in 1..Len(ks) : ks[i] = path[n + i]
  BY KeysOfPath
<1>2. Len(path) \in Nat /\ Len(ks) \in Nat /\ d \in Nat /\ n \in Nat /\ DOMAIN path = 1..Len(path)
  BY <1>1
<1>3. \A e \in 0..Len(ks) : d < e => \A w : ~Leads(Root(path), SubSeq(ks, 1, e), w)
  BY <1>1, <1>2, NothingBeyond
<1>4. \A w \in Objects : ~Denotes(path, w)
  <2>1. SubSeq(ks, 1, Len(ks)) = ks
    BY <1>1, SubSeqFull
  <2>2. Len(ks) \in 0..Len(ks) /\ d < Len(ks)
    BY <1>2
  <2> HIDE DEF ks
  <2>3. \A w : ~Leads(Root(path), SubSeq(ks, 1, Len(ks)), w)
    BY <1>3, <2>2
  <2>4. QED
    BY <2>1, <2>3, DenotesFromRoot DEF ks
<1>5. Error(u, key) = "ValueError" => Kind[u] = "list" /\ key \notin DOMAIN Number
  BY DEF Error
<1>6. ASSUME Kind[u] = "list", key \notin DOMAIN Number
      PROVE  IndexesListByWord(path)
  <2> DEFINE k == n + d + 1
             short == SubSeq(path, 1, n + d)
  <2>1. /\ k \in DOMAIN path /\ k > 1 /\ k - 1 = n + d /\ n + d \in 1..Len(path)
        /\ (n + d) - n = d /\ path[k] = key
    <3>1. d + 1 \in 1..Len(ks) /\ n + (d + 1) = k
      BY <1>2
    <3>2. QED
      BY <1>1, <1>2, <3>1
  <2>2. path[1] = "$input" \/ n + d > 2
    <3>1. SUFFICES ASSUME path[1] # "$input"
                   PROVE  n + d > 2
      OBVIOUS
    <3>2. n = 2 /\ Root(path) \in Dicts
      BY <3>1 DEF Named, Root, TypeOK
    <3>3. d # 0
      <4>1. SUFFICES ASSUME d = 0
                     PROVE  FALSE
        OBVIOUS
      <4>2. Leads(Root(path), SubSeq(ks, 1, 0), u)
        BY <4>1 DEF Reached
      <4>3. SubSeq(ks, 1, 0) = <<>>
        BY SubSeqEmpty
      <4>4. u = Root(path)
        BY <1>1, <4>2, <4>3, LeadsNowhere
      <4>5. QED
        BY <1>6, <3>2, <4>4 DEF Dicts
    <3>4. QED
      BY <1>2, <3>2, <3>3
  <2>3. /\ short \in Seq(STRING) \ {<<>>} /\ Root(short) # None /\ Root(path) = Root(short)
        /\ KeysOf(short) = SubSeq(ks, 1, d)
    BY <2>1, <2>2, ShorterPath
  <2>4. Leads(Root(short), KeysOf(short), u)
    BY <2>3 DEF Reached
  <2> HIDE DEF short
  <2>5. Denotes(short, u)
    BY <2>3, <2>4, DenotesFromRoot
  <2>6. QED
    BY <1>6, <2>1, <2>5 DEF IndexesListByWord, short
<1>7. QED
  BY <1>4, <1>5, <1>6
-----------------------------------------------------------------------------
LEMMA ResolverInvInitially ==
  Init => ResolverInv
BY DEF Init, ResolverInv, TypeOK, Following, FirstFailureDecides, Dicts

(* No step changes the call, and with it what a path denotes.              *)
LEMMA CallUnchanged ==
  ASSUME UNCHANGED <<mapping, input, result>>
  PROVE  /\ \A path : /\ Root(path)' = Root(path)
                      /\ IndexesListByWord(path)' = IndexesListByWord(path)
         /\ \A path, w : Denotes(path, w)' = Denotes(path, w)
BY DEF Root, IndexesListByWord, Denotes

LEMMA BeginPathKeeps ==
  ASSUME ResolverInv, BeginPath
  PROVE  ResolverInv'
<1> DEFINE path == mapping[Len(resolved) + 1]
<1>1. TypeOK /\ outcome = "pending" /\ current = None /\ Len(resolved) < Len(mapping)
  BY DEF ResolverInv, BeginPath
<1>2. path \in Seq(STRING) \ {<<>>} /\ Len(resolved) + 1 \in DOMAIN mapping
  BY <1>1, NextPath
<1>3. UNCHANGED <<mapping, input, result, resolved>>
  BY DEF BeginPath, Raise
<1>4. CASE Root(path) = None /\ Raise("DataResolverError")
  <2>1. TypeOK' /\ Following'
    BY <1>1, <1>4 DEF TypeOK, Following, Raise
  <2>2. FirstFailureDecides'
    <3>1. \A w \in Objects : ~Denotes(path, w)
      BY <1>1, <1>2, <1>4, RootlessFails
    <3>2. \A i \in 1..(Len(resolved) + 1 - 1) : Denotes(mapping[i], resolved[i])
      BY DEF ResolverInv, TypeOK
    <3>3. QED
      BY <1>2, <1>3, <1>4, <3>1, <3>2, CallUnchanged DEF FirstFailureDecides, Raise
  <2>3. QED
    BY <1>3, <1>4, <2>1, <2>2, CallUnchanged DEF ResolverInv, Raise
<1>5. CASE /\ Root(path) # None
           /\ current' = Root(path) /\ keys' = KeysOf(path)
           /\ UNCHANGED <<mapping, input, result, resolved, outcome>>
  <2>1. /\ Named(path) \in 1..Len(path) /\ Root(path) \in Objects
        /\ KeysOf(path) \in Seq(STRING)
    BY <1>1, <1>2, <1>5, KeysOfPath
  <2>2. TypeOK'
    BY <1>1, <1>5, <2>1 DEF TypeOK
  <2>3. From(KeysOf(path), 1) = KeysOf(path)
    BY <2>1, SubSeqFull DEF From
  <2>4. Reached(Root(path), KeysOf(path), 0, Root(path))
    BY <2>1, ReachedNothing
  <2>5. \E d \in 0..Len(KeysOf(path)) :
          keys' = From(KeysOf(path), d + 1) /\ Reached(Root(path), KeysOf(path), d, current')
    <3>1. 0 \in 0..Len(KeysOf(path)) /\ 0 + 1 = 1
      BY <2>1
    <3>2. QED
      BY <1>5, <2>3, <2>4, <3>1
  <2>6. Following'
    BY <1>1, <1>5, <2>5, CallUnchanged DEF Following
  <2>7. QED
    BY <1>1, <1>5, <2>2, <2>6, CallUnchanged DEF ResolverInv, FirstFailureDecides
<1>6. QED
  BY <1>4, <1>5 DEF BeginPath

LEMMA FollowKeyKeeps ==
  ASSUME ResolverInv, FollowKey
  PROVE  ResolverInv'
<1> DEFINE path == mapping[Len(resolved) + 1]
           ks == KeysOf(path)
<1>1. /\ TypeOK /\ outcome = "pending" /\ current \in Objects /\ keys # <<>>
      /\ Len(resolved) < Len(mapping) /\ Root(path) # None
  BY DEF ResolverInv, FollowKey, Following, TypeOK
<1>2. path \in Seq(STRING) \ {<<>>} /\ Len(resolved) + 1 \in DOMAIN mapping
  BY <1>1, NextPath
<1>3. ks \in Seq(STRING) /\ Root(path) \in Objects
  BY <1>1, <1>2, KeysOfPath
<1>4. PICK d \in 0..Len(ks) : keys = From(ks, d + 1) /\ Reached(Root(path), ks, d, current)
  BY <1>1, ValuesAssumption DEF ResolverInv, Following
<1> HIDE DEF ks
<1>5. d \in Nat /\ Len(ks) \in Nat /\ d < Len(ks) /\ d + 1 \in 0..Len(ks)
  <2>1. d # Len(ks)
    BY <1>1, <1>3, <1>4, RestShrinks
  <2>2. QED
    BY <1>3, <2>1
<1>6. Head(keys) = ks[d + 1] /\ Tail(keys) = From(ks, d + 2)
  BY <1>3, <1>4, <1>5, RestShrinks
<1>7. UNCHANGED <<mapping, input, result, resolved>>
  BY DEF FollowKey, Raise
<1>8. CASE /\ Entry(current, ks[d + 1]) # None
           /\ current' = Entry(current, ks[d + 1])
           /\ keys' = From(ks, d + 2)
           /\ UNCHANGED <<mapping, input, result, resolved, outcome>>
  <2>1. Entry(current, ks[d + 1]) \in Objects
    BY <1>1, <1>8, EntryIsChild
  <2>2. Reached(Root(path), ks, d + 1, current')
    BY <1>1, <1>3, <1>4, <1>5, <1>8, <2>1, ReachedFurther
  <2>3. keys' = From(ks, (d + 1) + 1) /\ From(ks, (d + 1) + 1) \in Seq(STRING)
    <3>1. (d + 1) + 1 = d + 2
      BY <1>5
    <3>2. QED
      BY <1>3, <1>5, <1>8, <3>1, RestShrinks
  <2>4. TypeOK'
    BY <1>1, <1>8, <2>1, <2>3 DEF TypeOK
  <2>5. Following'
    <3>1. \E e \in 0..Len(ks) : keys' = From(ks, e + 1) /\ Reached(Root(path), ks, e, current')
      BY <1>5, <2>2, <2>3
    <3>2. QED
      BY <1>1, <1>8, <3>1, CallUnchanged DEF Following, ks
  <2>6. QED
    BY <1>1, <1>8, <2>4, <2>5, CallUnchanged DEF ResolverInv, FirstFailureDecides
<1>9. CASE Entry(current, ks[d + 1]) = None /\ Raise(Error(current, ks[d + 1]))
  <2>1. TypeOK'
    BY <1>1, <1>9 DEF TypeOK, Raise, Error
  <2>2. Following'
    BY <1>9, CallUnchanged DEF ResolverInv, Following, Raise, KeysOf
  <2>3. /\ \A w \in Objects : ~Denotes(path, w)
        /\ Error(current, ks[d + 1]) = "ValueError" => IndexesListByWord(path)
    BY <1>1, <1>2, <1>4, <1>5, <1>9, KeylessFails DEF ks
  <2>4. \A i \in 1..(Len(resolved) + 1 - 1) : Denotes(mapping[i], resolved[i])
    BY <1>1 DEF ResolverInv, TypeOK
  <2>5. FirstFailureDecides'
    BY <1>2, <1>7, <1>9, <2>3, <2>4, CallUnchanged DEF FirstFailureDecides, Raise
  <2>6. outcome' # "resolved"
    BY <1>9 DEF Raise, Error
  <2>7. QED
    BY <1>7, <2>1, <2>2, <2>5, <2>6, CallUnchanged DEF ResolverInv
<1>10. QED
  BY <1>6, <1>8, <1>9 DEF FollowKey

LEMMA EndPathKeeps ==
  ASSUME ResolverInv, EndPath
  PROVE  ResolverInv'
<1> DEFINE path == mapping[Len(resolved) + 1]
           ks == KeysOf(path)
<1>1. /\ TypeOK /\ outcome = "pending" /\ current \in Objects /\ keys = <<>>
      /\ Len(resolved) < Len(mapping) /\ Root(path) # None
  BY DEF ResolverInv, EndPath, Following, TypeOK
<1>2. path \in Seq(STRING) \ {<<>>} /\ Len(resolved) \in Nat /\ Len(mapping) \in Nat
  BY <1>1, NextPath
<1>3. ks \in Seq(STRING)
  BY <1>1, <1>2, KeysOfPath
<1>4. PICK d \in 0..Len(ks) : keys = From(ks, d + 1) /\ Reached(Root(path), ks, d, current)
  BY <1>1, ValuesAssumption DEF ResolverInv, Following
<1>5. Leads(Root(path), ks, current)
  <2> HIDE DEF ks
  <2>1. d = Len(ks)
    BY <1>1, <1>3, <1>4, RestShrinks
  <2>2. SubSeq(ks, 1, Len(ks)) = ks
    BY <1>3, SubSeqFull
  <2>3. QED
    BY <1>4, <2>1, <2>2 DEF Reached
<1>6. Denotes(path, current)
  BY <1>1, <1>2, <1>5, DenotesFromRoot
<1>7. /\ resolved' = Append(resolved, current) /\ current' = None
      /\ UNCHANGED <<mapping, input, result, keys, outcome>>
  BY DEF EndPath
<1>8. /\ Len(resolved') = Len(resolved) + 1 /\ resolved' \in Seq(Objects)
      /\ \A i \in 1..Len(resolved) : resolved'[i] = resolved[i]
      /\ resolved'[Len(resolved) + 1] = current
  BY <1>1, <1>7 DEF TypeOK
<1>9. TypeOK' /\ Following'
  BY <1>1, <1>7, <1>8 DEF TypeOK, Following
<1>10. ASSUME NEW i \in 1..Len(resolved')
       PROVE  Denotes(mapping[i], resolved'[i])
  <2>1. CASE i \in 1..Len(resolved)
    BY <1>8, <2>1 DEF ResolverInv
  <2>2. CASE i = Len(resolved) + 1
    BY <1>6, <1>8, <2>2
  <2>3. QED
    BY <1>2, <1>8, <2>1, <2>2
<1>11. Len(resolved') <= Len(mapping)
  BY <1>1, <1>2, <1>8
<1>12. QED
  BY <1>1, <1>7, <1>9, <1>10, <1>11, CallUnchanged DEF ResolverInv, FirstFailureDecides

LEMMA ReturnKeeps ==
  ASSUME ResolverInv, Return
  PROVE  ResolverInv'
<1>1. /\ outcome = "pending" /\ current = None /\ Len(resolved) = Len(mapping)
      /\ outcome' = "resolved"
      /\ UNCHANGED <<mapping, input, result, current, keys, resolved>>
  BY DEF Return
<1>2. TypeOK' /\ Following'
  BY <1>1 DEF ResolverInv, TypeOK, Following
<1>3. QED
  BY <1>1, <1>2, CallUnchanged DEF ResolverInv, FirstFailureDecides

LEMMA NothingKeeps ==
  ASSUME ResolverInv, UNCHANGED vars
  PROVE  ResolverInv'
<1>1. /\ UNCHANGED <<mapping, input, result>>
      /\ current' = current /\ keys' = keys /\ resolved' = resolved /\ outcome' = outcome
  BY DEF vars
<1>2. TypeOK' /\ Following'
  BY <1>1, CallUnchanged DEF ResolverInv, TypeOK, Following, KeysOf
<1>3. FirstFailureDecides'
  BY <1>1, CallUnchanged DEF ResolverInv, FirstFailureDecides
<1>4. QED
  BY <1>1, <1>2, <1>3, CallUnchanged DEF ResolverInv

LEMMA ResolverInvariant ==
  Spec => []ResolverInv
<1>1. ASSUME ResolverInv, [Next]_vars
      PROVE  ResolverInv'
  <2>1. CASE BeginPath
    BY <1>1, <2>1, BeginPathKeeps
  <2>2. CASE FollowKey
    BY <1>1, <2>2, FollowKeyKeeps
  <2>3. CASE EndPath
    BY <1>1, <2>3, EndPathKeeps
  <2>4. CASE Return
    BY <1>1, <2>4, ReturnKeeps
  <2>5. CASE UNCHANGED vars
    BY <1>1, <2>5, NothingKeeps
  <2>6. QED
    BY <1>1, <2>1, <2>2, <2>3, <2>4, <2>5 DEF Next
<1>2. QED
  BY <1>1, ResolverInvInitially, PTL DEF Spec

(* The variables of resolve() keep their types.                            *)
THEOREM ResolverTypesHold ==
  Spec => []TypeOK
<1>1. ResolverInv => TypeOK
  BY DEF ResolverInv
<1>2. QED
  BY <1>1, ResolverInvariant, PTL

(* The payload holds, for each parameter, the value its path denotes.      *)
THEOREM PayloadIsWhatPathsDenote ==
  Spec => []ResolvesWhatPathsDenote
<1>1. ResolverInv => ResolvesWhatPathsDenote
  <2>1. ASSUME ResolverInv, outcome = "resolved"
        PROVE  DOMAIN mapping = 1..Len(resolved) /\ Len(resolved) = Len(mapping)
    <3>1. mapping \in Seq(Seq(STRING) \ {<<>>})
      BY <2>1, ValuesAssumption DEF ResolverInv, TypeOK
    <3>2. QED
      BY <2>1, <3>1 DEF ResolverInv
  <2>2. QED
    BY <2>1 DEF ResolverInv, ResolvesWhatPathsDenote
<1>2. QED
  BY <1>1, ResolverInvariant, PTL

(* resolve() raises for the first path that denotes nothing, a ValueError  *)
(* only when a word indexes a list on its way.                             *)
THEOREM FirstBadPathRaises ==
  Spec => []FirstFailureDecides
<1>1. ResolverInv => FirstFailureDecides
  BY DEF ResolverInv
<1>2. QED
  BY <1>1, ResolverInvariant, PTL

(* A mapping that names a node resolves only when its output has entries.  *)
THEOREM OutputIsNeeded ==
  Spec => []NeedsNonEmptyOutput
<1>1. ASSUME ResolverInv, outcome = "resolved", NEW i \in DOMAIN mapping, Head(mapping[i]) = "a"
      PROVE  result \in Dicts /\ DOMAIN Fields[result] # {}
  <2> DEFINE path == mapping[i]
             ks == KeysOf(path)
  <2>1. TypeOK /\ mapping \in Seq(Seq(STRING) \ {<<>>}) /\ Len(resolved) = Len(mapping)
    BY <1>1, ValuesAssumption DEF ResolverInv, TypeOK
  <2>2. path \in Seq(STRING) \ {<<>>} /\ i \in 1..Len(resolved)
    BY <2>1
  <2>3. Denotes(path, resolved[i])
    BY <1>1, <2>2 DEF ResolverInv
  <2>4. Root(path) # None /\ Leads(Root(path), ks, resolved[i])
    BY <2>1, <2>2, <2>3, DenotesFromRoot
  <2>5. path[1] = "a"
    BY <1>1, <2>2
  <2>6. Root(path) = result /\ result \in Dicts /\ Named(path) = 2 /\ Len(path) >= 3
    BY <2>1, <2>4, <2>5 DEF Root, Named, NamesOutput, TypeOK
  <2>7. ks \in Seq(STRING) /\ Len(ks) = Len(path) - 2
    BY <2>1, <2>2, <2>4, <2>6, KeysOfPath
  <2> HIDE DEF ks
  <2>8. Len(ks) \in 0..Len(ks) /\ 0 < Len(ks) /\ SubSeq(ks, 1, Len(ks)) = ks
    <3>1. Len(path) \in Nat /\ Len(ks) \in Nat
      BY <2>2, <2>7
    <3>2. SubSeq(ks, 1, Len(ks)) = ks
      BY <2>7, SubSeqFull
    <3>3. QED
      BY <2>6, <2>7, <3>1, <3>2
  <2>9. PICK x, y \in Objects : Leads(result, SubSeq(ks, 1, 0), x) /\ Child(x, ks[0 + 1], y)
    BY <2>4, <2>6, <2>7, <2>8, LeadsPast
  <2>10. x = result
    <3>1. SubSeq(ks, 1, 0) = <<>> /\ result \in Objects
      BY <2>6, SubSeqEmpty DEF Dicts
    <3>2. QED
      BY <2>9, <3>1, LeadsNowhere
  <2>11. QED
    BY <2>6, <2>9, <2>10 DEF Child, Dicts
<1>2. ResolverInv => NeedsNonEmptyOutput
  BY <1>1 DEF NeedsNonEmptyOutput
<1>3. QED
  BY <1>2, ResolverInvariant, PTL
=============================================================================
