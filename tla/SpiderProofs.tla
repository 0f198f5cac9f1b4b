---------------------------- MODULE SpiderProofs -----------------------------
(***************************************************************************)
(* Theorems about Supervisor, for all types of consumers, any number of    *)
(* gunicorn workers, of deaths and of strangers, and about                 *)
(* DatabaseManager, for every set of databases and every number of         *)
(* creations, removals, clicks, kills and crashes.                         *)
(***************************************************************************)
EXTENDS Supervisor, DatabaseManager, SequenceTheorems, FiniteSetTheorems, TLAPS

-----------------------------------------------------------------------------
(* The keys and the consumers.                                             *)

\* Sixteen types are finitely many.
LEMMA FourFinite == \A a, b, c, d : IsFiniteSet({a, b, c, d})
  <1> TAKE a, b, c, d
  <1>1. IsFiniteSet({a})
    BY FS_Singleton
  <1>2. IsFiniteSet({a} \cup {b})
    BY <1>1, FS_AddElement
  <1>3. IsFiniteSet(({a} \cup {b}) \cup {c})
    BY <1>2, FS_AddElement
  <1>4. IsFiniteSet((({a} \cup {b}) \cup {c}) \cup {d})
    BY <1>3, FS_AddElement
  <1>5. {a, b, c, d} = (({a} \cup {b}) \cup {c}) \cup {d}
    OBVIOUS
  <1> QED
    BY <1>4, <1>5

\* The types are finitely many.
LEMMA TypesFinite == IsFiniteSet(qkey_map) /\ IsFiniteSet(Types)
  <1> DEFINE A == {<<"metrics", "timer">>, <<"metrics", "flow">>, <<"metrics", "counter">>,
                   <<"vnode", "status">>}
             B == {<<"xsync", "interval">>, <<"kadinfo">>, <<"p2pbroadcast">>, <<"txpool", "state">>}
             C == {<<"txpool", "receipt">>, <<"txpool", "cache">>, <<"metrics", "alarm">>,
                   <<"metrics", "array", "counter">>}
             D == {<<"p2ptest", "sendrecord">>, <<"p2ptest", "send", "info">>,
                   <<"p2ptest", "recv", "info">>, <<"relayer", "gas">>}
  <1>1. IsFiniteSet(A) /\ IsFiniteSet(B) /\ IsFiniteSet(C) /\ IsFiniteSet(D)
    BY FourFinite
  <1>2. qkey_map = (A \cup B) \cup (C \cup D)
    BY Zenon DEF qkey_map
  <1> HIDE DEF A, B, C, D
  <1>3. IsFiniteSet(A \cup B) /\ IsFiniteSet(C \cup D)
    BY <1>1, FS_Union
  <1>4. IsFiniteSet(qkey_map)
    BY <1>2, <1>3, FS_Union
  <1> QED
    BY <1>4, FS_Subset, KeysAssumption

Words == {"metrics", "timer", "flow", "counter", "vnode", "status", "xsync", "interval",
          "kadinfo", "p2pbroadcast", "txpool", "state", "receipt", "cache", "alarm", "array",
          "p2ptest", "sendrecord", "send", "info", "recv", "relayer", "gas",
          "topargus", "list"}

\* Tuples are sequences.
LEMMA OneWord == \A S : \A a \in S : <<a>> \in Seq(S)
  BY SMT
\* Likewise.
LEMMA TwoWords == \A S : \A a, b \in S : <<a, b>> \in Seq(S)
  BY SMT
\* Likewise.
LEMMA ThreeWords == \A S : \A a, b, c \in S : <<a, b, c>> \in Seq(S)
  BY SMT

\* The names of types are sequences of words.
LEMMA TypeNames == qkey_map \subseteq Seq(Words) /\ queue_key_base \in Seq(Words)
  <1>1. /\ <<"kadinfo">> \in Seq(Words) /\ <<"p2pbroadcast">> \in Seq(Words)
    BY OneWord DEF Words
  <1>2. /\ <<"metrics", "timer">> \in Seq(Words) /\ <<"metrics", "flow">> \in Seq(Words)
        /\ <<"metrics", "counter">> \in Seq(Words) /\ <<"vnode", "status">> \in Seq(Words)
        /\ <<"xsync", "interval">> \in Seq(Words) /\ <<"txpool", "state">> \in Seq(Words)
    BY TwoWords DEF Words
  <1>3. /\ <<"txpool", "receipt">> \in Seq(Words) /\ <<"txpool", "cache">> \in Seq(Words)
        /\ <<"metrics", "alarm">> \in Seq(Words) /\ <<"p2ptest", "sendrecord">> \in Seq(Words)
        /\ <<"relayer", "gas">> \in Seq(Words)
    BY TwoWords DEF Words
  <1>4. /\ <<"metrics", "array", "counter">> \in Seq(Words)
        /\ <<"p2ptest", "send", "info">> \in Seq(Words)
        /\ <<"p2ptest", "recv", "info">> \in Seq(Words)
        /\ <<"topargus", "alarm", "list">> \in Seq(Words)
    BY ThreeWords DEF Words
  <1> QED
    BY <1>1, <1>2, <1>3, <1>4, Zenon DEF qkey_map, queue_key_base

\* A key has the name of its type in it.
LEMMA KeyContains ==
    ASSUME NEW t \in Seq(Words)
    PROVE  Contains(queue_key_base \o t, t)
  <1> DEFINE k == queue_key_base \o t
             s == SubSeq(k, 3 + 1, 3 + Len(t))
  <1>1. queue_key_base \in Seq(Words) /\ Len(queue_key_base) = 3
    <2>1. Len(<<"topargus", "alarm", "list">>) = 3
      OBVIOUS
    <2> QED
      BY <2>1, TypeNames DEF queue_key_base
  <1>2. /\ k \in Seq(Words) /\ Len(k) = 3 + Len(t) /\ Len(t) \in Nat
        /\ \A i \in 1..Len(k) : k[i] = IF i <= 3 THEN queue_key_base[i] ELSE t[i - 3]
    <2> DEFINE b == queue_key_base
    <2>1. b \in Seq(Words) /\ Len(b) = 3 /\ Len(t) \in Nat
      BY <1>1, LenProperties
    <2> HIDE DEF b
    <2>2. /\ b \o t \in Seq(Words) /\ Len(b \o t) = Len(b) + Len(t)
          /\ \A i \in 1..(Len(b) + Len(t)) :
                 (b \o t)[i] = IF i <= Len(b) THEN b[i] ELSE t[i - Len(b)]
      BY <2>1, ConcatProperties
    <2> QED
      BY <2>1, <2>2 DEF b
  <1> HIDE DEF k
  <1>3. /\ s \in Seq(Words) /\ Len(s) = Len(t)
        /\ \A i \in 1..Len(t) : s[i] = k[3 + 1 + i - 1]
    BY <1>2, SubSeqProperties
  <1>4. \A i \in 1..Len(t) : s[i] = t[i]
    <2> SUFFICES ASSUME NEW i \in 1..Len(t) PROVE s[i] = t[i]
      OBVIOUS
    <2>1. s[i] = k[3 + i]
      BY <1>2, <1>3
    <2> QED
      BY <1>2, <2>1
  <1>5. s = t
    BY <1>3, <1>4, SeqEqual
  <1>6. 3 \in 0..(Len(k) - Len(t))
    BY <1>2
  <1>7. Contains(k, t)
    BY <1>5, <1>6 DEF Contains
  <1> QED
    BY <1>7 DEF k

\* No other type's name is in it, so each type has one consumer, and main_consumer.py
\* starts as many as there are types, whichever are chosen (main_consumer.py:42-174).
LEMMA OneForEach ==
    /\ Cardinality(consumer_list) = Cardinality(Types)
    /\ Cardinality(Types) \in Nat \ {0}
  <1> DEFINE f == [t \in Types |-> <<t, queue_key_base \o t>>]
  <1>1. Types \subseteq qkey_map /\ Types # {}
    BY KeysAssumption
  <1>2. ASSUME NEW t \in Types PROVE f[t] \in consumer_list
    <2>1. Contains(queue_key_base \o t, t)
      BY <1>1, TypeNames, KeyContains
    <2> QED
      BY <2>1 DEF consumer_list, Assigned, all_queue_keys
  <1>3. ASSUME NEW p \in consumer_list PROVE \E t \in Types : f[t] = p
    <2>1. /\ p \in Types \X all_queue_keys(Types) /\ Contains(p[2], p[1])
      BY DEF consumer_list, Assigned
    <2>2. PICK t \in Types : p[2] = queue_key_base \o t
      BY <2>1 DEF all_queue_keys
    <2>3. p[2] \in all_queue_keys(qkey_map) /\ Contains(p[2], t)
      BY <1>1, <2>2, TypeNames, KeyContains DEF all_queue_keys
    <2> DEFINE S == {u \in qkey_map : Contains(p[2], u)}
    <2>4. Cardinality(S) = 1 /\ t \in S /\ p[1] \in S
      BY <1>1, <2>1, <2>3, KeysAssumption
    <2>5. IsFiniteSet(S)
      BY TypesFinite, FS_Subset
    <2> HIDE DEF S
    <2>6. p[1] = t
      BY <2>4, <2>5, FS_Singleton
    <2>7. p = <<p[1], p[2]>>
      BY <2>1
    <2> QED
      BY <2>2, <2>6, <2>7
  <1>4. ASSUME NEW t \in Types, NEW u \in Types, f[t] = f[u] PROVE t = u
    BY <1>4
  <1>5. f \in Bijection(Types, consumer_list)
    <2>1. f \in [Types -> consumer_list]
      BY <1>2
    <2>2. IsInjective(f)
      BY <1>4 DEF IsInjective
    <2> HIDE DEF f
    <2> QED
      BY <1>3, <1>4, <2>1, <2>2 DEF Bijection, Injection, Surjection
  <1>6. Cardinality(consumer_list) = Cardinality(Types)
    BY <1>5, TypesFinite, FS_Bijection DEF ExistsBijection
  <1>7. Cardinality(Types) \in Nat /\ Cardinality(Types) # 0
    BY <1>1, TypesFinite, FS_CardinalityType, FS_EmptySet
  <1> QED
    BY <1>6, <1>7
-----------------------------------------------------------------------------
(* The processes of one component: A are there, U are due, M are doomed.    *)

Roles(c) == {Shell, Main, Stranger} \cup Children[c]
AnyProc == [gen : Nat, role : Int]
Sprung(c, A) == UNION {Offspring(c, p) : p \in A}

\* Starts are numbered from 1.  What is due has its parent there, and a program that is
\* due has nothing of its start there but its shell.
Tidy(c, A, U, M) ==
    /\ A \subseteq AnyProc /\ IsFiniteSet(A) /\ M \subseteq A
    /\ \A p \in A : p.role \in Roles(c) /\ (p.role = Stranger <=> p.gen = 0)
    /\ U \subseteq Sprung(c, A) \ A
    /\ \A p \in U : p.role = Main => \A q \in A : q.gen = p.gen => q.role = Shell

\* The number of children of a component.
LEMMA ChildrenAre ==
    /\ DOMAIN Children = Components
    /\ \A c \in Components : Children[c] \subseteq Nat \ {0}
    /\ Children["spider"] = {}
    /\ \E n \in Nat \ {0} : /\ Children["consumer"] = 1..n
                            /\ Expected["consumer"] = n + 1
  <1>1. Cardinality(consumer_list) \in Nat \ {0}
    BY OneForEach
  <1>2. Expected["consumer"] = Cardinality(consumer_list) + 1
    BY OneForEach DEF Expected, consumer_process_count
  <1> QED
    BY <1>1, <1>2, SupervisionBounds DEF Children, Components

\* A shell springs its program, a program its children, and nobody else anything.
LEMMA OffspringIs ==
    ASSUME NEW c, NEW p
    PROVE  /\ p.role = Shell => Offspring(c, p) = {Proc(p.gen, Main)}
           /\ p.role = Main => Offspring(c, p) = {Proc(p.gen, r) : r \in Children[c]}
           /\ p.role \notin {Shell, Main} => Offspring(c, p) = {}
  BY DEF Offspring, Shell, Main

\* The parent of what is due.
LEMMA ParentOf ==
    ASSUME NEW c \in Components, NEW A, NEW U, NEW M, Tidy(c, A, U, M), NEW p \in U
    PROVE  \E q \in A : /\ p \in Offspring(c, q) /\ q.gen = p.gen
                        /\ p = Proc(p.gen, p.role) /\ p \in AnyProc
                        /\ \/ q.role = Shell /\ p.role = Main
                           \/ q.role = Main /\ p.role \in Children[c]
                        /\ p.role \in Roles(c) /\ p.role # Stranger /\ p.gen # 0
  <1>1. PICK q \in A : p \in Offspring(c, q)
    BY DEF Tidy, Sprung
  <1>2. q \in AnyProc /\ q.gen \in Nat /\ (q.role = Stranger <=> q.gen = 0)
    BY DEF Tidy, AnyProc
  <1>3. CASE q.role = Shell
    <2>1. p = Proc(q.gen, Main)
      BY <1>1, <1>3, OffspringIs
    <2> QED
      BY <1>1, <1>2, <1>3, <2>1 DEF Proc, Main, Shell, Stranger, Roles, AnyProc
  <1>4. CASE q.role = Main
    <2>1. PICK r \in Children[c] : p = Proc(q.gen, r)
      BY <1>1, <1>4, OffspringIs
    <2>2. r \in Nat \ {0}
      BY ChildrenAre
    <2> QED
      BY <1>1, <1>2, <1>4, <2>1, <2>2 DEF Proc, Main, Shell, Stranger, Roles, AnyProc
  <1>5. q.role \in {Shell, Main}
    BY <1>1, OffspringIs
  <1> QED
    BY <1>3, <1>4, <1>5

\* Processes end, and what they had to start is not due any more.
LEMMA GoneTidy ==
    ASSUME NEW c \in Components, NEW A, NEW U, NEW M, Tidy(c, A, U, M), NEW S
    PROVE  Tidy(c, A \ S, U \cap Sprung(c, A \ S), M \ S)
  <1>1. IsFiniteSet(A \ S)
    BY FS_Subset DEF Tidy
  <1> QED
    BY <1>1 DEF Tidy

\* What was due is there, and has its own children to start.
LEMMA LaunchTidy ==
    ASSUME NEW c \in Components, NEW A, NEW U, NEW M, Tidy(c, A, U, M), NEW p \in U
    PROVE  Tidy(c, A \cup {p}, (U \ {p}) \cup Offspring(c, p), M)
  <1> DEFINE B == A \cup {p}
             V == (U \ {p}) \cup Offspring(c, p)
  <1>1. PICK q \in A : /\ p \in Offspring(c, q) /\ q.gen = p.gen
                       /\ p = Proc(p.gen, p.role) /\ p \in AnyProc
                       /\ \/ q.role = Shell /\ p.role = Main
                          \/ q.role = Main /\ p.role \in Children[c]
                       /\ p.role \in Roles(c) /\ p.role # Stranger /\ p.gen # 0
    BY ParentOf
  <1>2. IsFiniteSet(B) /\ B \subseteq AnyProc /\ M \subseteq B
    BY <1>1, FS_AddElement DEF Tidy
  <1>3. \A x \in B : x.role \in Roles(c) /\ (x.role = Stranger <=> x.gen = 0)
    BY <1>1 DEF Tidy
  <1>4. V \subseteq Sprung(c, B)
    BY DEF Tidy, Sprung
  <1>5. \A x \in Offspring(c, p) : /\ p.role = Main /\ x.gen = p.gen
                                   /\ x.role \in Children[c] /\ x.role \in Nat \ {0}
    <2>1. CASE p.role = Main
      <3>1. Offspring(c, p) = {Proc(p.gen, r) : r \in Children[c]}
        BY <2>1, OffspringIs
      <3> QED
        BY <2>1, <3>1, ChildrenAre DEF Proc
    <2>2. CASE p.role # Main
      <3>1. p.role \in Nat \ {0}
        BY <1>1, <2>2, ChildrenAre
      <3>2. p.role \notin {Shell, Main}
        BY <3>1 DEF Shell, Main
      <3> QED
        BY <3>2, OffspringIs
    <2> QED
      BY <2>1, <2>2
  <1>6. V \cap B = {}
    <2>1. \A x \in U \ {p} : x \notin B
      BY DEF Tidy
    <2>2. \A x \in Offspring(c, p) : x \notin A /\ x # p
      <3> SUFFICES ASSUME NEW x \in Offspring(c, p) PROVE x \notin A /\ x # p
        OBVIOUS
      <3>1. /\ p.role = Main /\ x.gen = p.gen /\ x.role \in Nat \ {0}
        BY <1>5
      <3>2. \A y \in A : y.gen = p.gen => y.role = Shell
        BY <3>1 DEF Tidy
      <3> QED
        BY <3>1, <3>2 DEF Main, Shell
    <2> QED
      BY <2>1, <2>2
  <1>7. ASSUME NEW x \in V, x.role = Main, NEW y \in B, y.gen = x.gen
        PROVE  y.role = Shell
    <2>1. x \in U /\ x # p
      BY <1>5, <1>7 DEF Main
    <2>2. CASE y \in A
      BY <1>7, <2>1, <2>2 DEF Tidy
    <2>3. CASE y = p
      <3>1. q.role = Shell
        BY <1>1, <1>7, <2>1, <2>3 DEF Tidy
      <3>2. p.role = Main
        BY <1>1, <3>1 DEF Main, Shell
      <3>3. x = Proc(x.gen, x.role)
        BY <2>1, ParentOf
      <3> QED
        BY <1>1, <1>7, <2>1, <2>3, <3>2, <3>3
    <2> QED
      BY <2>2, <2>3
  <1> QED
    BY <1>2, <1>3, <1>4, <1>6, <1>7 DEF Tidy

\* A stranger is no process of a start.
LEMMA ComeTidy ==
    ASSUME NEW c \in Components, NEW A, NEW U, NEW M, Tidy(c, A, U, M)
    PROVE  Tidy(c, A \cup {TheStranger}, U, M)
  <1>1. /\ TheStranger \in AnyProc /\ TheStranger.role = Stranger /\ TheStranger.gen = 0
        /\ Stranger \in Roles(c)
    BY DEF TheStranger, Proc, AnyProc, Stranger, Roles
  <1>2. IsFiniteSet(A \cup {TheStranger})
    BY FS_AddElement DEF Tidy
  <1>3. TheStranger \notin U /\ \A p \in U : p.gen # 0
    BY <1>1, ParentOf
  <1> QED
    BY <1>1, <1>2, <1>3 DEF Tidy, Sprung

\* gunicorn is about to replace a worker.
LEMMA ReplaceTidy ==
    ASSUME NEW c \in Components, NEW A, NEW U, NEW M, Tidy(c, A, U, M),
           NEW p \in A, p.role \in Children[c], Proc(p.gen, Main) \in A
    PROVE  Tidy(c, A \ {p}, U \cup {p}, M \ {p})
  <1> DEFINE m == Proc(p.gen, Main)
  <1>1. p.role \in Nat \ {0} /\ p \in AnyProc
    BY ChildrenAre DEF Tidy
  <1>2. m.role = Main /\ m.gen = p.gen /\ m # p /\ p = Proc(p.gen, p.role)
    BY <1>1 DEF Proc, Main, AnyProc
  <1>3. p \in Offspring(c, m)
    BY <1>2, OffspringIs
  <1>4. \A x \in U : \E q \in A \ {p} : x \in Offspring(c, q)
    <2> SUFFICES ASSUME NEW x \in U PROVE \E q \in A \ {p} : x \in Offspring(c, q)
      OBVIOUS
    <2>1. PICK q \in A : x \in Offspring(c, q) /\ q.role \in {Shell, Main}
      BY ParentOf
    <2> QED
      BY <1>1, <2>1 DEF Shell, Main
  <1>5. U \cup {p} \subseteq Sprung(c, A \ {p}) \ (A \ {p})
    BY <1>2, <1>3, <1>4 DEF Tidy, Sprung
  <1>6. IsFiniteSet(A \ {p})
    BY FS_RemoveElement DEF Tidy
  <1>7. p.role # Main
    BY <1>1 DEF Main
  <1> QED
    BY <1>5, <1>6, <1>7 DEF Tidy

\* kill is given more processes.
LEMMA SnapshotTidy ==
    ASSUME NEW c, NEW A, NEW U, NEW M, Tidy(c, A, U, M)
    PROVE  Tidy(c, A, U, M \cup A)
  BY DEF Tidy

\* A start has a number no process has.
LEMMA StartTidy ==
    ASSUME NEW c \in Components, NEW A, NEW U, NEW M, Tidy(c, A, U, M),
           NEW g \in Nat \ {0}, \A p \in A : p.gen # g
    PROVE  Tidy(c, A \cup {Proc(g, Shell)}, U \cup Offspring(c, Proc(g, Shell)), M)
  <1> DEFINE s == Proc(g, Shell)
             m == Proc(g, Main)
  <1>1. /\ s.role = Shell /\ s.gen = g /\ m.role = Main /\ m.gen = g /\ s # m
        /\ s \in AnyProc /\ Shell \in Roles(c) /\ Shell # Stranger
    BY DEF Proc, Shell, Main, AnyProc, Roles, Stranger
  <1>2. Offspring(c, s) = {m}
    BY <1>1, OffspringIs
  <1>3. IsFiniteSet(A \cup {s})
    BY FS_AddElement DEF Tidy
  <1>4. \A p \in U : p.gen # g
    BY ParentOf
  <1>5. U \cup {m} \subseteq Sprung(c, A \cup {s}) \ (A \cup {s})
    <2>1. U \cup {m} \subseteq Sprung(c, A \cup {s})
      BY <1>2 DEF Tidy, Sprung
    <2>2. m \notin A
      BY <1>1
    <2> HIDE DEF s, m
    <2> QED
      BY <1>1, <1>4, <2>1, <2>2 DEF Tidy
  <1>6. ASSUME NEW p \in U \cup {m}, p.role = Main, NEW q \in A \cup {s}, q.gen = p.gen
        PROVE  q.role = Shell
    BY <1>1, <1>4, <1>6 DEF Tidy
  <1>7. /\ A \cup {s} \subseteq AnyProc /\ M \subseteq A \cup {s}
        /\ \A p \in A \cup {s} : p.role \in Roles(c) /\ (p.role = Stranger <=> p.gen = 0)
    <2> HIDE DEF s
    <2> QED
      BY <1>1 DEF Tidy
  <1> QED
    BY <1>2, <1>3, <1>5, <1>6, <1>7 DEF Tidy

\* A non-empty set of natural numbers has a least element.
LEMMA LeastNumber ==
    ASSUME NEW X, X \subseteq Nat, X # {}
    PROVE  \E x \in X : \A y \in X : x <= y
  <1>1. \E x \in X : \A y \in X : ~(<<y, x>> \in OpToRel(<, Nat))
    BY NatLessThanWellFounded, WFMin
  <1>2. PICK x \in X : \A y \in X : ~(<<y, x>> \in OpToRel(<, Nat))
    BY <1>1
  <1>3. ASSUME NEW y \in X PROVE x <= y
    <2>1. ~(y < x)
      BY <1>2 DEF OpToRel
    <2> QED
      BY <2>1
  <1> QED
    BY <1>3

\* There is such a number.
LEMMA NewGenIsNew ==
    ASSUME NEW c, IsFiniteSet(alive[c]), alive[c] \subseteq AnyProc
    PROVE  NewGen(c) \in Nat \ {0} /\ \A p \in alive[c] : p.gen # NewGen(c)
  <1> DEFINE G == {p.gen : p \in alive[c]}
             used == G \cup {0}
             n == Cardinality(used)
             X == {g \in 1..n : g \notin used}
  <1>1. IsFiniteSet(G)
    <2> DEFINE f == [p \in alive[c] |-> p.gen]
    <2>1. f \in Surjection(alive[c], G)
      BY DEF Surjection
    <2> QED
      BY <2>1, FS_Surjection
  <1>2. IsFiniteSet(used) /\ n \in Nat
    BY <1>1, FS_AddElement, FS_CardinalityType
  <1>3. X # {}
    <2> SUFFICES ASSUME X = {} PROVE FALSE
      OBVIOUS
    <2>1. 0..n \subseteq used
      BY <1>2
    <2>2. IsFiniteSet(0..n) /\ Cardinality(0..n) = n + 1
      BY <1>2, FS_Interval
    <2>3. Cardinality(0..n) <= n
      <3> HIDE DEF used
      <3> QED
        BY <1>2, <2>1, FS_Subset
    <2> QED
      BY <1>2, <2>2, <2>3
  <1>4. PICK g \in X : \A y \in X : g <= y
    <2>1. X \subseteq Nat
      BY <1>2
    <2> HIDE DEF X
    <2>2. \E g \in X : \A y \in X : g <= y
      BY <1>3, <2>1, LeastNumber
    <2> QED
      BY <2>2
  <1>5. g \in 1..n /\ g \notin used /\ 1..(g - 1) \subseteq used
    <2> HIDE DEF used
    <2> QED
      BY <1>2, <1>4
  <1>6. NewGen(c) \in 1..n /\ NewGen(c) \notin used
    <2>1. \E h \in 1..n : h \notin used /\ 1..(h - 1) \subseteq used
      BY <1>5
    <2>2. NewGen(c) = CHOOSE h \in 1..n : h \notin used /\ 1..(h - 1) \subseteq used
      BY Zenon DEF NewGen
    <2> HIDE DEF used, n
    <2> QED
      BY <2>1, <2>2
  <1> QED
    BY <1>2, <1>6
-----------------------------------------------------------------------------
(* The processes of all components, and the two loops.                     *)

Tables ==
    /\ alive \in [Components -> SUBSET AnyProc]
    /\ due \in [Components -> SUBSET AnyProc]
    /\ doomed \in [Components -> SUBSET AnyProc]
    /\ \A c \in Components : Tidy(c, alive[c], due[c], doomed[c])

Doings == {"count", "kill", "start", "launch", "sleep", "down"}

Control ==
    /\ doing \in [Actors -> Doings]
    /\ doing["spider_alive"] # "down"
    /\ at \in 1..RestartDashCall
    /\ counter \in 0..restart_dashboard_interval
    /\ deaths \in Nat /\ strangers \in Nat /\ age \in Nat
    /\ deaths + strangers <= MaxFaults
    /\ restarts \in [Counted -> 0..MaxRestarts]

\* Of a spider: its program runs unless it is down.  spider_alive starts another only
\* when kill has found all that its snapshot held, and looks at it again when it runs.
OneSpider ==
    /\ SpiderMains(alive) = {} <=> doing["spider"] = "down"
    /\ \A p, q \in SpiderMains(alive) : p = q
    /\ \A p, q \in due["spider"] : p = q
    /\ due["spider"] # {} => doing["spider_alive"] = "launch" /\ doing["spider"] = "down"
    /\ doing["spider_alive"] = "start" => SpiderMains(alive) \subseteq doomed["spider"]
    /\ doomed["spider"] # {} => doing["spider_alive"] = "start"
    /\ doing["spider"] = "down" => at = 1 /\ counter = 0

Supervised == Tables /\ Control /\ OneSpider

\* A component's processes change, those of the others do not.
LEMMA TablesStep ==
    ASSUME Tables, NEW c \in Components, NEW A, NEW U, NEW M, Tidy(c, A, U, M),
           alive' = [alive EXCEPT ![c] = A], due' = [due EXCEPT ![c] = U],
           doomed' = [doomed EXCEPT ![c] = M]
    PROVE  Tables'
  <1>1. A \subseteq AnyProc /\ M \subseteq AnyProc
    BY DEF Tidy
  <1>2. U \subseteq AnyProc
    BY ParentOf
  <1>3. /\ alive' \in [Components -> SUBSET AnyProc]
        /\ due' \in [Components -> SUBSET AnyProc]
        /\ doomed' \in [Components -> SUBSET AnyProc]
    BY <1>1, <1>2 DEF Tables
  <1>4. ASSUME NEW d \in Components PROVE Tidy(d, alive'[d], due'[d], doomed'[d])
    <2>1. CASE d = c
      <3>1. alive'[d] = A /\ due'[d] = U /\ doomed'[d] = M
        BY <2>1 DEF Tables
      <3> QED
        BY <2>1, <3>1
    <2>2. CASE d # c
      <3>1. alive'[d] = alive[d] /\ due'[d] = due[d] /\ doomed'[d] = doomed[d]
        BY <2>2 DEF Tables
      <3> QED
        BY <3>1 DEF Tables
    <2> QED
      BY <2>1, <2>2
  <1> QED
    BY <1>3, <1>4 DEF Tables

\* The component an actor looks at.
LEMMA TargetIs ==
    ASSUME Control, NEW a \in Actors
    PROVE  /\ Target(a) \in Components
           /\ Target("spider_alive") = "spider"
           /\ a = "spider" => Target(a) # "spider"
           /\ Target("spider") = "consumer" <=> at = 1
           /\ Target("spider") = "dash" <=> at \in {3, 4}
  <1>1. at = 1 \/ at = 2 \/ at = 3 \/ at = 4
    BY DEF Control, RestartDashCall
  <1>2. a = "spider" \/ a = "spider_alive"
    BY DEF Actors
  <1> QED
    BY <1>1, <1>2 DEF Target, Calls, Components

\* The spider's program is the only thing of it that is ever due.
LEMMA SpiderDue ==
    ASSUME Tables
    PROVE  /\ \A p \in due["spider"] : p.role = Main /\ p = Proc(p.gen, Main) /\ p.gen \in Nat \ {0}
           /\ \A p : p.role = Main => Offspring("spider", p) = {}
  <1>1. "spider" \in Components
    BY DEF Components
  <1>2. Tidy("spider", alive["spider"], due["spider"], doomed["spider"])
    BY <1>1 DEF Tables
  <1>3. \A p \in due["spider"] :
            p.role = Main /\ p = Proc(p.gen, Main) /\ p.gen \in Nat \ {0}
    <2> TAKE p \in due["spider"]
    <2>1. /\ p = Proc(p.gen, p.role) /\ p \in AnyProc /\ p.gen # 0
          /\ p.role = Main \/ p.role \in Children["spider"]
      BY <1>1, <1>2, ParentOf
    <2> QED
      BY <2>1, ChildrenAre DEF AnyProc
  <1>4. ASSUME NEW p, p.role = Main PROVE Offspring("spider", p) = {}
    BY <1>4, ChildrenAre, OffspringIs
  <1> QED
    BY <1>3, <1>4

\* So they are at first.
LEMMA SupervisedInit == SupervisionInit => Supervised
  <1> SUFFICES ASSUME SupervisionInit PROVE Supervised
    OBVIOUS
  <1> DEFINE m == Proc(1, Main)
  <1>1. m \in AnyProc /\ m.role = Main /\ m.gen = 1
    BY DEF Proc, Main, AnyProc
  <1>2. /\ alive["spider"] = {m}
        /\ \A c \in Components : c # "spider" => alive[c] = {}
        /\ \A c \in Components : due[c] = {} /\ doomed[c] = {}
    BY DEF SupervisionInit, Components
  <1> HIDE DEF m
  <1>3. ASSUME NEW c \in Components PROVE Tidy(c, alive[c], due[c], doomed[c])
    <2>1. CASE c = "spider"
      <3>1. alive[c] = {m} /\ due[c] = {} /\ doomed[c] = {}
        BY <1>2, <2>1
      <3>2. m.role \in Roles(c) /\ m.role # Stranger
        BY <1>1 DEF Roles, Main, Stranger
      <3>3. IsFiniteSet({m})
        BY FS_Singleton
      <3> QED
        BY <1>1, <3>1, <3>2, <3>3 DEF Tidy
    <2>2. CASE c # "spider"
      BY <1>2, <2>2, FS_EmptySet DEF Tidy
    <2> QED
      BY <2>1, <2>2
  <1>4. Tables
    BY <1>1, <1>3 DEF Tables, SupervisionInit, m
  <1>5. Control
    BY SupervisionBounds DEF Control, SupervisionInit, Actors, Doings, RestartDashCall, Counted
  <1>6. SpiderMains(alive) = {m} /\ due["spider"] = {} /\ doomed["spider"] = {}
    BY <1>1, <1>2 DEF SpiderMains, Components
  <1>7. doing["spider"] = "count" /\ doing["spider_alive"] = "count"
    BY DEF SupervisionInit, Actors
  <1>8. OneSpider
    BY <1>6, <1>7 DEF OneSpider
  <1> QED
    BY <1>4, <1>5, <1>8 DEF Supervised

\* What it is to be typed follows.
LEMMA SupervisedTyped == Supervised => SupervisionTypeOK
  <1> SUFFICES ASSUME Supervised PROVE SupervisionTypeOK
    OBVIOUS
  <1>1. \A S \in {alive, due, doomed} : DOMAIN S = Components
    BY DEF Supervised, Tables
  <1>2. ASSUME NEW c \in Components
        PROVE  /\ doomed[c] \subseteq alive[c]
               /\ \A p \in alive[c] :
                    p.gen \in Nat /\ p.role \in {Shell, Main, Stranger} \cup Children[c]
               /\ due[c] \subseteq (UNION {Offspring(c, p) : p \in alive[c]}) \ alive[c]
    BY DEF Supervised, Tables, Tidy, AnyProc, Roles, Sprung
  <1>3. Cardinality(SpiderMains(alive)) = IF doing["spider"] = "down" THEN 0 ELSE 1
    <2>1. CASE doing["spider"] = "down"
      BY <2>1, FS_EmptySet DEF Supervised, OneSpider
    <2>2. CASE doing["spider"] # "down"
      <3>1. PICK m : m \in SpiderMains(alive)
        BY <2>2 DEF Supervised, OneSpider
      <3>2. SpiderMains(alive) = {m}
        BY <3>1 DEF Supervised, OneSpider
      <3> QED
        BY <2>2, <3>2, FS_Singleton
    <2> QED
      BY <2>1, <2>2
  <1> QED
    BY <1>1, <1>2, <1>3 DEF SupervisionTypeOK, Supervised, Control, Doings
-----------------------------------------------------------------------------
(* Each action keeps the tables, the loops' state and the one spider.       *)

\* Nothing of the spider changes but what its loop does.
LEMMA SpiderSteady ==
    ASSUME Supervised, Tables', Control',
           alive'["spider"] = alive["spider"], due'["spider"] = due["spider"],
           doomed'["spider"] = doomed["spider"],
           doing["spider"] = "down" <=> doing'["spider"] = "down",
           \/ doing'["spider_alive"] = doing["spider_alive"]
           \/ due["spider"] = {} /\ doomed["spider"] = {} /\ doing'["spider_alive"] # "start",
           doing["spider"] = "down" => at' = at /\ counter' = counter
    PROVE  Supervised'
  <1>1. SpiderMains(alive') = SpiderMains(alive)
    BY DEF SpiderMains
  <1>2. OneSpider'
    BY <1>1 DEF Supervised, OneSpider
  <1> QED
    BY <1>2 DEF Supervised

\* What Gone does.
LEMMA GoneIs ==
    ASSUME Supervised, NEW c \in Components, NEW S, Gone(c, S)
    PROVE  /\ alive'[c] = alive[c] \ S /\ doomed'[c] = doomed[c] \ S
           /\ due'[c] = due[c] \cap Sprung(c, alive[c] \ S)
           /\ \A d \in Components : d # c => /\ alive'[d] = alive[d] /\ due'[d] = due[d]
                                             /\ doomed'[d] = doomed[d]
           /\ Tables'
           /\ \/ /\ UNCHANGED actors
                 /\ SpiderMains(alive') = {} => SpiderMains(alive) = {}
              \/ /\ c = "spider" /\ SpiderMains(alive) # {} /\ SpiderMains(alive') = {}
                 /\ doing' = [doing EXCEPT !["spider"] = "down"] /\ at' = 1 /\ counter' = 0
  <1> DEFINE A == alive[c] \ S
             U == due[c] \cap Sprung(c, alive[c] \ S)
             M == doomed[c] \ S
  <1>1. /\ alive' = [alive EXCEPT ![c] = A] /\ due' = [due EXCEPT ![c] = U]
        /\ doomed' = [doomed EXCEPT ![c] = M]
    BY DEF Gone, Sprung
  <1>2. Tidy(c, A, U, M)
    BY GoneTidy DEF Supervised, Tables
  <1> HIDE DEF A, U, M
  <1>3. Tables'
    BY <1>1, <1>2, TablesStep DEF Supervised
  <1>4. /\ alive'[c] = A /\ due'[c] = U /\ doomed'[c] = M
        /\ \A d \in Components : d # c => /\ alive'[d] = alive[d] /\ due'[d] = due[d]
                                          /\ doomed'[d] = doomed[d]
    BY <1>1 DEF Supervised, Tables
  <1>5. c # "spider" => SpiderMains(alive') = SpiderMains(alive)
    BY <1>4 DEF SpiderMains, Components
  <1>6. \/ UNCHANGED actors /\ ~(SpiderMains(alive) # {} /\ SpiderMains(alive') = {})
        \/ /\ SpiderMains(alive) # {} /\ SpiderMains(alive') = {}
           /\ doing' = [doing EXCEPT !["spider"] = "down"] /\ at' = 1 /\ counter' = 0
    BY DEF Gone
  <1> QED
    BY <1>3, <1>4, <1>5, <1>6 DEF A, U, M

\* When processes end.
LEMMA GoneSupervised ==
    ASSUME Supervised, NEW c \in Components, NEW S, Gone(c, S),
           deaths' \in Nat, strangers' \in Nat, deaths' + strangers' <= MaxFaults,
           UNCHANGED <<restarts, age>>
    PROVE  Supervised'
  <1>1. Tables'
    BY GoneIs
  <1>2. Control'
    <2>1. /\ doing' \in [Actors -> Doings] /\ doing'["spider_alive"] # "down"
          /\ at' \in 1..RestartDashCall /\ counter' \in 0..restart_dashboard_interval
      <3>1. CASE UNCHANGED actors
        BY <3>1 DEF Supervised, Control, actors
      <3>2. CASE doing' = [doing EXCEPT !["spider"] = "down"] /\ at' = 1 /\ counter' = 0
        BY <3>2, SupervisionBounds DEF Supervised, Control, Actors, Doings, RestartDashCall
      <3> QED
        BY <3>1, <3>2, GoneIs
    <2> QED
      BY <2>1 DEF Supervised, Control
  <1>3. CASE c # "spider"
    <2>1. /\ alive'["spider"] = alive["spider"] /\ due'["spider"] = due["spider"]
          /\ doomed'["spider"] = doomed["spider"] /\ UNCHANGED actors
      <3>1. "spider" \in Components
        BY DEF Components
      <3> QED
        BY <1>3, <3>1, GoneIs
    <2>2. doing' = doing /\ at' = at /\ counter' = counter
      BY <2>1 DEF actors
    <2> QED
      BY <1>1, <1>2, <2>1, <2>2, SpiderSteady
  <1>4. CASE c = "spider"
    <2>1. /\ alive'["spider"] = alive["spider"] \ S /\ doomed'["spider"] = doomed["spider"] \ S
          /\ due'["spider"] \subseteq due["spider"]
      BY <1>4, GoneIs
    <2>2. SpiderMains(alive') = SpiderMains(alive) \ S
      BY <2>1 DEF SpiderMains
    <2>3. /\ \A p, q \in SpiderMains(alive') : p = q
          /\ \A p, q \in due'["spider"] : p = q
      BY <2>1, <2>2 DEF Supervised, OneSpider
    <2>4. CASE UNCHANGED actors /\ (SpiderMains(alive') = {} => SpiderMains(alive) = {})
      <3>1. UNCHANGED <<doing, at, counter>>
        BY <2>4 DEF actors
      <3> QED
        BY <1>1, <1>2, <2>1, <2>2, <2>3, <2>4, <3>1 DEF Supervised, OneSpider
    <2>5. CASE /\ SpiderMains(alive) # {} /\ SpiderMains(alive') = {}
               /\ doing' = [doing EXCEPT !["spider"] = "down"] /\ at' = 1 /\ counter' = 0
      <3>1. doing'["spider"] = "down" /\ doing'["spider_alive"] = doing["spider_alive"]
        BY <2>5 DEF Supervised, Control, Actors
      <3>2. due'["spider"] = {}
        BY <2>1, <2>5 DEF Supervised, OneSpider
      <3> QED
        BY <1>1, <1>2, <2>1, <2>2, <2>3, <2>5, <3>1, <3>2 DEF Supervised, OneSpider
    <2>6. \/ UNCHANGED actors /\ (SpiderMains(alive') = {} => SpiderMains(alive) = {})
          \/ /\ SpiderMains(alive) # {} /\ SpiderMains(alive') = {}
             /\ doing' = [doing EXCEPT !["spider"] = "down"] /\ at' = 1 /\ counter' = 0
      BY <1>4, GoneIs
    <2> QED
      BY <2>4, <2>5, <2>6
  <1> QED
    BY <1>3, <1>4

\* When they end by themselves, leave, or are killed.
LEMMA LeavingSupervised ==
    ASSUME Supervised, NEW c \in Components, Exit(c) \/ Leave(c) \/ Kill(c)
    PROVE  Supervised'
  <1>1. PICK S : Gone(c, S) /\ UNCHANGED history
    BY DEF Exit, Leave, Kill
  <1>2. /\ UNCHANGED <<deaths, strangers, restarts, age>>
        /\ deaths \in Nat /\ strangers \in Nat /\ deaths + strangers <= MaxFaults
    BY <1>1 DEF history, Supervised, Control
  <1> QED
    BY <1>1, <1>2, GoneSupervised

\* A program that was due runs.
LEMMA LaunchIs ==
    ASSUME Supervised, NEW c \in Components, Launch(c)
    PROVE  \E p \in due[c] :
             /\ alive'[c] = alive[c] \cup {p}
             /\ due'[c] = (due[c] \ {p}) \cup Offspring(c, p)
             /\ \A d \in Components : d # c => alive'[d] = alive[d] /\ due'[d] = due[d]
             /\ Tables'
             /\ doing' = IF c = "spider" THEN [doing EXCEPT !["spider"] = "count"] ELSE doing
             /\ UNCHANGED <<doomed, at, counter, history>>
  <1>1. PICK p \in due[c] :
             /\ alive' = [alive EXCEPT ![c] = alive[c] \cup {p}]
             /\ due' = [due EXCEPT ![c] = (due[c] \ {p}) \cup Offspring(c, p)]
             /\ doing' = IF c = "spider" THEN [doing EXCEPT !["spider"] = "count"] ELSE doing
             /\ UNCHANGED <<doomed, at, counter, history>>
    BY DEF Launch
  <1> DEFINE A == alive[c] \cup {p}
             U == (due[c] \ {p}) \cup Offspring(c, p)
  <1>2. Tidy(c, A, U, doomed[c])
    BY LaunchTidy DEF Supervised, Tables
  <1>3. doomed' = [doomed EXCEPT ![c] = doomed[c]]
    BY <1>1 DEF Supervised, Tables
  <1>4. alive' = [alive EXCEPT ![c] = A] /\ due' = [due EXCEPT ![c] = U]
    BY <1>1
  <1> HIDE DEF A, U
  <1>5. Tables'
    BY <1>2, <1>3, <1>4, TablesStep DEF Supervised
  <1>6. /\ alive'[c] = A /\ due'[c] = U
        /\ \A d \in Components : d # c => alive'[d] = alive[d] /\ due'[d] = due[d]
    BY <1>4 DEF Supervised, Tables
  <1> QED
    BY <1>1, <1>5, <1>6 DEF A, U

\* When a program runs: the spider, if it is its own, is up again.
LEMMA LaunchSupervised ==
    ASSUME Supervised, NEW c \in Components, Launch(c)
    PROVE  Supervised'
  <1>1. PICK p \in due[c] :
             /\ alive'[c] = alive[c] \cup {p}
             /\ due'[c] = (due[c] \ {p}) \cup Offspring(c, p)
             /\ \A d \in Components : d # c => alive'[d] = alive[d] /\ due'[d] = due[d]
             /\ Tables'
             /\ doing' = IF c = "spider" THEN [doing EXCEPT !["spider"] = "count"] ELSE doing
             /\ UNCHANGED <<doomed, at, counter, history>>
    BY LaunchIs
  <1>2. Control'
    BY <1>1 DEF Supervised, Control, Actors, Doings, history
  <1>3. CASE c # "spider"
    <2>1. "spider" \in Components
      BY DEF Components
    <2>2. doing' = doing /\ at' = at /\ counter' = counter /\ doomed' = doomed
      BY <1>1, <1>3
    <2>3. alive'["spider"] = alive["spider"] /\ due'["spider"] = due["spider"]
      BY <1>1, <1>3, <2>1
    <2> QED
      BY <1>1, <1>2, <2>2, <2>3, SpiderSteady
  <1>4. CASE c = "spider"
    <2>1. p.role = Main /\ Offspring("spider", p) = {}
      BY <1>4, SpiderDue DEF Supervised
    <2>2. due["spider"] = {p} /\ due'["spider"] = {}
      BY <1>1, <1>4, <2>1 DEF Supervised, OneSpider
    <2>3. doing["spider_alive"] = "launch" /\ doing["spider"] = "down" /\ SpiderMains(alive) = {}
      BY <2>2 DEF Supervised, OneSpider
    <2>4. SpiderMains(alive') = {p}
      BY <1>1, <1>4, <2>1, <2>3 DEF SpiderMains
    <2>5. doing'["spider"] = "count" /\ doing'["spider_alive"] = "launch"
      BY <1>1, <1>4, <2>3 DEF Supervised, Control, Actors
    <2>6. doomed'["spider"] = {}
      BY <1>1, <2>3 DEF Supervised, OneSpider
    <2>7. OneSpider'
      BY <2>2, <2>4, <2>5, <2>6 DEF OneSpider
    <2> QED
      BY <1>1, <1>2, <2>7 DEF Supervised
  <1> QED
    BY <1>3, <1>4

\* A process dies: gunicorn replaces it, or it is gone.
LEMMA DieIs ==
    ASSUME Supervised, NEW c \in Components, Die(c)
    PROVE  /\ deaths' = deaths + 1 /\ strangers' = strangers /\ deaths + strangers < MaxFaults
           /\ restarts' = restarts /\ age' = age
           /\ \/ \E S : Gone(c, S)
              \/ /\ c = "proxy" /\ UNCHANGED actors /\ Tables'
                 /\ \A d \in Components : d # c => /\ alive'[d] = alive[d] /\ due'[d] = due[d]
                                                   /\ doomed'[d] = doomed[d]
  <1>1. PICK p \in alive[c] :
           /\ deaths + strangers < MaxFaults /\ deaths' = deaths + 1
           /\ IF c = "proxy" /\ IsChild(p) /\ HasParent(c, p)
              THEN /\ alive' = [alive EXCEPT ![c] = alive[c] \ {p}]
                   /\ doomed' = [doomed EXCEPT ![c] = doomed[c] \ {p}]
                   /\ due' = [due EXCEPT ![c] = due[c] \cup {p}]
                   /\ UNCHANGED actors
              ELSE Gone(c, {p})
           /\ UNCHANGED <<strangers, restarts, age>>
    BY DEF Die
  <1>2. CASE c = "proxy" /\ IsChild(p) /\ HasParent(c, p)
    <2>1. /\ alive' = [alive EXCEPT ![c] = alive[c] \ {p}]
          /\ doomed' = [doomed EXCEPT ![c] = doomed[c] \ {p}]
          /\ due' = [due EXCEPT ![c] = due[c] \cup {p}]
          /\ UNCHANGED actors
      BY <1>1, <1>2
    <2>2. Proc(p.gen, Main) \in alive[c]
      BY <1>2 DEF HasParent
    <2>3. Tidy(c, alive[c], due[c], doomed[c])
      BY DEF Supervised, Tables
    <2>4. p.role \in Children[c]
      <3>1. p.role \in Roles(c) /\ p.role > 0
        BY <1>2, <2>3 DEF Tidy, IsChild
      <3> QED
        BY <3>1 DEF Roles, Shell, Main, Stranger
    <2>5. Tidy(c, alive[c] \ {p}, due[c] \cup {p}, doomed[c] \ {p})
      BY <2>2, <2>3, <2>4, ReplaceTidy
    <2>6. Tables'
      BY <2>1, <2>5, TablesStep DEF Supervised
    <2>7. \A d \in Components : d # c => /\ alive'[d] = alive[d] /\ due'[d] = due[d]
                                         /\ doomed'[d] = doomed[d]
      BY <2>1 DEF Supervised, Tables
    <2> QED
      BY <1>1, <1>2, <2>1, <2>6, <2>7
  <1>3. CASE ~(c = "proxy" /\ IsChild(p) /\ HasParent(c, p))
    BY <1>1, <1>3
  <1> QED
    BY <1>2, <1>3

\* When a process dies.
LEMMA DieSupervised ==
    ASSUME Supervised, NEW c \in Components, Die(c)
    PROVE  Supervised'
  <1>1. /\ deaths' \in Nat /\ strangers' \in Nat /\ deaths' + strangers' <= MaxFaults
        /\ UNCHANGED <<restarts, age>>
    BY DieIs, SupervisionBounds DEF Supervised, Control
  <1>2. CASE \E S : Gone(c, S)
    BY <1>1, <1>2, GoneSupervised
  <1>3. CASE /\ c = "proxy" /\ UNCHANGED actors /\ Tables'
             /\ \A d \in Components : d # c => /\ alive'[d] = alive[d] /\ due'[d] = due[d]
                                               /\ doomed'[d] = doomed[d]
    <2>1. doing' = doing /\ at' = at /\ counter' = counter
      BY <1>3 DEF actors
    <2>2. "spider" \in Components
      BY DEF Components
    <2>3. Control'
      BY <1>1, <2>1 DEF Supervised, Control
    <2>4. /\ alive'["spider"] = alive["spider"] /\ due'["spider"] = due["spider"]
          /\ doomed'["spider"] = doomed["spider"]
      BY <1>3, <2>2
    <2> QED
      BY <1>3, <2>1, <2>3, <2>4, SpiderSteady
  <1> QED
    BY <1>2, <1>3, DieIs

\* A stranger comes.
LEMMA ComeIs ==
    ASSUME Supervised, NEW c \in Components, Come(c)
    PROVE  /\ deaths + strangers < MaxFaults /\ strangers' = strangers + 1
           /\ alive'[c] = alive[c] \cup {TheStranger}
           /\ \A d \in Components : d # c => alive'[d] = alive[d]
           /\ Tables'
           /\ due' = due /\ doomed' = doomed /\ doing' = doing /\ at' = at /\ counter' = counter
           /\ deaths' = deaths /\ restarts' = restarts /\ age' = age
  <1> DEFINE A == alive[c] \cup {TheStranger}
  <1>1. alive' = [alive EXCEPT ![c] = A]
    BY DEF Come
  <1>2. Tidy(c, A, due[c], doomed[c])
    BY ComeTidy DEF Supervised, Tables
  <1> HIDE DEF A
  <1>3. due' = [due EXCEPT ![c] = due[c]] /\ doomed' = [doomed EXCEPT ![c] = doomed[c]]
    BY DEF Come, Supervised, Tables
  <1>4. Tables'
    BY <1>1, <1>2, <1>3, TablesStep DEF Supervised
  <1>5. alive'[c] = A /\ \A d \in Components : d # c => alive'[d] = alive[d]
    BY <1>1 DEF Supervised, Tables
  <1> QED
    BY <1>4, <1>5 DEF Come, actors, A

\* When a stranger comes.
LEMMA ComeSupervised ==
    ASSUME Supervised, NEW c \in Components, Come(c)
    PROVE  Supervised'
  <1>1. Control'
    BY ComeIs, SupervisionBounds DEF Supervised, Control
  <1>2. "spider" \in Components
    BY DEF Components
  <1>3. SpiderMains(alive') = SpiderMains(alive)
    <2>1. TheStranger.role # Main
      BY DEF TheStranger, Proc, Stranger, Main
    <2>2. CASE c = "spider"
      BY <2>1, <2>2, ComeIs DEF SpiderMains
    <2>3. CASE c # "spider"
      BY <1>2, <2>3, ComeIs DEF SpiderMains
    <2> QED
      BY <2>2, <2>3
  <1>4. OneSpider'
    BY <1>3, ComeIs DEF Supervised, OneSpider
  <1> QED
    BY <1>1, <1>4, ComeIs DEF Supervised

\* The steps of the loops that only look.
LEMMA LookSupervised ==
    ASSUME Supervised, NEW a \in Actors,
           CountProcesses(a) \/ Launched(a) \/ Wake(a) \/ (a = "spider" /\ RestartDash)
    PROVE  Supervised'
  <1>1. UNCHANGED <<alive, due, doomed, deaths, strangers, restarts>>
    BY DEF CountProcesses, Launched, Wake, RestartDash, history
  <1>2. Tables'
    BY <1>1 DEF Supervised, Tables
  <1>3. Return(a) => /\ doing' = [doing EXCEPT ![a] = IF a = "spider_alive" \/ at = RestartDashCall
                                                     THEN "sleep" ELSE "count"]
                     /\ at' \in 1..RestartDashCall
                     /\ a = "spider_alive" => at' = at
    BY DEF Return, Supervised, Control, RestartDashCall
  <1>4. /\ \E x \in Doings \ {"down", "start"} : doing' = [doing EXCEPT ![a] = x]
        /\ doing[a] \in {"count", "launch", "sleep"}
        /\ at' \in 1..RestartDashCall /\ (a = "spider_alive" => at' = at /\ counter' = counter)
        /\ counter' \in 0..restart_dashboard_interval /\ age' \in Nat
    <2>1. CASE CountProcesses(a)
      BY <1>3, <2>1 DEF CountProcesses, Doings, Supervised, Control, history
    <2>2. CASE Launched(a)
      BY <1>3, <2>2 DEF Launched, Doings, Supervised, Control, history
    <2>3. CASE Wake(a)
      <3>1. /\ doing' = [doing EXCEPT ![a] = "count"] /\ doing[a] = "sleep"
            /\ at' = IF a = "spider" THEN 1 ELSE at
            /\ counter' = counter /\ age' = age
        BY <2>3 DEF Wake, history
      <3>2. "count" \in Doings \ {"down", "start"}
        BY DEF Doings
      <3>3. at' \in 1..RestartDashCall /\ (a = "spider_alive" => at' = at)
        BY <3>1 DEF Supervised, Control, RestartDashCall
      <3> QED
        BY <3>1, <3>2, <3>3 DEF Supervised, Control
    <2>4. CASE a = "spider" /\ RestartDash
      BY <1>3, <2>4, SupervisionBounds DEF RestartDash, Doings, Supervised, Control
    <2> QED
      BY <2>1, <2>2, <2>3, <2>4
  <1>5. PICK x \in Doings \ {"down", "start"} : doing' = [doing EXCEPT ![a] = x]
    BY <1>4
  <1>6. Control'
    BY <1>1, <1>4, <1>5 DEF Supervised, Control, Actors
  <1>7. CASE a = "spider"
    <2>1. doing["spider"] # "down" /\ doing'["spider"] # "down"
          /\ doing'["spider_alive"] = doing["spider_alive"]
      BY <1>4, <1>5, <1>7 DEF Supervised, Control, Actors
    <2> QED
      BY <1>1, <1>2, <1>6, <2>1, SpiderSteady
  <1>8. CASE a = "spider_alive"
    <2>1. /\ doing'["spider"] = doing["spider"] /\ doing'["spider_alive"] # "start"
          /\ doing["spider_alive"] \in {"count", "launch", "sleep"}
          /\ doing'["spider_alive"] = x
      BY <1>4, <1>5, <1>8 DEF Supervised, Control, Actors
    <2>2. due["spider"] = {}
      <3>1. CASE Launched(a)
        <4>1. \A p \in due["spider"] : p.role # Main
          BY <1>8, <3>1 DEF Launched, Target
        <4> QED
          BY <4>1, SpiderDue DEF Supervised
      <3>2. CASE ~Launched(a)
        <4>1. doing["spider_alive"] # "launch"
          BY <1>8, <3>2 DEF CountProcesses, Wake
        <4> QED
          BY <4>1 DEF Supervised, OneSpider
      <3> QED
        BY <3>1, <3>2
    <2>3. doomed["spider"] = {}
      BY <2>1 DEF Supervised, OneSpider
    <2> QED
      BY <1>1, <1>2, <1>4, <1>6, <1>8, <2>1, <2>2, <2>3, SpiderSteady
  <1> QED
    BY <1>7, <1>8 DEF Actors

\* kill is given all that ps shows.
LEMMA SnapshotIs ==
    ASSUME Supervised, NEW a \in Actors, Snapshot(a)
    PROVE  /\ doing[a] = "kill" /\ doing' = [doing EXCEPT ![a] = "start"]
           /\ doomed'[Target(a)] = doomed[Target(a)] \cup alive[Target(a)]
           /\ \A d \in Components : d # Target(a) => doomed'[d] = doomed[d]
           /\ alive' = alive /\ due' = due /\ at' = at /\ counter' = counter
           /\ deaths' = deaths /\ strangers' = strangers /\ restarts' = restarts /\ age' = age
           /\ Tables'
  <1> DEFINE c == Target(a)
             M == doomed[c] \cup alive[c]
  <1>1. c \in Components
    BY TargetIs DEF Supervised
  <1>2. /\ doomed' = [doomed EXCEPT ![c] = M]
        /\ doing[a] = "kill" /\ doing' = [doing EXCEPT ![a] = "start"]
        /\ alive' = alive /\ due' = due /\ at' = at /\ counter' = counter
        /\ deaths' = deaths /\ strangers' = strangers /\ restarts' = restarts /\ age' = age
    BY DEF Snapshot, history
  <1> HIDE DEF c
  <1>3. Tidy(c, alive[c], due[c], M)
    BY <1>1, SnapshotTidy DEF Supervised, Tables
  <1> HIDE DEF M
  <1>4. alive' = [alive EXCEPT ![c] = alive[c]] /\ due' = [due EXCEPT ![c] = due[c]]
    BY <1>2 DEF Supervised, Tables
  <1>5. Tables'
    BY <1>1, <1>2, <1>3, <1>4, TablesStep DEF Supervised
  <1>6. doomed'[c] = M /\ \A d \in Components : d # c => doomed'[d] = doomed[d]
    BY <1>1, <1>2 DEF Supervised, Tables
  <1> QED
    BY <1>2, <1>5, <1>6 DEF c, M

\* When kill is given its processes, among them the spider if it is to be restarted.
LEMMA SnapshotSupervised ==
    ASSUME Supervised, NEW a \in Actors, Snapshot(a)
    PROVE  Supervised'
  <1>1. Control'
    BY SnapshotIs DEF Supervised, Control, Actors, Doings
  <1>2. "spider" \in Components
    BY DEF Components
  <1>3. CASE a = "spider"
    <2>1. doomed'["spider"] = doomed["spider"]
      BY <1>2, <1>3, SnapshotIs, TargetIs DEF Supervised
    <2>2. doing["spider"] = "kill" /\ doing'["spider"] = "start"
          /\ doing'["spider_alive"] = doing["spider_alive"]
      BY <1>3, SnapshotIs DEF Supervised, Control, Actors
    <2> QED
      BY <1>1, <2>1, <2>2, SnapshotIs, SpiderSteady
  <1>4. CASE a = "spider_alive"
    <2>1. doomed'["spider"] = doomed["spider"] \cup alive["spider"]
      BY <1>4, SnapshotIs, TargetIs DEF Supervised
    <2>2. doing["spider_alive"] = "kill" /\ doing'["spider"] = doing["spider"]
          /\ doing'["spider_alive"] = "start"
      BY <1>4, SnapshotIs DEF Supervised, Control, Actors
    <2>3. SpiderMains(alive') = SpiderMains(alive) /\ SpiderMains(alive') \subseteq doomed'["spider"]
      BY <2>1, SnapshotIs DEF SpiderMains
    <2>4. OneSpider'
      BY <2>2, <2>3, SnapshotIs DEF Supervised, OneSpider
    <2> QED
      BY <1>1, <2>4, SnapshotIs DEF Supervised
  <1> QED
    BY <1>3, <1>4 DEF Actors

\* A component whose kill is over is started.
LEMMA StartIs ==
    ASSUME Supervised, NEW a \in Actors, Start(a)
    PROVE  \E g \in Nat \ {0} :
             /\ doing[a] = "start" /\ doomed[Target(a)] = {}
             /\ doing' = [doing EXCEPT ![a] = "launch"]
             /\ alive'[Target(a)] = alive[Target(a)] \cup {Proc(g, Shell)}
             /\ due'[Target(a)] = due[Target(a)] \cup {Proc(g, Main)}
             /\ \A d \in Components : d # Target(a) => alive'[d] = alive[d] /\ due'[d] = due[d]
             /\ restarts' = [d \in Counted |-> restarts[d]
                    + IF Target(a) = d /\ restarts[d] < MaxRestarts THEN 1 ELSE 0]
             /\ age' = IF Target(a) = "dash" THEN 0 ELSE age
             /\ doomed' = doomed /\ at' = at /\ counter' = counter
             /\ deaths' = deaths /\ strangers' = strangers
             /\ Tables'
  <1> DEFINE c == Target(a)
             g == NewGen(c)
             A == alive[c] \cup {Proc(g, Shell)}
             U == due[c] \cup Offspring(c, Proc(g, Shell))
  <1>1. c \in Components
    BY TargetIs DEF Supervised
  <1>2. Tidy(c, alive[c], due[c], doomed[c])
    BY <1>1 DEF Supervised, Tables
  <1>3. g \in Nat \ {0} /\ \A p \in alive[c] : p.gen # g
    BY <1>2, NewGenIsNew DEF Tidy
  <1>4. Offspring(c, Proc(g, Shell)) = {Proc(g, Main)}
    BY OffspringIs DEF Proc
  <1>5. /\ doing[a] = "start" /\ doomed[c] = {}
        /\ doing' = [doing EXCEPT ![a] = "launch"]
        /\ alive' = [alive EXCEPT ![c] = A] /\ due' = [due EXCEPT ![c] = U]
        /\ restarts' = [d \in Counted |-> restarts[d]
                    + IF c = d /\ restarts[d] < MaxRestarts THEN 1 ELSE 0]
        /\ age' = IF c = "dash" THEN 0 ELSE age
        /\ doomed' = doomed /\ at' = at /\ counter' = counter
        /\ deaths' = deaths /\ strangers' = strangers
    BY DEF Start
  <1> HIDE DEF c, g
  <1>6. Tidy(c, A, U, doomed[c])
    BY <1>1, <1>2, <1>3, StartTidy
  <1>7. doomed' = [doomed EXCEPT ![c] = doomed[c]]
    BY <1>5 DEF Supervised, Tables
  <1> HIDE DEF A, U
  <1>8. Tables'
    BY <1>1, <1>5, <1>6, <1>7, TablesStep DEF Supervised
  <1>9. /\ alive'[c] = A /\ due'[c] = U
        /\ \A d \in Components : d # c => alive'[d] = alive[d] /\ due'[d] = due[d]
    BY <1>1, <1>5 DEF Supervised, Tables
  <1>10. A = alive[c] \cup {Proc(g, Shell)} /\ U = due[c] \cup {Proc(g, Main)}
    BY <1>4 DEF A, U
  <1> HIDE DEF g
  <1>11. /\ doing[a] = "start" /\ doomed[c] = {}
         /\ doing' = [doing EXCEPT ![a] = "launch"]
         /\ alive'[c] = alive[c] \cup {Proc(g, Shell)}
         /\ due'[c] = due[c] \cup {Proc(g, Main)}
         /\ \A d \in Components : d # c => alive'[d] = alive[d] /\ due'[d] = due[d]
         /\ restarts' = [d \in Counted |-> restarts[d]
                    + IF c = d /\ restarts[d] < MaxRestarts THEN 1 ELSE 0]
         /\ age' = IF c = "dash" THEN 0 ELSE age
         /\ doomed' = doomed /\ at' = at /\ counter' = counter
         /\ deaths' = deaths /\ strangers' = strangers
         /\ Tables'
    BY <1>5, <1>8, <1>9, <1>10
  <1> QED
    BY <1>3, <1>11 DEF c

\* When a component is started: the spider only when it is down.
LEMMA StartSupervised ==
    ASSUME Supervised, NEW a \in Actors, Start(a)
    PROVE  Supervised'
  <1>1. PICK g \in Nat \ {0} :
             /\ doing[a] = "start" /\ doomed[Target(a)] = {}
             /\ doing' = [doing EXCEPT ![a] = "launch"]
             /\ alive'[Target(a)] = alive[Target(a)] \cup {Proc(g, Shell)}
             /\ due'[Target(a)] = due[Target(a)] \cup {Proc(g, Main)}
             /\ \A d \in Components : d # Target(a) => alive'[d] = alive[d] /\ due'[d] = due[d]
             /\ restarts' = [d \in Counted |-> restarts[d]
                    + IF Target(a) = d /\ restarts[d] < MaxRestarts THEN 1 ELSE 0]
             /\ age' = IF Target(a) = "dash" THEN 0 ELSE age
             /\ doomed' = doomed /\ at' = at /\ counter' = counter
             /\ deaths' = deaths /\ strangers' = strangers
             /\ Tables'
    BY StartIs
  <1>2. Control'
    <2>1. \A d \in Counted : restarts'[d] \in 0..MaxRestarts
      BY <1>1, SupervisionBounds DEF Supervised, Control
    <2>2. restarts' \in [Counted -> 0..MaxRestarts]
      BY <1>1, <2>1
    <2>3. age' \in Nat
      BY <1>1 DEF Supervised, Control
    <2>4. doing' \in [Actors -> Doings] /\ doing'["spider_alive"] # "down"
      BY <1>1 DEF Supervised, Control, Actors, Doings
    <2> QED
      BY <1>1, <2>2, <2>3, <2>4 DEF Supervised, Control
  <1>3. "spider" \in Components
    BY DEF Components
  <1>4. CASE a = "spider"
    <2>1. alive'["spider"] = alive["spider"] /\ due'["spider"] = due["spider"]
          /\ doomed'["spider"] = doomed["spider"]
      BY <1>1, <1>3, <1>4, TargetIs DEF Supervised
    <2>2. doing["spider"] = "start" /\ doing'["spider"] = "launch"
          /\ doing'["spider_alive"] = doing["spider_alive"]
      BY <1>1, <1>4 DEF Supervised, Control, Actors
    <2> QED
      BY <1>1, <1>2, <2>1, <2>2, SpiderSteady
  <1>5. CASE a = "spider_alive"
    <2>1. /\ alive'["spider"] = alive["spider"] \cup {Proc(g, Shell)}
          /\ due'["spider"] = due["spider"] \cup {Proc(g, Main)}
          /\ doomed'["spider"] = doomed["spider"] /\ doomed["spider"] = {}
      BY <1>1, <1>5, TargetIs DEF Supervised
    <2>2. doing["spider_alive"] = "start" /\ doing'["spider"] = doing["spider"]
          /\ doing'["spider_alive"] = "launch"
      BY <1>1, <1>5 DEF Supervised, Control, Actors
    <2>3. SpiderMains(alive) = {} /\ due["spider"] = {} /\ doing["spider"] = "down"
          /\ at = 1 /\ counter = 0
      BY <2>1, <2>2 DEF Supervised, OneSpider
    <2>4. SpiderMains(alive') = {}
      BY <2>1, <2>3 DEF SpiderMains, Proc, Shell, Main
    <2>5. due'["spider"] = {Proc(g, Main)}
      BY <2>1, <2>3
    <2>6. OneSpider'
      BY <1>1, <2>1, <2>2, <2>3, <2>4, <2>5 DEF OneSpider
    <2> QED
      BY <1>1, <1>2, <2>6 DEF Supervised
  <1> QED
    BY <1>4, <1>5 DEF Actors

\* The actions, one by one.
LEMMA SupervisionActions ==
    ASSUME SupervisionNext
    PROVE  \/ \E a \in Actors :
                \/ CountProcesses(a) \/ Launched(a) \/ Wake(a) \/ (a = "spider" /\ RestartDash)
                \/ Snapshot(a) \/ Start(a)
           \/ \E c \in Components :
                Launch(c) \/ Exit(c) \/ Leave(c) \/ Kill(c) \/ Die(c) \/ Come(c)
  <1>1. \A a \in Actors : Tended(a) \subseteq Components
    BY DEF Tended, Components
  <1>2. CASE Spider
    BY <1>2 DEF Spider, Act, Actors
  <1>3. CASE Act("spider_alive")
    BY <1>3 DEF Act, Actors
  <1>4. CASE \E a \in Actors : Processes(Tended(a))
    BY <1>1, <1>4 DEF Processes
  <1>5. CASE \E c \in Components : Die(c) \/ Come(c)
    BY <1>5
  <1> QED
    BY <1>2, <1>3, <1>4, <1>5 DEF SupervisionNext

\* With every step.
LEMMA SupervisedStep == Supervised /\ [SupervisionNext]_supervisionVars => Supervised'
  <1> SUFFICES ASSUME Supervised, [SupervisionNext]_supervisionVars PROVE Supervised'
    OBVIOUS
  <1>1. CASE SupervisionNext
    <2>1. ASSUME NEW a \in Actors,
                 \/ CountProcesses(a) \/ Launched(a) \/ Wake(a) \/ (a = "spider" /\ RestartDash)
                 \/ Snapshot(a) \/ Start(a)
          PROVE  Supervised'
      BY <2>1, LookSupervised, SnapshotSupervised, StartSupervised
    <2>2. ASSUME NEW c \in Components,
                 Launch(c) \/ Exit(c) \/ Leave(c) \/ Kill(c) \/ Die(c) \/ Come(c)
          PROVE  Supervised'
      BY <2>2, LaunchSupervised, LeavingSupervised, DieSupervised, ComeSupervised
    <2> QED
      BY <1>1, <2>1, <2>2, SupervisionActions
  <1>2. CASE UNCHANGED supervisionVars
    <2>1. UNCHANGED <<alive, due, doomed, doing, at, counter, deaths, strangers, restarts, age>>
      BY <1>2 DEF supervisionVars, actors, history
    <2>2. Tables' /\ Control'
      BY <2>1 DEF Supervised, Tables, Control
    <2> QED
      BY <2>1, <2>2, SpiderSteady
  <1> QED
    BY <1>1, <1>2

\* Each table of processes has processes of its component only; what is due is due from a
\* living one and not there yet; kill works on living ones; the spider's loop goes on
\* exactly while its one program is alive.
THEOREM SupervisionTypeCorrect == SupervisionSpec => []SupervisionTypeOK
  <1>1. SupervisionSpec => []Supervised
    BY SupervisedInit, SupervisedStep, PTL DEF SupervisionSpec
  <1> QED
    BY <1>1, SupervisedTyped, PTL
-----------------------------------------------------------------------------
(* The restarts of the spider.  Each has a cause of its own: what is wrong   *)
(* with the spider but not yet restarted is owed.                           *)

\* The processes of one start of the spider, there or due.
Pair(g) == {Proc(g, Shell), Proc(g, Main)}
Healthy(A, U) == \E g \in Nat \ {0} : A \cup U = Pair(g)

\* What spider_alive, doing d, may still restart for what has happened: it is going
\* to, once, when it has found the spider wrong, and once more when something is there
\* that the snapshot of the kill has not.
SpiderOwes(d, A, U, M) ==
    CASE d = "kill"  -> 1
      [] d = "start" -> IF A \subseteq M THEN 1 ELSE 2
      [] OTHER       -> IF Healthy(A, U) THEN 0 ELSE 1
SpiderDebt == SpiderOwes(doing["spider_alive"], alive["spider"], due["spider"], doomed["spider"])

\* What may have gone wrong so far: the deaths and the strangers.
Causes == deaths + strangers

SpiderPaid == restarts["spider"] + SpiderDebt <= 1 + Causes

\* Its cases.
LEMMA SpiderOwesIs ==
    ASSUME NEW d, NEW A, NEW U, NEW M
    PROVE  /\ d = "kill" => SpiderOwes(d, A, U, M) = 1
           /\ d = "start" /\ A \subseteq M => SpiderOwes(d, A, U, M) = 1
           /\ d = "start" /\ ~(A \subseteq M) => SpiderOwes(d, A, U, M) = 2
           /\ d \notin {"kill", "start"} /\ Healthy(A, U) => SpiderOwes(d, A, U, M) = 0
           /\ d \notin {"kill", "start"} /\ ~Healthy(A, U) => SpiderOwes(d, A, U, M) = 1
           /\ SpiderOwes(d, A, U, M) \in {0, 1, 2}
  BY DEF SpiderOwes

\* A healthy spider is what spider_alive expects.
LEMMA HealthyCounts ==
    ASSUME Supervised, due["spider"] = {}, Healthy(alive["spider"], due["spider"])
    PROVE  ~Wrong("spider")
  <1>1. PICK g \in Nat \ {0} : alive["spider"] = Pair(g)
    BY DEF Healthy
  <1> DEFINE s == Proc(g, Shell)
             m == Proc(g, Main)
  <1>2. s # m
    BY DEF Proc, Shell, Main
  <1>3. alive["spider"] = {s} \cup {m}
    BY <1>1 DEF Pair
  <1> HIDE DEF s, m
  <1>4. IsFiniteSet({s}) /\ Cardinality({s}) = 1
    BY FS_Singleton
  <1>5. Cardinality({s} \cup {m}) = 2
    BY <1>2, <1>4, FS_AddElement
  <1>6. {p \in alive["spider"] : p.role = Shell => "spider" = "spider"} = {s} \cup {m}
    BY <1>3
  <1>7. Count("spider") = 2
    BY <1>5, <1>6 DEF Count
  <1> QED
    BY <1>7 DEF Wrong, Expected

\* Nothing else about a healthy spider: no program of it may end by itself, and nobody
\* stands by.
LEMMA HealthyStays ==
    ASSUME NEW A, NEW U, Healthy(A, U)
    PROVE  /\ \A p \in A : p.role = Shell => Proc(p.gen, Main) \in A \cup U
           /\ TheStranger \notin A
  <1>1. PICK g \in Nat \ {0} : A \cup U = Pair(g)
    BY DEF Healthy
  <1>2. \A p \in A : p = Proc(g, Shell) \/ p = Proc(g, Main)
    BY <1>1 DEF Pair
  <1>3. Proc(g, Main) \in A \cup U
    BY <1>1 DEF Pair
  <1> QED
    BY <1>2, <1>3 DEF Proc, Shell, Main, Stranger, TheStranger

\* What is owed does not grow, or what has happened does.
LEMMA SpiderDebtStep ==
    ASSUME SpiderPaid, Control, NEW n \in Nat, SpiderDebt' <= SpiderDebt + n,
           restarts'["spider"] = restarts["spider"],
           Causes' >= Causes + n, Causes' \in Nat
    PROVE  SpiderPaid'
  <1> DEFINE old == SpiderDebt
             new == SpiderDebt'
             r == restarts["spider"]
             f == Causes
             e == Causes'
  <1>1. old \in {0, 1, 2} /\ new \in {0, 1, 2}
    BY SpiderOwesIs DEF SpiderDebt
  <1>2. r \in Nat /\ f \in Nat /\ e \in Nat
    BY SupervisionBounds DEF Control, Counted, Causes
  <1>3. r + old <= 1 + f /\ new <= old + n /\ e >= f + n
    BY DEF SpiderPaid
  <1>4. r + new <= 1 + e
    <2> HIDE DEF r, old, new, f, e
    <2> QED
      BY <1>1, <1>2, <1>3
  <1> QED
    BY <1>4 DEF SpiderPaid

\* Nothing of the spider changes.
LEMMA SpiderDebtSteady ==
    ASSUME SpiderPaid, Control,
           alive'["spider"] = alive["spider"], due'["spider"] = due["spider"],
           doomed'["spider"] = doomed["spider"], doing'["spider_alive"] = doing["spider_alive"],
           restarts'["spider"] = restarts["spider"],
           Causes' >= Causes, Causes' \in Nat
    PROVE  SpiderPaid'
  <1>1. SpiderDebt' = SpiderDebt
    BY DEF SpiderDebt
  <1>2. SpiderDebt \in {0, 1, 2}
    BY SpiderOwesIs DEF SpiderDebt
  <1>3. SpiderDebt' <= SpiderDebt + 0 /\ 0 \in Nat
    BY <1>1, <1>2
  <1>4. Causes' >= Causes + 0
    BY DEF Control, Causes
  <1> QED
    BY <1>3, <1>4, SpiderDebtStep

\* Processes of the spider end.  If it was healthy, one of them died.
LEMMA GoneSpiderDebt ==
    ASSUME Supervised, NEW S, Gone("spider", S)
    PROVE  /\ SpiderDebt' <= SpiderDebt + 1
           /\ \/ ~Healthy(alive["spider"], due["spider"])
              \/ doing["spider_alive"] \in {"kill", "start"}
              => SpiderDebt' <= SpiderDebt
  <1> DEFINE d == doing["spider_alive"]
             A == alive["spider"]
             U == due["spider"]
             M == doomed["spider"]
             B == alive'["spider"]
             V == due'["spider"]
             N == doomed'["spider"]
  <1>1. "spider" \in Components
    BY DEF Components
  <1>2. B = A \ S /\ N = M \ S
    BY <1>1, GoneIs
  <1>3. doing'["spider_alive"] = d
    <2>1. \/ UNCHANGED actors
          \/ doing' = [doing EXCEPT !["spider"] = "down"]
      BY <1>1, GoneIs
    <2> QED
      BY <2>1 DEF actors, Supervised, Control, Actors
  <1>4. SpiderDebt = SpiderOwes(d, A, U, M) /\ SpiderDebt' = SpiderOwes(d, B, V, N)
    BY <1>3 DEF SpiderDebt
  <1>5. A \subseteq M => B \subseteq N
    BY <1>2
  <1> HIDE DEF d, A, U, M, B, V, N
  <1>6. CASE d = "kill"
    BY <1>4, <1>6, SpiderOwesIs
  <1>7. CASE d = "start"
    <2>1. SpiderOwes(d, A, U, M) = IF A \subseteq M THEN 1 ELSE 2
      BY <1>7, SpiderOwesIs
    <2>2. SpiderOwes(d, B, V, N) = IF B \subseteq N THEN 1 ELSE 2
      BY <1>7, SpiderOwesIs
    <2> QED
      BY <1>4, <1>5, <2>1, <2>2
  <1>8. CASE d \notin {"kill", "start"}
    <2>1. SpiderOwes(d, B, V, N) \in {0, 1}
      BY <1>8, SpiderOwesIs
    <2>2. SpiderOwes(d, A, U, M) = IF Healthy(A, U) THEN 0 ELSE 1
      BY <1>8, SpiderOwesIs
    <2>3. SpiderOwes(d, B, V, N) <= SpiderOwes(d, A, U, M) + 1
      BY <2>1, <2>2
    <2>4. ~Healthy(A, U) => SpiderOwes(d, B, V, N) <= SpiderOwes(d, A, U, M)
      BY <2>1, <2>2
    <2> QED
      BY <1>4, <1>8, <2>3, <2>4 DEF d, A, U
  <1>9. CASE d \in {"kill", "start"}
    BY <1>6, <1>7, <1>9
  <1> QED
    BY <1>8, <1>9

\* Processes of other components do as they like.
LEMMA OthersSpiderDebt ==
    ASSUME Supervised, SpiderPaid, NEW c \in Components, c # "spider",
           Launch(c) \/ Exit(c) \/ Leave(c) \/ Kill(c) \/ Die(c) \/ Come(c)
    PROVE  SpiderPaid'
  <1>1. "spider" \in Components
    BY DEF Components
  <1>2. CASE \/ \E S : Gone(c, S) /\ UNCHANGED history
             \/ Die(c)
    <2>1. /\ alive'["spider"] = alive["spider"] /\ due'["spider"] = due["spider"]
          /\ doomed'["spider"] = doomed["spider"] /\ doing' = doing
      <3>1. CASE \E S : Gone(c, S)
        <4>1. PICK S : Gone(c, S)
          BY <3>1
        <4>2. /\ alive'["spider"] = alive["spider"] /\ due'["spider"] = due["spider"]
              /\ doomed'["spider"] = doomed["spider"] /\ UNCHANGED actors
          BY <1>1, <4>1, GoneIs
        <4> QED
          BY <4>2 DEF actors
      <3>2. CASE Die(c) /\ ~\E S : Gone(c, S)
        <4>1. /\ UNCHANGED actors
              /\ \A d \in Components : d # c => /\ alive'[d] = alive[d] /\ due'[d] = due[d]
                                                /\ doomed'[d] = doomed[d]
          BY <3>2, DieIs
        <4> QED
          BY <1>1, <4>1 DEF actors
      <3> QED
        BY <1>2, <3>1, <3>2
    <2>2. restarts' = restarts /\ Causes' \in Nat
          /\ Causes' >= Causes
      <3>1. CASE UNCHANGED history
        BY <3>1 DEF history, Supervised, Control, Causes
      <3>2. CASE Die(c)
        BY <3>2, DieIs DEF Supervised, Control, Causes
      <3> QED
        BY <1>2, <3>1, <3>2
    <2> QED
      BY <2>1, <2>2, SpiderDebtSteady DEF Supervised
  <1>3. CASE Launch(c)
    <2>1. /\ alive'["spider"] = alive["spider"] /\ due'["spider"] = due["spider"]
          /\ doomed' = doomed /\ doing' = doing /\ UNCHANGED history
      BY <1>1, <1>3, LaunchIs
    <2>2. /\ restarts' = restarts /\ deaths' = deaths /\ strangers' = strangers
      BY <2>1 DEF history
    <2>3. Causes' >= Causes /\ Causes' \in Nat
      BY <2>2 DEF Supervised, Control, Causes
    <2> QED
      BY <2>1, <2>2, <2>3, SpiderDebtSteady DEF Supervised
  <1>4. CASE Come(c)
    <2>1. /\ alive'["spider"] = alive["spider"] /\ due' = due /\ doomed' = doomed
          /\ doing' = doing /\ restarts' = restarts
          /\ deaths' = deaths /\ strangers' = strangers + 1
      BY <1>1, <1>4, ComeIs
    <2>2. Causes' >= Causes /\ Causes' \in Nat
      BY <2>1 DEF Supervised, Control, Causes
    <2> QED
      BY <2>1, <2>2, SpiderDebtSteady DEF Supervised
  <1>5. Exit(c) \/ Leave(c) \/ Kill(c) => \E S : Gone(c, S) /\ UNCHANGED history
    BY DEF Exit, Leave, Kill
  <1> QED
    BY <1>2, <1>3, <1>4, <1>5

\* Processes of the spider: only a death and a stranger make it worse.
LEMMA ProcessesSpiderDebt ==
    ASSUME Supervised, SpiderPaid,
           \/ Launch("spider") \/ Exit("spider") \/ Leave("spider") \/ Kill("spider")
           \/ Die("spider") \/ Come("spider")
    PROVE  SpiderPaid'
  <1>1. "spider" \in Components /\ Control /\ 0 \in Nat /\ 1 \in Nat
    BY DEF Components, Supervised
  <1>2. SpiderDebt \in {0, 1, 2}
    BY SpiderOwesIs DEF SpiderDebt
  <1>3. CASE Exit("spider") \/ Leave("spider") \/ Kill("spider")
    <2>1. PICK S : /\ Gone("spider", S) /\ UNCHANGED history
                   /\ \/ ~Healthy(alive["spider"], due["spider"])
                      \/ doing["spider_alive"] \in {"kill", "start"}
      <3>1. CASE Exit("spider")
        <4>1. PICK p \in alive["spider"] : AtEnd("spider", p) /\ Gone("spider", {p}) /\ UNCHANGED history
          BY <3>1 DEF Exit
        <4>2. p.role = Shell /\ Offspring("spider", p) \cap (alive["spider"] \cup due["spider"]) = {}
          BY <4>1 DEF AtEnd
        <4>3. Proc(p.gen, Main) \notin alive["spider"] \cup due["spider"]
          BY <4>2, OffspringIs
        <4>4. ~Healthy(alive["spider"], due["spider"])
          BY <4>2, <4>3, HealthyStays
        <4> QED
          BY <4>1, <4>4
      <3>2. CASE Leave("spider")
        BY <3>2, HealthyStays DEF Leave
      <3>3. CASE Kill("spider")
        BY <3>3 DEF Kill, Supervised, OneSpider
      <3> QED
        BY <1>3, <3>1, <3>2, <3>3
    <2>2. SpiderDebt' <= SpiderDebt
      BY <2>1, GoneSpiderDebt
    <2>3. /\ SpiderDebt' <= SpiderDebt + 0
          /\ restarts'["spider"] = restarts["spider"] /\ Causes' \in Nat
          /\ Causes' >= Causes + 0
      BY <1>2, <2>1, <2>2 DEF history, Supervised, Control, Causes
    <2> QED
      BY <1>1, <2>3, SpiderDebtStep
  <1>4. CASE Die("spider")
    <2>1. /\ deaths' = deaths + 1 /\ strangers' = strangers /\ restarts' = restarts
      BY <1>1, <1>4, DieIs
    <2>2. PICK S : Gone("spider", S)
      BY <1>1, <1>4, DieIs
    <2>3. SpiderDebt' <= SpiderDebt + 1
      BY <2>2, GoneSpiderDebt
    <2>4. /\ Causes' \in Nat
          /\ Causes' >= Causes + 1
      BY <2>1 DEF Supervised, Control, Causes
    <2> QED
      BY <1>1, <2>1, <2>3, <2>4, SpiderDebtStep
  <1>5. CASE Come("spider")
    <2>1. /\ alive'["spider"] = alive["spider"] \cup {TheStranger}
          /\ due' = due /\ doomed' = doomed /\ doing' = doing /\ restarts' = restarts
          /\ deaths' = deaths /\ strangers' = strangers + 1
      BY <1>1, <1>5, ComeIs
    <2> DEFINE d == doing["spider_alive"]
               A == alive["spider"]
               B == alive'["spider"]
               U == due["spider"]
               M == doomed["spider"]
    <2>2. SpiderDebt = SpiderOwes(d, A, U, M) /\ SpiderDebt' = SpiderOwes(d, B, U, M)
      BY <2>1 DEF SpiderDebt
    <2> HIDE DEF d, A, B, U, M
    <2>3. SpiderOwes(d, B, U, M) <= SpiderOwes(d, A, U, M) + 1
      <3>1. CASE d = "kill"
        BY <3>1, SpiderOwesIs
      <3>2. CASE d = "start"
        <4>1. SpiderOwes(d, A, U, M) \in {1, 2} /\ SpiderOwes(d, B, U, M) \in {1, 2}
          BY <3>2, SpiderOwesIs
        <4> QED
          BY <4>1
      <3>3. CASE d \notin {"kill", "start"}
        <4>1. SpiderOwes(d, A, U, M) \in {0, 1} /\ SpiderOwes(d, B, U, M) \in {0, 1}
          BY <3>3, SpiderOwesIs
        <4> QED
          BY <4>1
      <3> QED
        BY <3>1, <3>2, <3>3
    <2>4. /\ Causes' \in Nat
          /\ Causes' >= Causes + 1
          /\ restarts'["spider"] = restarts["spider"]
      BY <2>1 DEF Supervised, Control, Causes
    <2>5. SpiderDebt' <= SpiderDebt + 1
      BY <2>2, <2>3
    <2> QED
      BY <1>1, <2>4, <2>5, SpiderDebtStep
  <1>6. CASE Launch("spider")
    <2>1. PICK p \in due["spider"] :
             /\ alive'["spider"] = alive["spider"] \cup {p}
             /\ due'["spider"] = (due["spider"] \ {p}) \cup Offspring("spider", p)
             /\ doing' = [doing EXCEPT !["spider"] = "count"]
             /\ UNCHANGED <<doomed, at, counter, history>>
      BY <1>1, <1>6, LaunchIs
    <2>2. Offspring("spider", p) = {}
      BY <2>1, SpiderDue DEF Supervised
    <2>3. alive'["spider"] \cup due'["spider"] = alive["spider"] \cup due["spider"]
      BY <2>1, <2>2
    <2>4. doing'["spider_alive"] = "launch" /\ doing["spider_alive"] = "launch"
      BY <2>1 DEF Supervised, OneSpider, Control, Actors
    <2>5. Healthy(alive'["spider"], due'["spider"]) <=> Healthy(alive["spider"], due["spider"])
      BY <2>3 DEF Healthy
    <2>6. SpiderDebt' = SpiderDebt
      BY <2>4, <2>5 DEF SpiderDebt, SpiderOwes
    <2>7. SpiderDebt' <= SpiderDebt + 0
      BY <1>2, <2>6
    <2>8. /\ restarts'["spider"] = restarts["spider"] /\ Causes' \in Nat
          /\ Causes' >= Causes + 0
      BY <2>1 DEF history, Supervised, Control, Causes
    <2> QED
      BY <1>1, <2>7, <2>8, SpiderDebtStep
  <1> QED
    BY <1>3, <1>4, <1>5, <1>6

\* The loops.
LEMMA LoopsSpiderDebt ==
    ASSUME Supervised, SpiderPaid, NEW a \in Actors,
           \/ CountProcesses(a) \/ Launched(a) \/ Wake(a) \/ (a = "spider" /\ RestartDash)
           \/ Snapshot(a) \/ Start(a)
    PROVE  SpiderPaid'
  <1>1. "spider" \in Components /\ Control /\ 0 \in Nat
    BY DEF Components, Supervised
  <1>2. SpiderDebt \in {0, 1, 2} /\ SpiderDebt' \in {0, 1, 2}
    BY SpiderOwesIs DEF SpiderDebt
  <1>3. CASE a = "spider"
    <2>1. /\ alive'["spider"] = alive["spider"] /\ due'["spider"] = due["spider"]
          /\ doomed'["spider"] = doomed["spider"] /\ restarts'["spider"] = restarts["spider"]
          /\ deaths' = deaths /\ strangers' = strangers
      <3>1. Target("spider") # "spider"
        BY <1>1, <1>3, TargetIs
      <3>2. CASE CountProcesses(a) \/ Launched(a) \/ Wake(a) \/ RestartDash
        BY <3>2 DEF CountProcesses, Launched, Wake, RestartDash, history
      <3>3. CASE Snapshot(a)
        BY <1>1, <1>3, <3>1, <3>3, SnapshotIs
      <3>4. CASE Start(a)
        <4>1. /\ alive'["spider"] = alive["spider"] /\ due'["spider"] = due["spider"]
              /\ doomed' = doomed /\ deaths' = deaths /\ strangers' = strangers
          BY <1>1, <1>3, <3>1, <3>4, StartIs
        <4>2. restarts' = [d \in Counted |-> restarts[d]
                    + IF Target(a) = d /\ restarts[d] < MaxRestarts THEN 1 ELSE 0]
          BY <3>4, StartIs
        <4>3. restarts'["spider"] = restarts["spider"] + 0
          BY <1>3, <3>1, <4>2 DEF Counted
        <4>4. restarts["spider"] \in Int
          BY <1>1 DEF Control, Counted
        <4> QED
          BY <4>1, <4>3, <4>4
      <3> QED
        BY <3>2, <3>3, <3>4
    <2>2. doing'["spider_alive"] = doing["spider_alive"]
      <3>1. \E x : doing' = [doing EXCEPT ![a] = x]
        <4>1. CASE CountProcesses(a) \/ Launched(a) \/ Wake(a) \/ RestartDash
          BY <1>3, <4>1 DEF CountProcesses, Launched, Wake, RestartDash, Return
        <4>2. CASE Snapshot(a) \/ Start(a)
          BY <4>2 DEF Snapshot, Start
        <4> QED
          BY <4>1, <4>2
      <3> QED
        BY <1>1, <1>3, <3>1 DEF Control, Actors
    <2>3. Causes' >= Causes /\ Causes' \in Nat
      BY <1>1, <2>1 DEF Control, Causes
    <2> QED
      BY <1>1, <2>1, <2>2, <2>3, SpiderDebtSteady
  <1>4. CASE a = "spider_alive"
    <2> DEFINE A == alive["spider"]
               U == due["spider"]
               M == doomed["spider"]
    <2>1. CASE CountProcesses(a) \/ Launched(a) \/ Wake(a) \/ Snapshot(a)
      <3>1. /\ restarts' = restarts /\ deaths' = deaths /\ strangers' = strangers
            /\ alive' = alive /\ due' = due
        BY <2>1 DEF CountProcesses, Launched, Wake, Snapshot, history
      <3>2. SpiderDebt' <= SpiderDebt + 0
        <4>1. CASE Snapshot(a)
          <5>1. doing["spider_alive"] = "kill" /\ doing'["spider_alive"] = "start"
            BY <1>1, <1>4, <4>1, SnapshotIs DEF Control, Actors
          <5>2. alive'["spider"] \subseteq doomed'["spider"]
            BY <1>4, <4>1, SnapshotIs, TargetIs DEF Supervised
          <5>3. SpiderDebt = 1 /\ SpiderDebt' = 1
            BY <5>1, <5>2, SpiderOwesIs DEF SpiderDebt
          <5> QED
            BY <5>3
        <4>2. CASE CountProcesses(a)
          <5>1. doing["spider_alive"] = "count" /\ doomed' = doomed /\ Target(a) = "spider"
            BY <1>4, <4>2 DEF CountProcesses, Target
          <5>2. due["spider"] = {}
            BY <5>1 DEF Supervised, OneSpider
          <5>3. CASE Wrong("spider")
            <6>1. ~Healthy(alive["spider"], due["spider"])
              BY <5>2, <5>3, HealthyCounts
            <6>2. doing'["spider_alive"] = "kill"
              BY <1>1, <1>4, <4>2, <5>1, <5>3 DEF CountProcesses, Control, Actors
            <6>3. SpiderDebt = 1 /\ SpiderDebt' = 1
              BY <5>1, <6>1, <6>2, SpiderOwesIs DEF SpiderDebt
            <6> QED
              BY <6>3
          <5>4. CASE ~Wrong("spider")
            <6>1. doing'["spider_alive"] = "sleep"
              BY <1>1, <1>4, <4>2, <5>1, <5>4 DEF CountProcesses, Return, Control, Actors
            <6>2. SpiderDebt' = SpiderDebt
              BY <3>1, <5>1, <6>1 DEF SpiderDebt, SpiderOwes
            <6> QED
              BY <1>2, <6>2
          <5> QED
            BY <5>3, <5>4
        <4>3. CASE Launched(a) \/ Wake(a)
          <5>1. /\ doing["spider_alive"] \in {"launch", "sleep"} /\ doomed' = doomed
                /\ doing'["spider_alive"] \in {"count", "sleep"}
            BY <1>1, <1>4, <4>3 DEF Launched, Wake, Return, Control, Actors
          <5>2. SpiderDebt' = SpiderDebt
            BY <3>1, <5>1 DEF SpiderDebt, SpiderOwes
          <5> QED
            BY <1>2, <5>2
        <4> QED
          BY <2>1, <4>1, <4>2, <4>3
      <3>3. /\ restarts'["spider"] = restarts["spider"] /\ Causes' \in Nat
            /\ Causes' >= Causes + 0
        BY <1>1, <3>1 DEF Control, Causes
      <3> QED
        BY <1>1, <3>2, <3>3, SpiderDebtStep
    <2>2. CASE Start(a)
      <3>1. PICK g \in Nat \ {0} :
             /\ doing[a] = "start" /\ doomed[Target(a)] = {}
             /\ doing' = [doing EXCEPT ![a] = "launch"]
             /\ alive'[Target(a)] = alive[Target(a)] \cup {Proc(g, Shell)}
             /\ due'[Target(a)] = due[Target(a)] \cup {Proc(g, Main)}
             /\ restarts' = [d \in Counted |-> restarts[d]
                    + IF Target(a) = d /\ restarts[d] < MaxRestarts THEN 1 ELSE 0]
             /\ deaths' = deaths /\ strangers' = strangers
        BY <2>2, StartIs
      <3>2. /\ doing["spider_alive"] = "start" /\ doing'["spider_alive"] = "launch" /\ M = {}
            /\ alive'["spider"] = A \cup {Proc(g, Shell)}
            /\ due'["spider"] = U \cup {Proc(g, Main)}
        BY <1>1, <1>4, <3>1, TargetIs DEF Control, Actors
      <3>3. U = {}
        BY <3>2 DEF Supervised, OneSpider
      <3>4. SpiderDebt' + 1 <= SpiderDebt
        <4>1. CASE A = {}
          <5>1. alive'["spider"] \cup due'["spider"] = Pair(g)
            BY <3>2, <3>3, <4>1 DEF Pair
          <5>2. Healthy(alive'["spider"], due'["spider"])
            BY <5>1 DEF Healthy
          <5>3. SpiderDebt' = 0
            BY <3>2, <5>2, SpiderOwesIs DEF SpiderDebt
          <5>4. SpiderDebt = 1
            BY <3>2, <4>1, SpiderOwesIs DEF SpiderDebt
          <5> QED
            BY <5>3, <5>4
        <4>2. CASE A # {}
          <5>1. SpiderDebt' \in {0, 1}
            BY <3>2, SpiderOwesIs DEF SpiderDebt
          <5>2. SpiderDebt = 2
            <6>1. ~(A \subseteq M)
              BY <3>2, <4>2
            <6> QED
              BY <3>2, <6>1, SpiderOwesIs DEF SpiderDebt
          <5>3. 0 + 1 <= 2 /\ 1 + 1 <= 2
            OBVIOUS
          <5> QED
            BY <5>1, <5>2, <5>3
        <4> QED
          BY <4>1, <4>2
      <3>5. restarts'["spider"] \in {restarts["spider"], restarts["spider"] + 1}
        <4>1. restarts'["spider"] = restarts["spider"]
                + IF Target(a) = "spider" /\ restarts["spider"] < MaxRestarts THEN 1 ELSE 0
          BY <3>1 DEF Counted
        <4>2. restarts["spider"] \in Int
          BY <1>1 DEF Control, Counted
        <4> QED
          BY <4>1, <4>2
      <3>6. restarts["spider"] \in Nat /\ Causes \in Nat /\ Causes' = Causes
        BY <1>1, <3>1 DEF Control, Counted, Causes
      <3>7. restarts["spider"] + SpiderDebt <= 1 + Causes
        BY DEF SpiderPaid
      <3> HIDE DEF SpiderDebt
      <3>8. restarts'["spider"] + SpiderDebt' <= 1 + Causes
        <4> DEFINE owed == SpiderDebt
                   owes == SpiderDebt'
                   r == restarts["spider"]
                   q == restarts'["spider"]
                   n == Causes
        <4>1. r \in Nat /\ n \in Nat /\ q \in {r, r + 1} /\ owes + 1 <= owed
          BY <3>4, <3>5, <3>6
        <4>4. owed \in Int /\ owes \in Int
          BY <1>2
        <4>5. r + owed <= 1 + n
          <5> HIDE DEF r, owed
          <5>1. r + owed <= 1 + Causes
            BY <3>7 DEF r, owed
          <5> QED
            BY <3>6, <4>4, <5>1
        <4> HIDE DEF owed, owes, r, q, n
        <4>2. q + owes <= 1 + n
          BY <4>1, <4>4, <4>5
        <4>3. q + owes <= 1 + Causes
          BY <4>2 DEF n
        <4> QED
          BY <4>3 DEF q, owes
      <3>9. restarts'["spider"] + SpiderDebt' <= 1 + Causes'
        BY <3>6, <3>8
      <3> QED
        BY <3>9 DEF SpiderPaid
    <2> QED
      BY <1>4, <2>1, <2>2
  <1> QED
    BY <1>3, <1>4 DEF Actors

\* With every step, restarts of the spider stay accounted for.
LEMMA SpiderPaidStep ==
    Supervised /\ SpiderPaid /\ [SupervisionNext]_supervisionVars => SpiderPaid'
  <1> SUFFICES ASSUME Supervised, SpiderPaid, [SupervisionNext]_supervisionVars
               PROVE  SpiderPaid'
    OBVIOUS
  <1>1. CASE SupervisionNext
    <2>1. ASSUME NEW a \in Actors,
                 \/ CountProcesses(a) \/ Launched(a) \/ Wake(a) \/ (a = "spider" /\ RestartDash)
                 \/ Snapshot(a) \/ Start(a)
          PROVE  SpiderPaid'
      BY <2>1, LoopsSpiderDebt
    <2>2. ASSUME NEW c \in Components,
                 Launch(c) \/ Exit(c) \/ Leave(c) \/ Kill(c) \/ Die(c) \/ Come(c)
          PROVE  SpiderPaid'
      <3>1. CASE c = "spider"
        BY <2>2, <3>1, ProcessesSpiderDebt
      <3>2. CASE c # "spider"
        BY <2>2, <3>2, OthersSpiderDebt
      <3> QED
        BY <3>1, <3>2
    <2> QED
      BY <1>1, <2>1, <2>2, SupervisionActions
  <1>2. CASE UNCHANGED supervisionVars
    BY <1>2 DEF supervisionVars, actors, history, SpiderPaid, SpiderDebt, Causes
  <1> QED
    BY <1>1, <1>2

\* The first restart is for the shell that spider/start.sh leaves out.
LEMMA SpiderPaidInit == SupervisionInit => SpiderPaid
  <1> SUFFICES ASSUME SupervisionInit PROVE SpiderPaid
    OBVIOUS
  <1>1. /\ doing["spider_alive"] = "count" /\ restarts["spider"] = 0 /\ deaths = 0 /\ strangers = 0
    BY DEF SupervisionInit, Actors, Counted
  <1>2. SpiderDebt \in {0, 1}
    BY <1>1, SpiderOwesIs DEF SpiderDebt
  <1> QED
    BY <1>1, <1>2 DEF SpiderPaid, Causes
-----------------------------------------------------------------------------
(* The restarts of the consumers.                                          *)

\* One start of the consumers: the shell alone, or the parent and all its children,
\* there or due.
Kids(g) == {Proc(g, r) : r \in Children["consumer"]}
Whole(A, U) ==
    \E g \in Nat \ {0} :
        \/ A = {Proc(g, Shell)} /\ U = {Proc(g, Main)}
        \/ /\ Proc(g, Main) \in A
           /\ A \cup U \subseteq Pair(g) \cup Kids(g)
           /\ Kids(g) \subseteq A \cup U

\* What the spider, doing d in its n-th call, may still restart for what has happened.
\* Consumers that are starting count as missing in its first call; a new spider, V not
\* empty, finds the kill of the last one and consumers that are starting.
ConsumerOwes(d, n, V, A, U, M) ==
    CASE d = "down"                    -> IF V # {} THEN 2 ELSE 0
      [] n = 1 /\ d = "count" /\ U # {} -> 2
      [] n = 1 /\ d = "kill"           -> IF U # {} THEN 2 ELSE 1
      [] n = 1 /\ d = "start"          -> IF U # {} \/ ~(A \subseteq M) THEN 2 ELSE 1
      [] OTHER                         -> IF Whole(A, U) /\ M = {} THEN 0 ELSE 1
ConsumerDebt ==
    ConsumerOwes(doing["spider"], at, due["spider"],
                 alive["consumer"], due["consumer"], doomed["consumer"])

ConsumerPaid == restarts["consumer"] + ConsumerDebt <= 1 + Causes + 2 * restarts["spider"]

\* Its cases.
LEMMA ConsumerOwesIs ==
    ASSUME NEW d, NEW n, NEW V, NEW A, NEW U, NEW M
    PROVE  /\ d = "down" => ConsumerOwes(d, n, V, A, U, M) = IF V # {} THEN 2 ELSE 0
           /\ n = 1 /\ d = "count" /\ U # {} => ConsumerOwes(d, n, V, A, U, M) = 2
           /\ n = 1 /\ d = "kill" => ConsumerOwes(d, n, V, A, U, M) = IF U # {} THEN 2 ELSE 1
           /\ n = 1 /\ d = "start" =>
                ConsumerOwes(d, n, V, A, U, M) = IF U # {} \/ ~(A \subseteq M) THEN 2 ELSE 1
           /\ d # "down" /\ ~(n = 1 /\ (d = "kill" \/ d = "start" \/ (d = "count" /\ U # {})))
              => ConsumerOwes(d, n, V, A, U, M) = IF Whole(A, U) /\ M = {} THEN 0 ELSE 1
           /\ ConsumerOwes(d, n, V, A, U, M) \in {0, 1, 2}
  BY DEF ConsumerOwes

\* All consumers of one start are as many as the spider expects.
LEMMA WholeCounts ==
    ASSUME due["consumer"] = {}, Whole(alive["consumer"], due["consumer"])
    PROVE  ~Wrong("consumer")
  <1> DEFINE A == alive["consumer"]
  <1>1. PICK n \in Nat \ {0} : Children["consumer"] = 1..n /\ Expected["consumer"] = n + 1
    BY ChildrenAre
  <1>2. PICK g \in Nat \ {0} :
            Proc(g, Main) \in A /\ A \subseteq Pair(g) \cup Kids(g) /\ Kids(g) \subseteq A
    BY DEF Whole
  <1> DEFINE C == {p \in A : p.role = Shell => "consumer" = "spider"}
             f == [r \in 0..n |-> Proc(g, r)]
  <1>3. \A r \in 0..n : f[r] \in C
    <2> TAKE r \in 0..n
    <2>1. f[r] = Proc(g, r) /\ Proc(g, r).role # Shell
      BY DEF Proc, Shell
    <2>2. Proc(g, r) \in A
      <3>1. CASE r = 0
        BY <1>2, <3>1 DEF Main
      <3>2. CASE r # 0
        <4>1. r \in Children["consumer"]
          BY <1>1, <3>2
        <4> QED
          BY <1>2, <4>1 DEF Kids
      <3> QED
        BY <3>1, <3>2
    <2> QED
      BY <2>1, <2>2
  <1>4. \A p \in C : \E r \in 0..n : f[r] = p
    <2> TAKE p \in C
    <2>1. p \in A /\ p.role # Shell
      OBVIOUS
    <2>2. p # Proc(g, Shell)
      BY <2>1 DEF Proc
    <2>3. p = Proc(g, Main) \/ p \in Kids(g)
      BY <1>2, <2>1, <2>2 DEF Pair
    <2>4. \E r \in 0..n : p = Proc(g, r)
      <3>1. CASE p = Proc(g, Main)
        BY <1>1, <3>1 DEF Main
      <3>2. CASE p \in Kids(g)
        <4>1. PICK r \in 1..n : p = Proc(g, r)
          BY <1>1, <3>2 DEF Kids
        <4> QED
          BY <4>1
      <3> QED
        BY <2>3, <3>1, <3>2
    <2> QED
      BY <2>4
  <1>5. \A r, s \in 0..n : f[r] = f[s] => r = s
    BY DEF Proc
  <1>6. f \in Bijection(0..n, C)
    <2>1. f \in [0..n -> C]
      BY <1>3
    <2>2. IsInjective(f)
      BY <1>5 DEF IsInjective
    <2> HIDE DEF f
    <2> QED
      BY <1>4, <2>1, <2>2 DEF Bijection, Injection, Surjection
  <1>7. IsFiniteSet(0..n) /\ Cardinality(0..n) = n + 1
    BY FS_Interval
  <1> HIDE DEF f, C
  <1>8. Cardinality(C) = n + 1
    BY <1>6, <1>7, FS_Bijection DEF ExistsBijection
  <1>9. Count("consumer") = n + 1
    BY <1>8 DEF Count, C
  <1> QED
    BY <1>1, <1>9 DEF Wrong

\* None of them ends by itself, and nobody stands by.
LEMMA WholeStays ==
    ASSUME NEW A, NEW U, Whole(A, U)
    PROVE  /\ \A p \in A : p.role \in {Shell, Main} =>
                Offspring("consumer", p) \cap (A \cup U) # {}
           /\ TheStranger \notin A
  <1>1. PICK g \in Nat \ {0} :
        \/ A = {Proc(g, Shell)} /\ U = {Proc(g, Main)}
        \/ /\ Proc(g, Main) \in A
           /\ A \cup U \subseteq Pair(g) \cup Kids(g)
           /\ Kids(g) \subseteq A \cup U
    BY DEF Whole
  <1>2. PICK n \in Nat \ {0} : Children["consumer"] = 1..n
    BY ChildrenAre
  <1>3. \A p \in A : p = Proc(g, Shell) \/ p = Proc(g, Main) \/ p \in Kids(g)
    BY <1>1 DEF Pair
  <1>4. \A p \in Kids(g) : p.role \in Nat \ {0} /\ p.gen = g
    BY <1>2 DEF Kids, Proc
  <1>5. TheStranger \notin A
    BY <1>3, <1>4 DEF Proc, Shell, Main, Stranger, TheStranger
  <1>6. ASSUME NEW p \in A, p.role \in {Shell, Main}
        PROVE  Offspring("consumer", p) \cap (A \cup U) # {}
    <2>1. p.role = Shell => Offspring("consumer", p) = {Proc(g, Main)}
      BY <1>3, <1>4, OffspringIs DEF Proc
    <2>2. CASE p.role = Shell
      BY <1>1, <2>1, <2>2
    <2>3. CASE p.role = Main
      <3>1. p = Proc(g, Main)
        BY <1>3, <1>4, <2>3 DEF Proc, Main, Shell
      <3>2. Offspring("consumer", p) = Kids(g)
        BY <2>3, <3>1, OffspringIs DEF Kids, Proc
      <3>3. 1 \in Children["consumer"]
        BY <1>2
      <3>4. Proc(g, 1) \in Kids(g)
        BY <3>3 DEF Kids
      <3>5. Kids(g) \subseteq A \cup U
        BY <1>1, <3>1 DEF Proc, Main, Shell
      <3> QED
        BY <3>2, <3>4, <3>5
    <2> QED
      BY <1>6, <2>2, <2>3
  <1> QED
    BY <1>5, <1>6

\* They start in order.
LEMMA WholeLaunches ==
    ASSUME NEW A, NEW U, NEW M, Whole(A, U), Tidy("consumer", A, U, M), NEW p \in U
    PROVE  Whole(A \cup {p}, (U \ {p}) \cup Offspring("consumer", p))
  <1>1. PICK g \in Nat \ {0} :
        \/ A = {Proc(g, Shell)} /\ U = {Proc(g, Main)}
        \/ /\ Proc(g, Main) \in A
           /\ A \cup U \subseteq Pair(g) \cup Kids(g)
           /\ Kids(g) \subseteq A \cup U
    BY DEF Whole
  <1>2. CASE A = {Proc(g, Shell)} /\ U = {Proc(g, Main)}
    <2>1. Offspring("consumer", p) = Kids(g)
      BY <1>2, OffspringIs DEF Kids, Proc
    <2> QED
      BY <1>2, <2>1 DEF Whole, Pair
  <1>3. CASE /\ Proc(g, Main) \in A
             /\ A \cup U \subseteq Pair(g) \cup Kids(g)
             /\ Kids(g) \subseteq A \cup U
    <2>1. "consumer" \in Components
      BY DEF Components
    <2>2. p.role = Main \/ p.role \in Children["consumer"]
      BY <2>1, ParentOf
    <2>3. p \notin A
      BY DEF Tidy
    <2>4. p # Proc(g, Main)
      BY <1>3, <2>3
    <2>5. p \in Kids(g)
      <3>1. p # Proc(g, Shell)
        BY <2>1, <2>2, ChildrenAre DEF Proc, Shell, Main
      <3> QED
        BY <1>3, <2>4, <3>1 DEF Pair
    <2>6. p.role \in Nat \ {0}
      BY <2>1, <2>5, ChildrenAre DEF Kids, Proc
    <2>7. Offspring("consumer", p) = {}
      <3>1. p.role \notin {Shell, Main}
        BY <2>6 DEF Shell, Main
      <3> QED
        BY <3>1, OffspringIs
    <2>8. (A \cup {p}) \cup ((U \ {p}) \cup Offspring("consumer", p)) = A \cup U
      BY <2>7
    <2> QED
      BY <1>3, <2>8 DEF Whole
  <1> QED
    BY <1>1, <1>2, <1>3

\* With fewer processes, whose kill has not less to do, no more is owed, unless the
\* consumers were whole.
LEMMA FewerOwe ==
    ASSUME NEW d, NEW n, NEW W, NEW A, NEW U, NEW M, NEW B, NEW V, NEW N,
           V \subseteq U, A \subseteq M => B \subseteq N
    PROVE  /\ ConsumerOwes(d, n, W, B, V, N) <= ConsumerOwes(d, n, W, A, U, M) + 1
           /\ ~(Whole(A, U) /\ M = {}) =>
                ConsumerOwes(d, n, W, B, V, N) <= ConsumerOwes(d, n, W, A, U, M)
  <1> DEFINE before == ConsumerOwes(d, n, W, A, U, M)
             after == ConsumerOwes(d, n, W, B, V, N)
  <1>1. before \in {0, 1, 2} /\ after \in {0, 1, 2}
    BY ConsumerOwesIs
  <1>2. CASE d = "down"
    <2>1. before = after
      BY <1>2, ConsumerOwesIs
    <2> HIDE DEF before, after
    <2>2. after <= before /\ after <= before + 1
      BY <1>1, <2>1
    <2> QED
      BY <2>2 DEF before, after
  <1>3. CASE n = 1 /\ d = "count" /\ U # {}
    <2>1. before = 2
      BY <1>3, ConsumerOwesIs
    <2> HIDE DEF before, after
    <2>2. after <= before /\ after <= before + 1
      BY <1>1, <2>1
    <2> QED
      BY <2>2 DEF before, after
  <1>4. CASE n = 1 /\ d = "kill"
    <2>1. before = (IF U # {} THEN 2 ELSE 1) /\ after = IF V # {} THEN 2 ELSE 1
      BY <1>4, ConsumerOwesIs
    <2> HIDE DEF before, after
    <2>2. after <= before /\ after <= before + 1
      BY <2>1
    <2> QED
      BY <2>2 DEF before, after
  <1>5. CASE n = 1 /\ d = "start"
    <2>1. /\ before = IF U # {} \/ ~(A \subseteq M) THEN 2 ELSE 1
          /\ after = IF V # {} \/ ~(B \subseteq N) THEN 2 ELSE 1
      BY <1>5, ConsumerOwesIs
    <2> HIDE DEF before, after
    <2>2. after <= before /\ after <= before + 1
      BY <2>1
    <2> QED
      BY <2>2 DEF before, after
  <1>6. CASE d # "down" /\ ~(n = 1 /\ (d = "kill" \/ d = "start" \/ (d = "count" /\ U # {})))
    <2>1. before = IF Whole(A, U) /\ M = {} THEN 0 ELSE 1
      BY <1>6, ConsumerOwesIs
    <2>2. after \in {0, 1}
      <3>1. d # "down" /\ ~(n = 1 /\ (d = "kill" \/ d = "start" \/ (d = "count" /\ V # {})))
        BY <1>6
      <3>2. after = IF Whole(B, V) /\ N = {} THEN 0 ELSE 1
        BY <3>1, ConsumerOwesIs
      <3> QED
        BY <3>2
    <2> HIDE DEF before, after
    <2>3. after <= before + 1 /\ (~(Whole(A, U) /\ M = {}) => after <= before)
      BY <2>1, <2>2
    <2> QED
      BY <2>3 DEF before, after
  <1> QED
    BY <1>2, <1>3, <1>4, <1>5, <1>6

\* What is owed does not grow, or what has happened does.
LEMMA ConsumerDebtStep ==
    ASSUME ConsumerPaid, Control, NEW n \in Nat, ConsumerDebt' <= ConsumerDebt + n,
           restarts'["consumer"] = restarts["consumer"],
           restarts'["spider"] = restarts["spider"],
           Causes' = Causes + n, Causes' \in Nat
    PROVE  ConsumerPaid'
  <1> DEFINE old == ConsumerDebt
             new == ConsumerDebt'
             r == restarts["consumer"]
             s == restarts["spider"]
             f == Causes
             e == Causes'
  <1>1. old \in {0, 1, 2} /\ new \in {0, 1, 2}
    BY ConsumerOwesIs DEF ConsumerDebt
  <1>2. r \in Nat /\ s \in Nat /\ f \in Nat /\ e \in Nat
    BY SupervisionBounds DEF Control, Counted, Causes
  <1>3. r + old <= 1 + f + 2 * s /\ new <= old + n /\ e = f + n
    BY DEF ConsumerPaid
  <1>4. r + new <= 1 + e + 2 * s
    <2> HIDE DEF r, old, new, s, f, e
    <2> QED
      BY <1>1, <1>2, <1>3
  <1> QED
    BY <1>4 DEF ConsumerPaid

\* Processes end.  If consumers that were whole do, one of them died.
LEMMA GoneConsumerDebt ==
    ASSUME Supervised, NEW c \in Components, NEW S, Gone(c, S)
    PROVE  /\ ConsumerDebt' <= ConsumerDebt + 1
           /\ \/ c # "consumer"
              \/ ~(Whole(alive["consumer"], due["consumer"]) /\ doomed["consumer"] = {})
              => ConsumerDebt' <= ConsumerDebt
  <1> DEFINE d == doing["spider"]
             W == due["spider"]
             A == alive["consumer"]
             U == due["consumer"]
             M == doomed["consumer"]
             B == alive'["consumer"]
             V == due'["consumer"]
             N == doomed'["consumer"]
  <1>1. "spider" \in Components /\ "consumer" \in Components
    BY DEF Components
  <1>2. ConsumerDebt \in {0, 1, 2} /\ ConsumerDebt' \in {0, 1, 2}
    BY ConsumerOwesIs DEF ConsumerDebt
  <1>3. ConsumerDebt = ConsumerOwes(d, at, W, A, U, M)
        /\ ConsumerDebt' = ConsumerOwes(d', at', W', B, V, N)
    BY DEF ConsumerDebt
  <1>4. CASE c = "consumer"
    <2>1. B = A \ S /\ N = M \ S /\ V \subseteq U /\ W' = W /\ UNCHANGED actors
      BY <1>1, <1>4, GoneIs
    <2>2. d' = d /\ at' = at
      BY <2>1 DEF actors
    <2> HIDE DEF A, U, M, B, V, N, W, d
    <2>3. ConsumerDebt' = ConsumerOwes(d, at, W, B, V, N)
      BY <1>3, <2>1, <2>2
    <2>4. A \subseteq M => B \subseteq N
      BY <2>1
    <2>5. /\ ConsumerDebt' <= ConsumerDebt + 1
          /\ ~(Whole(A, U) /\ M = {}) => ConsumerDebt' <= ConsumerDebt
      BY <1>3, <2>1, <2>3, <2>4, FewerOwe
    <2> QED
      BY <1>4, <2>5 DEF A, U, M
  <1>5. CASE c # "consumer"
    <2>1. B = A /\ N = M /\ V = U
      <3>1. \A e \in Components : e # c => /\ alive'[e] = alive[e] /\ due'[e] = due[e]
                                            /\ doomed'[e] = doomed[e]
        BY GoneIs
      <3> QED
        BY <1>1, <1>5, <3>1
    <2>2. CASE UNCHANGED actors
      <3>1. d' = d /\ at' = at
        BY <2>2 DEF actors
      <3>2. W' \subseteq W
        BY <1>1, GoneIs
      <3>3. d # "down" => W' = W
        BY <3>2 DEF Supervised, OneSpider
      <3>4. ConsumerDebt' <= ConsumerDebt
        <4>1. CASE d = "down"
          <5>1. ConsumerDebt = (IF W # {} THEN 2 ELSE 0) /\ ConsumerDebt' = IF W' # {} THEN 2 ELSE 0
            BY <1>3, <3>1, <4>1, ConsumerOwesIs
          <5> QED
            BY <3>2, <5>1
        <4>2. CASE d # "down"
          <5>1. ConsumerDebt' = ConsumerDebt
            BY <1>3, <2>1, <3>1, <3>3, <4>2
          <5> QED
            BY <1>2, <5>1
        <4> QED
          BY <4>1, <4>2
      <3> HIDE DEF A, U, M
      <3> QED
        BY <1>2, <3>4
    <2>3. CASE /\ SpiderMains(alive) # {} /\ c = "spider"
               /\ doing' = [doing EXCEPT !["spider"] = "down"]
      <3>1. d' = "down"
        BY <2>3 DEF Supervised, Control, Actors
      <3>2. W' = {}
        <4>1. W = {}
          BY <2>3 DEF Supervised, OneSpider
        <4> QED
          BY <2>3, <4>1, GoneIs
      <3>3. ConsumerDebt' = 0
        BY <1>3, <3>1, <3>2, ConsumerOwesIs
      <3>4. ConsumerDebt' <= ConsumerDebt /\ ConsumerDebt' <= ConsumerDebt + 1
        BY <1>2, <3>3
      <3> QED
        BY <3>4
    <2> QED
      BY <2>2, <2>3, GoneIs
  <1> QED
    BY <1>4, <1>5

\* Only a death and a stranger make it worse.
LEMMA ProcessesConsumerDebt ==
    ASSUME Supervised, ConsumerPaid, NEW c \in Components,
           Launch(c) \/ Exit(c) \/ Leave(c) \/ Kill(c) \/ Die(c) \/ Come(c)
    PROVE  ConsumerPaid'
  <1> DEFINE d == doing["spider"]
             W == due["spider"]
             A == alive["consumer"]
             U == due["consumer"]
             M == doomed["consumer"]
             B == alive'["consumer"]
             V == due'["consumer"]
  <1>1. "spider" \in Components /\ "consumer" \in Components /\ Control /\ 0 \in Nat /\ 1 \in Nat
    BY DEF Components, Supervised
  <1>2. ConsumerDebt \in {0, 1, 2} /\ ConsumerDebt' \in {0, 1, 2}
    BY ConsumerOwesIs DEF ConsumerDebt
  <1>3. CASE Exit(c) \/ Leave(c) \/ Kill(c)
    <2>1. PICK S : /\ Gone(c, S) /\ UNCHANGED history
                   /\ \/ c # "consumer"
                      \/ ~(Whole(alive["consumer"], due["consumer"]) /\ doomed["consumer"] = {})
      <3>1. CASE Exit(c)
        <4>1. PICK p \in alive[c] : AtEnd(c, p) /\ Gone(c, {p}) /\ UNCHANGED history
          BY <3>1 DEF Exit
        <4>2. CASE c = "consumer"
          <5>1. p \in A /\ p.role \in {Shell, Main} /\ Offspring("consumer", p) \cap (A \cup U) = {}
            BY <4>1, <4>2 DEF AtEnd
          <5> HIDE DEF A, U
          <5>2. ~Whole(A, U)
            BY <5>1, WholeStays
          <5> QED
            BY <4>1, <5>2 DEF A, U
        <4> QED
          BY <4>1, <4>2
      <3>2. CASE Leave(c)
        BY <3>2, WholeStays DEF Leave
      <3>3. CASE Kill(c)
        BY <3>3 DEF Kill
      <3> QED
        BY <1>3, <3>1, <3>2, <3>3
    <2>2. ConsumerDebt' <= ConsumerDebt
      BY <2>1, GoneConsumerDebt
    <2>3. /\ ConsumerDebt' <= ConsumerDebt + 0
          /\ restarts' = restarts /\ Causes' \in Nat
          /\ Causes' = Causes + 0
      BY <1>2, <2>1, <2>2 DEF history, Supervised, Control, Causes
    <2> QED
      BY <1>1, <2>3, ConsumerDebtStep
  <1>4. CASE Die(c)
    <2>1. /\ deaths' = deaths + 1 /\ strangers' = strangers /\ restarts' = restarts
      BY <1>4, DieIs
    <2>2. ConsumerDebt' <= ConsumerDebt + 1
      <3>1. CASE \E S : Gone(c, S)
        BY <3>1, GoneConsumerDebt
      <3>2. CASE ~\E S : Gone(c, S)
        <4>1. /\ c = "proxy" /\ UNCHANGED actors
              /\ \A e \in Components : e # c => /\ alive'[e] = alive[e] /\ due'[e] = due[e]
                                                /\ doomed'[e] = doomed[e]
          BY <1>4, <3>2, DieIs
        <4>2. doing' = doing /\ at' = at /\ due'["spider"] = due["spider"]
              /\ alive'["consumer"] = alive["consumer"] /\ due'["consumer"] = due["consumer"]
              /\ doomed'["consumer"] = doomed["consumer"]
          BY <1>1, <4>1 DEF actors
        <4>3. ConsumerDebt' = ConsumerDebt
          BY <4>2 DEF ConsumerDebt
        <4> QED
          BY <1>2, <4>3
      <3> QED
        BY <3>1, <3>2
    <2>3. /\ Causes' \in Nat
          /\ Causes' = Causes + 1
      BY <2>1 DEF Supervised, Control, Causes
    <2> QED
      BY <1>1, <2>1, <2>2, <2>3, ConsumerDebtStep
  <1>5. CASE Come(c)
    <2>1. /\ due' = due /\ doomed' = doomed /\ doing' = doing /\ at' = at /\ restarts' = restarts
          /\ deaths' = deaths /\ strangers' = strangers + 1
      BY <1>5, ComeIs
    <2>2. ConsumerDebt = ConsumerOwes(d, at, W, A, U, M) /\ ConsumerDebt' = ConsumerOwes(d, at, W, B, U, M)
      BY <2>1 DEF ConsumerDebt
    <2> HIDE DEF d, A, B, U, M, W
    <2>3. ConsumerDebt' <= ConsumerDebt + 1
      <3>1. CASE d = "down" \/ (at = 1 /\ (d = "kill" \/ (d = "count" /\ U # {})))
        <4>1. ConsumerOwes(d, at, W, B, U, M) = ConsumerOwes(d, at, W, A, U, M)
          <5>1. CASE d = "down"
            BY <5>1, ConsumerOwesIs
          <5>2. CASE at = 1 /\ d = "kill"
            BY <5>2, ConsumerOwesIs
          <5>3. CASE at = 1 /\ d = "count" /\ U # {}
            BY <5>3, ConsumerOwesIs
          <5> QED
            BY <3>1, <5>1, <5>2, <5>3
        <4>2. ConsumerDebt' = ConsumerDebt
          BY <2>2, <4>1
        <4> QED
          BY <1>2, <4>2
      <3>2. CASE at = 1 /\ d = "start"
        <4>1. ConsumerDebt \in {1, 2} /\ ConsumerDebt' \in {1, 2}
          BY <2>2, <3>2, ConsumerOwesIs
        <4> QED
          BY <4>1
      <3>3. CASE /\ d # "down"
                 /\ ~(at = 1 /\ (d = "kill" \/ d = "start" \/ (d = "count" /\ U # {})))
        <4>1. ConsumerDebt = (IF Whole(A, U) /\ M = {} THEN 0 ELSE 1)
              /\ ConsumerDebt' = IF Whole(B, U) /\ M = {} THEN 0 ELSE 1
          BY <2>2, <3>3, ConsumerOwesIs
        <4>2. ConsumerDebt \in {0, 1} /\ ConsumerDebt' \in {0, 1}
          BY <4>1
        <4> QED
          BY <4>2
      <3> QED
        BY <3>1, <3>2, <3>3
    <2>4. /\ Causes' \in Nat
          /\ Causes' = Causes + 1
      BY <2>1 DEF Supervised, Control, Causes
    <2> QED
      BY <1>1, <2>1, <2>3, <2>4, ConsumerDebtStep
  <1>6. CASE Launch(c)
    <2>1. PICK p \in due[c] :
             /\ alive'[c] = alive[c] \cup {p}
             /\ due'[c] = (due[c] \ {p}) \cup Offspring(c, p)
             /\ \A e \in Components : e # c => alive'[e] = alive[e] /\ due'[e] = due[e]
             /\ doing' = IF c = "spider" THEN [doing EXCEPT !["spider"] = "count"] ELSE doing
             /\ UNCHANGED <<doomed, at, counter, history>>
      BY <1>6, LaunchIs
    <2>2. ConsumerDebt' <= ConsumerDebt
      <3>1. CASE c = "spider"
        <4>1. d = "down" /\ W # {}
          BY <2>1, <3>1 DEF Supervised, OneSpider
        <4>2. ConsumerDebt = 2
          BY <4>1, ConsumerOwesIs DEF ConsumerDebt
        <4> QED
          BY <1>2, <4>2
      <3>2. CASE c = "consumer"
        <4>1. /\ B = A \cup {p} /\ V = (U \ {p}) \cup Offspring("consumer", p) /\ p \in U
              /\ W' = W /\ d' = d /\ M' = M /\ at' = at
          BY <1>1, <2>1, <3>2
        <4>2. Tidy("consumer", A, U, M)
          BY <1>1 DEF Supervised, Tables
        <4>3. ConsumerDebt = ConsumerOwes(d, at, W, A, U, M) /\ ConsumerDebt' = ConsumerOwes(d, at, W, B, V, M)
          BY <4>1 DEF ConsumerDebt
        <4> HIDE DEF A, U, M, B, V, W, d
        <4>4. U # {}
          BY <4>1
        <4>5. CASE d = "down"
          <5>1. ConsumerDebt' = ConsumerDebt
            BY <4>3, <4>5, ConsumerOwesIs
          <5> QED
            BY <1>2, <5>1
        <4>6. CASE d # "down" /\ at = 1 /\ d \in {"count", "kill", "start"}
          <5>1. ConsumerDebt = 2
            <6>1. CASE d = "count"
              BY <4>3, <4>4, <4>6, <6>1, ConsumerOwesIs
            <6>2. CASE d = "kill"
              BY <4>3, <4>4, <4>6, <6>2, ConsumerOwesIs
            <6>3. CASE d = "start"
              BY <4>3, <4>4, <4>6, <6>3, ConsumerOwesIs
            <6> QED
              BY <4>6, <6>1, <6>2, <6>3
          <5> QED
            BY <1>2, <5>1
        <4>7. CASE d # "down" /\ ~(at = 1 /\ d \in {"count", "kill", "start"})
          <5>1. ConsumerDebt = IF Whole(A, U) /\ M = {} THEN 0 ELSE 1
            BY <4>3, <4>7, ConsumerOwesIs
          <5>2. ConsumerDebt' = IF Whole(B, V) /\ M = {} THEN 0 ELSE 1
            BY <4>3, <4>7, ConsumerOwesIs
          <5>3. Whole(A, U) => Whole(B, V)
            BY <4>1, <4>2, WholeLaunches
          <5> QED
            BY <5>1, <5>2, <5>3
        <4> QED
          BY <4>5, <4>6, <4>7
      <3>3. CASE c \notin {"spider", "consumer"}
        <4>1. doing' = doing /\ at' = at /\ due'["spider"] = due["spider"]
              /\ alive'["consumer"] = alive["consumer"] /\ due'["consumer"] = due["consumer"]
              /\ doomed' = doomed
          BY <1>1, <2>1, <3>3
        <4>2. ConsumerDebt' = ConsumerDebt
          BY <4>1 DEF ConsumerDebt
        <4> QED
          BY <1>2, <4>2
      <3> QED
        BY <3>1, <3>2, <3>3
    <2>3. /\ restarts' = restarts /\ Causes' \in Nat
          /\ Causes' = Causes + 0
      BY <2>1 DEF history, Supervised, Control, Causes
    <2>4. ConsumerDebt' <= ConsumerDebt + 0
      BY <1>2, <2>2
    <2> QED
      BY <1>1, <2>3, <2>4, ConsumerDebtStep
  <1> QED
    BY <1>3, <1>4, <1>5, <1>6

\* Where the spider does not look at the consumers, only they matter.
Elsewhere(d, n, U) == d # "down" /\ ~(n = 1 /\ (d = "kill" \/ d = "start" \/ (d = "count" /\ U # {})))

\* Between two such places what is owed is the same.
LEMMA ElsewhereSteady ==
    ASSUME NEW d, NEW n, NEW e, NEW m, NEW V, NEW W, NEW A, NEW U, NEW M,
           Elsewhere(d, n, U), Elsewhere(e, m, U)
    PROVE  ConsumerOwes(e, m, W, A, U, M) = ConsumerOwes(d, n, V, A, U, M)
  BY ConsumerOwesIs DEF Elsewhere

\* A call of the spider that only looks.
LEMMA LooksConsumerDebt ==
    ASSUME Supervised, CountProcesses("spider") \/ Launched("spider") \/ Wake("spider") \/ RestartDash
    PROVE  ConsumerDebt' <= ConsumerDebt
  <1> DEFINE d == doing["spider"]
             W == due["spider"]
             A == alive["consumer"]
             U == due["consumer"]
             M == doomed["consumer"]
  <1>1. "spider" \in Actors /\ Control /\ "consumer" \in Components
    BY DEF Actors, Supervised, Components
  <1>2. ConsumerDebt \in {0, 1, 2} /\ ConsumerDebt' \in {0, 1, 2}
    BY ConsumerOwesIs DEF ConsumerDebt
  <1>3. UNCHANGED <<alive, due, doomed>>
    BY DEF CountProcesses, Launched, Wake, RestartDash
  <1>4. /\ ConsumerDebt = ConsumerOwes(d, at, W, A, U, M)
        /\ ConsumerDebt' = ConsumerOwes(d', at', W, A, U, M)
    BY <1>3 DEF ConsumerDebt
  <1>5. at \in {1, 2, 3, 4}
    BY <1>1 DEF Control, RestartDashCall
  <1>6. CASE Elsewhere(d, at, U) /\ Elsewhere(d', at', U)
    <2>1. ConsumerOwes(d', at', W, A, U, M) = ConsumerOwes(d, at, W, A, U, M)
      BY <1>6, ElsewhereSteady
    <2>2. ConsumerDebt' = ConsumerDebt
      BY <1>4, <2>1
    <2> QED
      BY <1>2, <2>2
  <1>7. Return("spider") => \/ at = 4 /\ d' = "sleep" /\ at' = at
                            \/ at # 4 /\ d' = "count" /\ at' = at + 1
    BY <1>1 DEF Return, RestartDashCall, Control
  <1>8. CASE CountProcesses("spider")
    <2>1. d = "count" /\ at # 4
      BY <1>8 DEF CountProcesses, RestartDashCall
    <2>2. CASE at = 1 /\ Wrong("consumer")
      <3>1. d' = "kill" /\ at' = 1
        BY <1>1, <1>8, <2>2, TargetIs DEF CountProcesses, Control
      <3>2. CASE U # {}
        <4>1. ConsumerDebt = 2
          BY <1>4, <2>1, <2>2, <3>2, ConsumerOwesIs
        <4> QED
          BY <1>2, <4>1
      <3>3. CASE U = {}
        <4>1. ~Whole(A, U)
          BY <2>2, <3>3, WholeCounts
        <4>2. ConsumerOwes(d, at, W, A, U, M) = IF Whole(A, U) /\ M = {} THEN 0 ELSE 1
          BY <2>1, <3>3, ConsumerOwesIs
        <4>3. ConsumerOwes(d', at', W, A, U, M) = 1
          BY <3>1, <3>3, ConsumerOwesIs
        <4>4. ConsumerDebt = 1 /\ ConsumerDebt' = 1
          BY <1>4, <4>1, <4>2, <4>3
        <4> QED
          BY <4>4
      <3> QED
        BY <3>2, <3>3
    <2>3. CASE at = 1 /\ ~Wrong("consumer")
      <3>1. Return("spider")
        BY <1>1, <1>8, <2>3, TargetIs DEF CountProcesses
      <3>2. d' = "count" /\ at' = 2
        BY <1>7, <2>3, <3>1
      <3>3. Elsewhere(d', at', U)
        BY <3>2 DEF Elsewhere
      <3>4. CASE U = {}
        BY <1>6, <2>1, <3>3, <3>4 DEF Elsewhere
      <3>5. CASE U # {}
        <4>1. ConsumerDebt = 2
          BY <1>4, <2>1, <2>3, <3>5, ConsumerOwesIs
        <4> QED
          BY <1>2, <4>1
      <3> QED
        BY <3>4, <3>5
    <2>4. CASE at # 1
      <3>1. d' \in {"count", "kill", "sleep"} /\ at' # 1
        <4>1. CASE Wrong(Target("spider"))
          BY <1>1, <1>8, <2>4, <4>1 DEF CountProcesses, Control
        <4>2. CASE ~Wrong(Target("spider"))
          <5>1. Return("spider")
            BY <1>8, <4>2 DEF CountProcesses
          <5> QED
            BY <1>5, <1>7, <2>4, <5>1
        <4> QED
          BY <4>1, <4>2
      <3>2. Elsewhere(d, at, U) /\ Elsewhere(d', at', U)
        BY <2>1, <2>4, <3>1 DEF Elsewhere
      <3> QED
        BY <1>6, <3>2
    <2> QED
      BY <2>2, <2>3, <2>4
  <1>9. CASE Launched("spider")
    <2>1. d = "launch" /\ d' \in {"count", "sleep"} /\ (d' = "count" => at' # 1)
      BY <1>5, <1>7, <1>9 DEF Launched
    <2>2. Elsewhere(d, at, U) /\ Elsewhere(d', at', U)
      BY <2>1 DEF Elsewhere
    <2> QED
      BY <1>6, <2>2
  <1>10. CASE Wake("spider")
    <2>1. d = "sleep" /\ d' = "count"
      BY <1>1, <1>10 DEF Wake, Control
    <2>2. U = {}
      BY <1>1, <1>10 DEF Wake, Tended
    <2>3. Elsewhere(d, at, U) /\ Elsewhere(d', at', U)
      BY <2>1, <2>2 DEF Elsewhere
    <2> QED
      BY <1>6, <2>3
  <1>11. CASE RestartDash
    <2>1. d = "count" /\ at = 4 /\ d' \in {"kill", "sleep"} /\ at' = 4
      BY <1>1, <1>7, <1>11 DEF RestartDash, RestartDashCall, Control
    <2>2. Elsewhere(d, at, U) /\ Elsewhere(d', at', U)
      BY <2>1 DEF Elsewhere
    <2> QED
      BY <1>6, <2>2
  <1> QED
    BY <1>8, <1>9, <1>10, <1>11

\* spider_alive restarts the spider: two restarts of consumers may follow.
LEMMA AliveConsumerDebt ==
    ASSUME Supervised, SpiderPaid, ConsumerPaid, Start("spider_alive")
    PROVE  ConsumerPaid'
  <1>1. "spider_alive" \in Actors /\ Control /\ Target("spider_alive") = "spider"
        /\ "consumer" \in Components
    BY DEF Actors, Supervised, Components, Target
  <1>2. PICK g \in Nat \ {0} :
             /\ doing["spider_alive"] = "start" /\ doomed["spider"] = {}
             /\ restarts' = [c \in Counted |-> restarts[c]
                    + IF "spider" = c /\ restarts[c] < MaxRestarts THEN 1 ELSE 0]
             /\ deaths' = deaths /\ strangers' = strangers
    BY <1>1, StartIs
  <1>3. SpiderDebt \in {1, 2}
    BY <1>2, SpiderOwesIs DEF SpiderDebt
  <1>4. /\ restarts["spider"] \in Nat /\ restarts["consumer"] \in Nat
        /\ Causes \in Nat /\ Causes <= MaxFaults /\ Causes' = Causes
        /\ MaxFaults \in Nat /\ MaxRestarts \in Nat /\ MaxRestarts > MaxFaults + 1
    BY <1>1, <1>2, SupervisionBounds DEF Control, Counted, Causes
  <1>5. restarts["spider"] < MaxRestarts
    <2> DEFINE r == restarts["spider"]
               o == SpiderDebt
    <2>1. r + o <= 1 + Causes /\ r \in Nat /\ o \in {1, 2}
      BY <1>3, <1>4 DEF SpiderPaid
    <2> HIDE DEF r, o
    <2>2. r < MaxRestarts
      BY <1>4, <2>1
    <2> QED
      BY <2>2 DEF r
  <1>6. restarts'["spider"] = restarts["spider"] + 1 /\ restarts'["consumer"] = restarts["consumer"]
    <2>1. /\ restarts'["spider"] = restarts["spider"]
               + IF "spider" = "spider" /\ restarts["spider"] < MaxRestarts THEN 1 ELSE 0
          /\ restarts'["consumer"] = restarts["consumer"]
               + IF "spider" = "consumer" /\ restarts["consumer"] < MaxRestarts THEN 1 ELSE 0
      BY <1>2 DEF Counted
    <2> QED
      BY <1>4, <1>5, <2>1
  <1>7. doing["spider"] = "down" /\ due["spider"] = {}
    BY <1>2 DEF Supervised, OneSpider
  <1>8. ConsumerDebt = 0 /\ ConsumerDebt' \in {0, 1, 2}
    BY <1>7, ConsumerOwesIs DEF ConsumerDebt
  <1> DEFINE r == restarts["consumer"]
             s == restarts["spider"]
             t == restarts'["spider"]
             o == ConsumerDebt
             p == ConsumerDebt'
  <1>9. r + o <= 1 + Causes + 2 * s
    BY DEF ConsumerPaid
  <1>10. r + p <= 1 + Causes + 2 * t
    <2>1. o = 0 /\ p \in {0, 1, 2} /\ r \in Nat /\ s \in Nat /\ t = s + 1
      BY <1>4, <1>6, <1>8
    <2> HIDE DEF r, s, t, o, p
    <2>2. 2 * t = 2 * s + 2
      BY <2>1
    <2> QED
      BY <1>4, <1>9, <2>1, <2>2
  <1> QED
    BY <1>4, <1>6, <1>10 DEF ConsumerPaid

\* The spider restarts the consumers, or another component.
LEMMA StartConsumerDebt ==
    ASSUME Supervised, ConsumerPaid, Start("spider")
    PROVE  ConsumerPaid'
  <1> DEFINE d == doing["spider"]
             W == due["spider"]
             A == alive["consumer"]
             U == due["consumer"]
             M == doomed["consumer"]
             B == alive'["consumer"]
             V == due'["consumer"]
  <1>1. "spider" \in Actors /\ Control /\ "consumer" \in Components /\ "spider" \in Components
        /\ 0 \in Nat
    BY DEF Actors, Supervised, Components
  <1>2. ConsumerDebt \in {0, 1, 2} /\ ConsumerDebt' \in {0, 1, 2}
    BY ConsumerOwesIs DEF ConsumerDebt
  <1>3. PICK g \in Nat \ {0} :
             /\ d = "start" /\ doomed[Target("spider")] = {}
             /\ doing' = [doing EXCEPT !["spider"] = "launch"]
             /\ alive'[Target("spider")] = alive[Target("spider")] \cup {Proc(g, Shell)}
             /\ due'[Target("spider")] = due[Target("spider")] \cup {Proc(g, Main)}
             /\ \A e \in Components : e # Target("spider") => alive'[e] = alive[e] /\ due'[e] = due[e]
             /\ restarts' = [e \in Counted |-> restarts[e]
                    + IF Target("spider") = e /\ restarts[e] < MaxRestarts THEN 1 ELSE 0]
             /\ doomed' = doomed /\ at' = at /\ counter' = counter
             /\ deaths' = deaths /\ strangers' = strangers
    BY <1>1, StartIs
  <1>4. d' = "launch"
    BY <1>1, <1>3 DEF Control
  <1>5. /\ restarts["spider"] \in Nat /\ restarts["consumer"] \in Nat
        /\ deaths \in Nat /\ strangers \in Nat
    BY <1>1, SupervisionBounds DEF Control, Counted
  <1>6. Target("spider") # "spider"
    BY <1>1, TargetIs
  <1>7. /\ restarts'["spider"] = restarts["spider"]
               + IF Target("spider") = "spider" /\ restarts["spider"] < MaxRestarts THEN 1 ELSE 0
        /\ restarts'["consumer"] = restarts["consumer"]
               + IF Target("spider") = "consumer" /\ restarts["consumer"] < MaxRestarts THEN 1 ELSE 0
    BY <1>3 DEF Counted
  <1>8. restarts'["spider"] = restarts["spider"]
    BY <1>5, <1>6, <1>7
  <1>9. CASE at = 1
    <2>1. Target("spider") = "consumer"
      BY <1>1, <1>9, TargetIs
    <2>2. B = A \cup {Proc(g, Shell)} /\ V = U \cup {Proc(g, Main)} /\ M = {} /\ doomed' = doomed
      BY <1>3, <2>1
    <2>3. ConsumerDebt = ConsumerOwes(d, 1, W, A, U, M)
          /\ ConsumerDebt' = ConsumerOwes(d', 1, W', B, V, M)
      BY <1>3, <1>9 DEF ConsumerDebt
    <2> HIDE DEF A, U, B, V, M, W, d
    <2>4. ConsumerDebt' = IF Whole(B, V) /\ M = {} THEN 0 ELSE 1
      BY <1>4, <2>3, ConsumerOwesIs
    <2>5. ConsumerDebt = IF U # {} \/ ~(A \subseteq M) THEN 2 ELSE 1
      BY <1>3, <2>3, ConsumerOwesIs
    <2>6. ConsumerDebt' + 1 <= ConsumerDebt
      <3>1. CASE A = {} /\ U = {}
        <4>1. Whole(B, V)
          BY <2>2, <3>1 DEF Whole
        <4>2. ConsumerDebt' = 0 /\ ConsumerDebt = 1
          BY <2>2, <2>4, <2>5, <3>1, <4>1
        <4> QED
          BY <4>2
      <3>2. CASE ~(A = {} /\ U = {})
        <4>1. ConsumerDebt = 2
          BY <2>2, <2>5, <3>2
        <4>2. ConsumerDebt' = 0 \/ ConsumerDebt' = 1
          BY <2>4
        <4>3. 0 + 1 <= 2 /\ 1 + 1 <= 2
          OBVIOUS
        <4> QED
          BY <4>1, <4>2, <4>3
      <3> QED
        BY <3>1, <3>2
    <2>7. restarts'["consumer"] \in {restarts["consumer"], restarts["consumer"] + 1}
      BY <1>5, <1>7
    <2> DEFINE r == restarts["consumer"]
               q == restarts'["consumer"]
               s == restarts["spider"]
               o == ConsumerDebt
               p == ConsumerDebt'
    <2>8. r + o <= 1 + Causes + 2 * s
      BY DEF ConsumerPaid
    <2>10. Causes \in Nat /\ Causes' = Causes
      BY <1>3, <1>5, <1>8 DEF Causes
    <2>9. q + p <= 1 + Causes + 2 * s
      <3>1. /\ o \in {0, 1, 2} /\ p \in {0, 1, 2} /\ r \in Nat /\ s \in Nat
            /\ q \in {r, r + 1} /\ p + 1 <= o
        BY <1>2, <1>5, <2>6, <2>7
      <3> HIDE DEF r, q, s, o, p
      <3>2. q + p <= r + o
        BY <3>1
      <3>3. q + p \in Int /\ r + o \in Int /\ 1 + Causes + 2 * s \in Int
        BY <2>10, <3>1
      <3> QED
        BY <2>8, <2>10, <3>2, <3>3
    <2> QED
      BY <1>3, <1>8, <2>9, <2>10 DEF ConsumerPaid
  <1>10. CASE at # 1
    <2>1. Target("spider") # "consumer"
      BY <1>1, <1>10, TargetIs
    <2>2. A = B /\ U = V
      BY <1>1, <1>3, <2>1
    <2>3. Elsewhere(d, at, U) /\ Elsewhere(d', at', U)
      BY <1>3, <1>4, <1>10 DEF Elsewhere
    <2>4. ConsumerOwes(d', at', W', A, U, M) = ConsumerOwes(d, at, W, A, U, M)
      BY <2>3, ElsewhereSteady
    <2>5. ConsumerDebt' = ConsumerDebt
      BY <1>3, <2>2, <2>4 DEF ConsumerDebt
    <2>6. ConsumerDebt' <= ConsumerDebt + 0
      BY <1>2, <2>5
    <2>7. restarts'["consumer"] = restarts["consumer"]
      BY <1>5, <1>7, <2>1
    <2>8. Causes' = Causes + 0 /\ Causes' \in Nat
      BY <1>3, <1>5 DEF Causes
    <2> QED
      BY <1>1, <1>8, <2>6, <2>7, <2>8, ConsumerDebtStep
  <1> QED
    BY <1>9, <1>10

\* What does not change what is owed.
LEMMA ConsumerDebtSteady ==
    ASSUME Control, ConsumerPaid, ConsumerDebt' <= ConsumerDebt,
           restarts' = restarts, deaths' = deaths, strangers' = strangers
    PROVE  ConsumerPaid'
  <1>1. ConsumerDebt \in {0, 1, 2} /\ ConsumerDebt' \in {0, 1, 2}
    BY ConsumerOwesIs DEF ConsumerDebt
  <1>2. ConsumerDebt' <= ConsumerDebt + 0 /\ 0 \in Nat
    BY <1>1
  <1>3. Causes' = Causes + 0 /\ Causes' \in Nat
    BY DEF Control, Causes
  <1> QED
    BY <1>2, <1>3, ConsumerDebtStep

\* The loops.
LEMMA LoopsConsumerDebt ==
    ASSUME Supervised, SpiderPaid, ConsumerPaid, NEW a \in Actors,
           \/ CountProcesses(a) \/ Launched(a) \/ Wake(a) \/ (a = "spider" /\ RestartDash)
           \/ Snapshot(a) \/ Start(a)
    PROVE  ConsumerPaid'
  <1>1. Control /\ "consumer" \in Components /\ "spider" \in Actors
    BY DEF Supervised, Components, Actors
  <1>2. ConsumerDebt \in {0, 1, 2} /\ ConsumerDebt' \in {0, 1, 2}
    BY ConsumerOwesIs DEF ConsumerDebt
  <1>3. CASE a = "spider" /\ (CountProcesses(a) \/ Launched(a) \/ Wake(a) \/ RestartDash)
    <2>1. ConsumerDebt' <= ConsumerDebt
      BY <1>3, LooksConsumerDebt
    <2>2. restarts' = restarts /\ deaths' = deaths /\ strangers' = strangers
      BY <1>3 DEF CountProcesses, Launched, Wake, RestartDash, history
    <2> QED
      BY <1>1, <2>1, <2>2, ConsumerDebtSteady
  <1>4. CASE a = "spider" /\ Snapshot(a)
    <2>1. /\ doing["spider"] = "kill" /\ doing'["spider"] = "start"
          /\ alive' = alive /\ due' = due /\ at' = at
          /\ restarts' = restarts /\ deaths' = deaths /\ strangers' = strangers
      BY <1>1, <1>4, SnapshotIs DEF Control
    <2> DEFINE A == alive["consumer"]
               U == due["consumer"]
               M == doomed["consumer"]
               N == doomed'["consumer"]
               W == due["spider"]
    <2>2. /\ ConsumerDebt = ConsumerOwes("kill", at, W, A, U, M)
          /\ ConsumerDebt' = ConsumerOwes("start", at, W, A, U, N)
      BY <2>1 DEF ConsumerDebt
    <2>3. ASSUME at = 1 PROVE ConsumerDebt' <= ConsumerDebt
      <3>1. A \subseteq N
        BY <1>1, <1>4, <2>3, SnapshotIs, TargetIs
      <3> HIDE DEF A, U, M, N, W
      <3>2. ConsumerOwes("kill", at, W, A, U, M) = IF U # {} THEN 2 ELSE 1
        BY <2>3, ConsumerOwesIs
      <3>3. ConsumerOwes("start", at, W, A, U, N) = IF U # {} \/ ~(A \subseteq N) THEN 2 ELSE 1
        BY <2>3, ConsumerOwesIs
      <3> QED
        BY <2>2, <3>1, <3>2, <3>3
    <2>4. ASSUME at # 1 PROVE ConsumerDebt' <= ConsumerDebt
      <3>1. N = M
        BY <1>1, <1>4, <2>4, SnapshotIs, TargetIs
      <3>2. Elsewhere("kill", at, U) /\ Elsewhere("start", at, U)
        BY <2>4 DEF Elsewhere
      <3> HIDE DEF A, U, M, N, W
      <3>3. ConsumerDebt' = ConsumerDebt
        BY <2>2, <3>1, <3>2, ElsewhereSteady
      <3> QED
        BY <1>2, <3>3
    <2>5. ConsumerDebt' <= ConsumerDebt
      BY <2>3, <2>4
    <2> QED
      BY <1>1, <2>1, <2>5, ConsumerDebtSteady
  <1>5. CASE a = "spider_alive" /\ ~Start(a)
    <2>1. /\ alive' = alive /\ due' = due /\ at' = at
          /\ restarts' = restarts /\ deaths' = deaths /\ strangers' = strangers
      BY <1>5 DEF CountProcesses, Launched, Wake, Snapshot, Return, history
    <2>2. doomed'["consumer"] = doomed["consumer"]
      <3>1. CASE Snapshot(a)
        BY <1>1, <1>5, <3>1, SnapshotIs, TargetIs
      <3>2. CASE ~Snapshot(a)
        BY <1>5, <3>2 DEF CountProcesses, Launched, Wake
      <3> QED
        BY <3>1, <3>2
    <2>3. doing'["spider"] = doing["spider"]
      <3>1. \E x : doing' = [doing EXCEPT ![a] = x]
        BY <1>5 DEF CountProcesses, Launched, Wake, Snapshot, Return
      <3> QED
        BY <1>1, <1>5, <3>1 DEF Control, Actors
    <2>4. ConsumerDebt' = ConsumerDebt
      BY <2>1, <2>2, <2>3 DEF ConsumerDebt
    <2>5. ConsumerDebt' <= ConsumerDebt
      BY <1>2, <2>4
    <2> QED
      BY <1>1, <2>1, <2>5, ConsumerDebtSteady
  <1>6. CASE a = "spider" /\ Start(a)
    BY <1>6, StartConsumerDebt
  <1>7. CASE a = "spider_alive" /\ Start(a)
    BY <1>7, AliveConsumerDebt
  <1> QED
    BY <1>3, <1>4, <1>5, <1>6, <1>7 DEF Actors

\* With every step, restarts of the consumers stay accounted for.
LEMMA ConsumerPaidStep ==
    Supervised /\ SpiderPaid /\ ConsumerPaid /\ [SupervisionNext]_supervisionVars => ConsumerPaid'
  <1> SUFFICES ASSUME Supervised, SpiderPaid, ConsumerPaid, [SupervisionNext]_supervisionVars
               PROVE  ConsumerPaid'
    OBVIOUS
  <1>1. CASE SupervisionNext
    <2>1. ASSUME NEW a \in Actors,
                 \/ CountProcesses(a) \/ Launched(a) \/ Wake(a) \/ (a = "spider" /\ RestartDash)
                 \/ Snapshot(a) \/ Start(a)
          PROVE  ConsumerPaid'
      BY <2>1, LoopsConsumerDebt
    <2>2. ASSUME NEW c \in Components,
                 Launch(c) \/ Exit(c) \/ Leave(c) \/ Kill(c) \/ Die(c) \/ Come(c)
          PROVE  ConsumerPaid'
      BY <2>2, ProcessesConsumerDebt
    <2> QED
      BY <1>1, <2>1, <2>2, SupervisionActions
  <1>2. CASE UNCHANGED supervisionVars
    BY <1>2 DEF supervisionVars, actors, history, ConsumerPaid, ConsumerDebt, Causes
  <1> QED
    BY <1>1, <1>2

\* The first restart is the first start.
LEMMA ConsumerPaidInit == SupervisionInit => ConsumerPaid
  <1> SUFFICES ASSUME SupervisionInit PROVE ConsumerPaid
    OBVIOUS
  <1>1. /\ doing["spider"] = "count" /\ at = 1 /\ due["consumer"] = {}
        /\ restarts["consumer"] = 0 /\ restarts["spider"] = 0 /\ deaths = 0 /\ strangers = 0
    BY DEF SupervisionInit, Actors, Counted, Components
  <1>2. ConsumerDebt = IF Whole(alive["consumer"], due["consumer"]) /\ doomed["consumer"] = {}
                       THEN 0 ELSE 1
    BY <1>1, ConsumerOwesIs DEF ConsumerDebt
  <1>3. ConsumerDebt = 0 \/ ConsumerDebt = 1
    BY <1>2
  <1> QED
    BY <1>1, <1>3 DEF ConsumerPaid, Causes

\* What is accounted for is earned.
LEMMA PaidEarned == Supervised /\ SpiderPaid /\ ConsumerPaid => RestartsEarned
  <1> SUFFICES ASSUME Supervised, SpiderPaid, ConsumerPaid PROVE RestartsEarned
    OBVIOUS
  <1> DEFINE o == SpiderDebt
             p == ConsumerDebt
             r == restarts["consumer"]
             s == restarts["spider"]
  <1>1. o \in {0, 1, 2} /\ p \in {0, 1, 2}
    BY SpiderOwesIs, ConsumerOwesIs DEF SpiderDebt, ConsumerDebt
  <1>2. r \in Nat /\ s \in Nat /\ deaths \in Nat /\ strangers \in Nat /\ Causes \in Nat
    BY SupervisionBounds DEF Supervised, Control, Counted, Causes
  <1>3. s + o <= 1 + Causes /\ r + p <= 1 + Causes + 2 * s
    BY DEF SpiderPaid, ConsumerPaid
  <1>4. s <= 1 + Causes /\ r <= 1 + Causes + 2 * s
    <2> HIDE DEF o, p, r, s
    <2> QED
      BY <1>1, <1>2, <1>3
  <1> QED
    BY <1>2, <1>4 DEF RestartsEarned, Causes

\* The spider is restarted once at first, and once for each death or stranger at most; the
\* consumers as often, and twice for each restart of the spider.
THEOREM RestartsAreEarned == SupervisionSpec => []RestartsEarned
  <1>1. SupervisionInit => Supervised /\ SpiderPaid /\ ConsumerPaid
    BY SupervisedInit, SpiderPaidInit, ConsumerPaidInit
  <1>2. /\ Supervised /\ SpiderPaid /\ ConsumerPaid
        /\ [SupervisionNext]_supervisionVars
        => (Supervised /\ SpiderPaid /\ ConsumerPaid)'
    BY SupervisedStep, SpiderPaidStep, ConsumerPaidStep
  <1>3. SupervisionSpec => [](Supervised /\ SpiderPaid /\ ConsumerPaid)
    BY <1>1, <1>2, PTL DEF SupervisionSpec
  <1> QED
    BY <1>3, PaidEarned, PTL
-----------------------------------------------------------------------------
(* The dashboard's age.                                                    *)

\* Rounds since the dashboard was started: as many as each spider before may add, and
\* what this one has, or can have, added.
OwnRounds ==
    IF doing["spider"] = "down"
    THEN IF due["spider"] = {} THEN restart_dashboard_interval ELSE 0
    ELSE IF at = RestartDashCall /\ doing["spider"] \in {"kill", "start"}
         THEN restart_dashboard_interval ELSE counter
Aged == age <= restart_dashboard_interval * restarts["spider"] + OwnRounds

\* These are no more than restart_dashboard_interval.
LEMMA OwnRoundsBounded ==
    ASSUME Control
    PROVE  /\ OwnRounds \in 0..restart_dashboard_interval
           /\ restart_dashboard_interval \in Nat /\ restarts["spider"] \in Nat /\ age \in Nat
           /\ restart_dashboard_interval * restarts["spider"] \in Nat
  <1>1. /\ restart_dashboard_interval \in Nat /\ counter \in 0..restart_dashboard_interval
        /\ restarts["spider"] \in Nat /\ age \in Nat
    BY SupervisionBounds DEF Control, Counted
  <1>2. \A m, n \in Nat : m * n \in Nat
    OBVIOUS
  <1>3. OwnRounds \in 0..restart_dashboard_interval
    BY <1>1 DEF OwnRounds
  <1> QED
    BY <1>1, <1>2, <1>3

\* No round is over, and this one's count is not less.
LEMMA AgedSteady ==
    ASSUME Control, Aged, restarts'["spider"] = restarts["spider"], age' <= age, age' \in Nat,
           OwnRounds' \in Int, OwnRounds <= OwnRounds'
    PROVE  Aged'
  <1> DEFINE k == restart_dashboard_interval * restarts["spider"]
             x == OwnRounds
             y == OwnRounds'
  <1>1. k \in Nat /\ x \in Int /\ y \in Int /\ x <= y /\ age \in Nat /\ age <= k + x
    BY OwnRoundsBounded DEF Aged
  <1> HIDE DEF k, x, y
  <1>2. age' <= k + y
    BY <1>1
  <1> QED
    BY <1>2 DEF Aged, k, y

\* The spider's loop and the rounds it has added are what they were.
LEMMA RoundsSteady ==
    ASSUME Control, Aged, Control', doing'["spider"] = doing["spider"], at' = at, counter' = counter,
           due'["spider"] \subseteq due["spider"],
           restarts'["spider"] = restarts["spider"], age' <= age
    PROVE  Aged'
  <1>1. /\ restart_dashboard_interval \in Nat /\ counter \in 0..restart_dashboard_interval
        /\ age' \in Nat
    BY SupervisionBounds DEF Control
  <1>2. OwnRounds' \in Int /\ OwnRounds <= OwnRounds'
    BY <1>1 DEF OwnRounds
  <1> QED
    BY <1>1, <1>2, AgedSteady

\* Processes end: a spider that goes down may have been in any round.
LEMMA GoneAged ==
    ASSUME Supervised, Supervised', Aged, NEW c \in Components, NEW S, Gone(c, S),
           restarts' = restarts, age' = age
    PROVE  Aged'
  <1>1. "spider" \in Components /\ Control /\ Control'
    BY DEF Components, Supervised
  <1>2. /\ restart_dashboard_interval \in Nat /\ counter \in 0..restart_dashboard_interval
        /\ age' \in Nat /\ age' <= age
    BY <1>1, SupervisionBounds DEF Control
  <1>3. due'["spider"] \subseteq due["spider"]
    <2>1. CASE c = "spider"
      BY <2>1, GoneIs
    <2>2. CASE c # "spider"
      BY <1>1, <2>2, GoneIs
    <2> QED
      BY <2>1, <2>2
  <1>4. CASE UNCHANGED actors
    <2>1. doing' = doing /\ at' = at /\ counter' = counter
      BY <1>4 DEF actors
    <2> QED
      BY <1>1, <1>2, <1>3, <2>1, RoundsSteady
  <1>5. CASE SpiderMains(alive) # {} /\ doing' = [doing EXCEPT !["spider"] = "down"]
    <2>1. doing'["spider"] = "down"
      BY <1>1, <1>5 DEF Control, Actors
    <2>2. due'["spider"] = {}
      <3>1. due["spider"] = {}
        BY <1>5 DEF Supervised, OneSpider
      <3> QED
        BY <1>3, <3>1
    <2>3. OwnRounds' = restart_dashboard_interval
      BY <2>1, <2>2 DEF OwnRounds
    <2>4. OwnRounds <= OwnRounds' /\ OwnRounds' \in Int
      BY <1>1, <1>2, <2>3, OwnRoundsBounded
    <2> QED
      BY <1>1, <1>2, <2>4, AgedSteady
  <1> QED
    BY <1>4, <1>5, GoneIs

\* Processes come and go.
LEMMA ProcessesAged ==
    ASSUME Supervised, Supervised', Aged, NEW c \in Components,
           Launch(c) \/ Exit(c) \/ Leave(c) \/ Kill(c) \/ Die(c) \/ Come(c)
    PROVE  Aged'
  <1>1. "spider" \in Components /\ Control /\ Control'
    BY DEF Components, Supervised
  <1>2. /\ restart_dashboard_interval \in Nat /\ counter \in 0..restart_dashboard_interval
        /\ age \in Nat /\ age' \in Nat
    BY <1>1, SupervisionBounds DEF Control
  <1>3. CASE Exit(c) \/ Leave(c) \/ Kill(c)
    <2>1. PICK S : Gone(c, S) /\ UNCHANGED history
      BY <1>3 DEF Exit, Leave, Kill
    <2> QED
      BY <2>1, GoneAged DEF history
  <1>4. CASE Die(c)
    <2>1. restarts' = restarts /\ age' = age
      BY <1>4, DieIs
    <2>2. CASE \E S : Gone(c, S)
      BY <2>1, <2>2, GoneAged
    <2>3. CASE ~\E S : Gone(c, S)
      <3>1. /\ UNCHANGED actors /\ c = "proxy"
            /\ \A d \in Components : d # c => due'[d] = due[d]
        BY <1>4, <2>3, DieIs
      <3>2. doing' = doing /\ at' = at /\ counter' = counter /\ due'["spider"] \subseteq due["spider"]
        BY <1>1, <3>1 DEF actors
      <3>3. age' <= age
        BY <1>2, <2>1
      <3> QED
        BY <1>1, <2>1, <3>2, <3>3, RoundsSteady
    <2> QED
      BY <2>2, <2>3
  <1>5. CASE Come(c)
    <2>1. /\ doing' = doing /\ at' = at /\ counter' = counter /\ due'["spider"] \subseteq due["spider"]
          /\ restarts' = restarts /\ age' = age
      BY <1>5, ComeIs
    <2>2. age' <= age
      BY <1>2, <2>1
    <2> QED
      BY <1>1, <2>1, <2>2, RoundsSteady
  <1>6. CASE Launch(c)
    <2>1. PICK p \in due[c] :
             /\ due'[c] = (due[c] \ {p}) \cup Offspring(c, p)
             /\ \A d \in Components : d # c => due'[d] = due[d]
             /\ doing' = IF c = "spider" THEN [doing EXCEPT !["spider"] = "count"] ELSE doing
             /\ UNCHANGED <<doomed, at, counter, history>>
      BY <1>6, LaunchIs
    <2>2. restarts' = restarts /\ age' = age /\ at' = at /\ counter' = counter /\ age' <= age
      BY <1>2, <2>1 DEF history
    <2>3. CASE c = "spider"
      <3>1. doing["spider"] = "down" /\ due["spider"] # {} /\ at = 1 /\ counter = 0
        BY <2>1, <2>3 DEF Supervised, OneSpider
      <3>2. doing'["spider"] = "count"
        BY <1>1, <2>1, <2>3 DEF Control, Actors
      <3>3. OwnRounds = 0 /\ OwnRounds' = 0
        BY <2>2, <3>1, <3>2 DEF OwnRounds, RestartDashCall
      <3>4. OwnRounds' \in Int /\ OwnRounds <= OwnRounds'
        BY <3>3
      <3> QED
        BY <1>1, <1>2, <2>2, <3>4, AgedSteady
    <2>4. CASE c # "spider"
      <3>1. doing' = doing /\ due'["spider"] \subseteq due["spider"]
        BY <1>1, <2>1, <2>4
      <3> QED
        BY <1>1, <2>2, <3>1, RoundsSteady
    <2> QED
      BY <2>3, <2>4
  <1> QED
    BY <1>3, <1>4, <1>5, <1>6

\* The loops: a round ends with its call of restart_dash.
LEMMA LoopsAged ==
    ASSUME Supervised, Supervised', SpiderPaid, Aged, NEW a \in Actors,
           \/ CountProcesses(a) \/ Launched(a) \/ Wake(a) \/ (a = "spider" /\ RestartDash)
           \/ Snapshot(a) \/ Start(a)
    PROVE  Aged'
  <1> DEFINE i == restart_dashboard_interval
  <1>1. "spider" \in Components /\ Control /\ Control' /\ "spider" \in Actors
    BY DEF Components, Supervised, Actors
  <1>2. /\ i \in Nat /\ counter \in 0..i /\ age \in Nat /\ age' \in Nat
        /\ restarts["spider"] \in Nat
    BY <1>1, SupervisionBounds DEF Control, Counted
  <1>3. \E x : doing' = [doing EXCEPT ![a] = x]
    BY DEF CountProcesses, Launched, Wake, RestartDash, Snapshot, Start, Return
  <1>4. CASE a = "spider" /\ (CountProcesses(a) \/ Launched(a) \/ Wake(a) \/ Snapshot(a))
    <2>1. /\ due' = due /\ counter' = counter /\ restarts' = restarts /\ age' = age
      BY <1>4 DEF CountProcesses, Launched, Wake, Snapshot, history
    <2>2. /\ doing["spider"] # "down" /\ doing'["spider"] # "down"
          /\ \/ at' = RestartDashCall /\ doing'["spider"] \in {"kill", "start"}
             \/ ~(at = RestartDashCall /\ doing["spider"] \in {"kill", "start"})
      <3>1. CASE Snapshot(a)
        BY <1>1, <1>4, <3>1, SnapshotIs DEF Control
      <3>2. CASE CountProcesses(a) \/ Launched(a) \/ Wake(a)
        BY <1>1, <1>4, <3>2 DEF CountProcesses, Launched, Wake, Return, Control
      <3> QED
        BY <1>4, <3>1, <3>2
    <2>3. OwnRounds <= OwnRounds' /\ OwnRounds' \in Int
      BY <1>2, <2>1, <2>2 DEF OwnRounds
    <2>4. age' <= age
      BY <1>2, <2>1
    <2> QED
      BY <1>1, <1>2, <2>1, <2>3, <2>4, AgedSteady
  <1>5. CASE a = "spider" /\ RestartDash
    <2>1. /\ doing["spider"] = "count" /\ at = RestartDashCall /\ restarts' = restarts
      BY <1>5 DEF RestartDash
    <2>2. OwnRounds = counter
      BY <2>1 DEF OwnRounds
    <2>3. CASE counter = i
      <3>1. age' = age /\ at' = at /\ doing'["spider"] = "kill"
        BY <1>1, <1>5, <2>3 DEF RestartDash, Control
      <3>2. OwnRounds' = i
        BY <2>1, <3>1 DEF OwnRounds
      <3>3. OwnRounds' \in Int /\ OwnRounds <= OwnRounds' /\ age' <= age
        BY <1>2, <2>2, <2>3, <3>1, <3>2
      <3> QED
        BY <1>1, <1>2, <2>1, <3>3, AgedSteady
    <2>4. CASE counter # i
      <3>1. age' = age + 1 /\ counter' = counter + 1 /\ doing'["spider"] = "sleep"
        BY <1>1, <1>5, <2>4 DEF RestartDash, Return, Control
      <3>2. OwnRounds' = counter + 1
        BY <3>1 DEF OwnRounds
      <3> DEFINE k == restart_dashboard_interval * restarts["spider"]
                 x == OwnRounds
                 y == OwnRounds'
      <3>3. k \in Nat /\ age <= k + x /\ x = counter /\ y = counter + 1 /\ counter \in Nat
        BY <1>1, <1>2, <2>2, <3>2, OwnRoundsBounded DEF Aged
      <3> HIDE DEF k, x, y
      <3>4. age' <= k + y
        BY <1>2, <3>1, <3>3
      <3> QED
        BY <2>1, <3>4 DEF Aged, k, y
    <2> QED
      BY <2>3, <2>4
  <1>6. CASE a = "spider_alive" /\ ~Start(a)
    <2>1. /\ due' = due /\ at' = at /\ counter' = counter /\ restarts' = restarts /\ age' = age
      BY <1>6 DEF CountProcesses, Launched, Wake, Snapshot, Return, history
    <2>2. doing'["spider"] = doing["spider"]
      BY <1>1, <1>3, <1>6 DEF Control, Actors
    <2>3. age' <= age
      BY <1>2, <2>1
    <2> QED
      BY <1>1, <2>1, <2>2, <2>3, RoundsSteady
  <1>7. CASE Start(a)
    <2>1. PICK g \in Nat \ {0} :
             /\ doing[a] = "start" /\ doomed[Target(a)] = {}
             /\ doing' = [doing EXCEPT ![a] = "launch"]
             /\ due'[Target(a)] = due[Target(a)] \cup {Proc(g, Main)}
             /\ \A d \in Components : d # Target(a) => due'[d] = due[d]
             /\ restarts' = [d \in Counted |-> restarts[d]
                    + IF Target(a) = d /\ restarts[d] < MaxRestarts THEN 1 ELSE 0]
             /\ age' = IF Target(a) = "dash" THEN 0 ELSE age
             /\ doomed' = doomed /\ at' = at /\ counter' = counter
      BY <1>7, StartIs
    <2>2. restarts'["spider"] = restarts["spider"]
               + IF Target(a) = "spider" /\ restarts["spider"] < MaxRestarts THEN 1 ELSE 0
      BY <2>1 DEF Counted
    <2>3. CASE a = "spider"
      <3>1. Target(a) # "spider"
        BY <1>1, <2>3, TargetIs
      <3>2. restarts'["spider"] = restarts["spider"] /\ doing'["spider"] = "launch"
        BY <1>1, <1>2, <2>1, <2>2, <2>3, <3>1 DEF Control
      <3>3. OwnRounds' = counter
        BY <2>1, <3>2 DEF OwnRounds
      <3>4. CASE at = RestartDashCall
        <4>1. Target(a) = "dash"
          BY <1>1, <2>3, <3>4, TargetIs DEF RestartDashCall
        <4>2. age' = 0
          BY <2>1, <4>1
        <4> DEFINE k == restart_dashboard_interval * restarts'["spider"]
                   y == OwnRounds'
        <4>3. k \in Nat /\ y \in Nat
          <5>1. \A m, n \in Nat : m * n \in Nat
            OBVIOUS
          <5> QED
            BY <1>2, <3>2, <3>3, <5>1
        <4> HIDE DEF k, y
        <4>4. age' <= k + y
          BY <4>2, <4>3
        <4> QED
          BY <4>4 DEF Aged, k, y
      <3>5. CASE at # RestartDashCall
        <4>1. OwnRounds = counter
          BY <2>1, <2>3, <3>5 DEF OwnRounds
        <4>2. age' <= age
          BY <1>2, <2>1
        <4>3. OwnRounds' \in Int /\ OwnRounds <= OwnRounds'
          BY <1>2, <3>3, <4>1
        <4> QED
          BY <1>1, <1>2, <3>2, <4>2, <4>3, AgedSteady
      <3> QED
        BY <3>4, <3>5
    <2>4. CASE a = "spider_alive"
      <3>1. Target(a) = "spider" /\ doing["spider_alive"] = "start" /\ doomed["spider"] = {}
        BY <1>1, <2>1, <2>4, TargetIs
      <3>2. doing["spider"] = "down" /\ due["spider"] = {}
        BY <3>1 DEF Supervised, OneSpider
      <3>3. doing'["spider"] = "down" /\ due'["spider"] # {} /\ age' = age
        BY <1>1, <2>1, <2>4, <3>1, <3>2 DEF Control, Actors
      <3>4. OwnRounds = i /\ OwnRounds' = 0
        BY <3>2, <3>3 DEF OwnRounds
      <3>5. restarts["spider"] < MaxRestarts
        <4>1. SpiderDebt \in {1, 2}
          BY <3>1, SpiderOwesIs DEF SpiderDebt
        <4> DEFINE r == restarts["spider"]
                   o == SpiderDebt
        <4>2. r + o <= 1 + Causes /\ r \in Nat /\ o \in {1, 2}
          BY <1>2, <4>1 DEF SpiderPaid
        <4> HIDE DEF r, o
        <4>3. r < MaxRestarts
          <5>1. Causes \in Nat /\ Causes <= MaxFaults
            BY <1>1, SupervisionBounds DEF Control, Causes
          <5> QED
            BY <4>2, <5>1, SupervisionBounds
        <4> QED
          BY <4>3 DEF r
      <3>6. restarts'["spider"] = restarts["spider"] + 1
        BY <1>2, <2>2, <3>1, <3>5
      <3>7. i * (restarts["spider"] + 1) = i * restarts["spider"] + i
        BY <1>2
      <3>8. i * restarts'["spider"] = i * restarts["spider"] + i
        BY <3>6, <3>7
      <3> DEFINE k == i * restarts["spider"]
                 l == i * restarts'["spider"]
                 x == OwnRounds
                 y == OwnRounds'
      <3>9. age <= k + x /\ l = k + i /\ x = i /\ y = 0 /\ k \in Nat
        BY <1>1, <3>4, <3>8, OwnRoundsBounded DEF Aged
      <3> HIDE DEF k, l, x, y
      <3>10. age' <= l + y
        BY <1>2, <3>3, <3>9
      <3> QED
        BY <3>10 DEF Aged, l, y
    <2> QED
      BY <2>3, <2>4 DEF Actors
  <1> QED
    BY <1>4, <1>5, <1>6, <1>7 DEF Actors

\* With every step.
LEMMA AgedStep ==
    Supervised /\ SpiderPaid /\ Aged /\ [SupervisionNext]_supervisionVars => Aged'
  <1> SUFFICES ASSUME Supervised, SpiderPaid, Aged, [SupervisionNext]_supervisionVars
               PROVE  Aged'
    OBVIOUS
  <1>1. Supervised'
    BY SupervisedStep
  <1>2. CASE SupervisionNext
    <2>1. ASSUME NEW a \in Actors,
                 \/ CountProcesses(a) \/ Launched(a) \/ Wake(a) \/ (a = "spider" /\ RestartDash)
                 \/ Snapshot(a) \/ Start(a)
          PROVE  Aged'
      BY <1>1, <2>1, LoopsAged
    <2>2. ASSUME NEW c \in Components,
                 Launch(c) \/ Exit(c) \/ Leave(c) \/ Kill(c) \/ Die(c) \/ Come(c)
          PROVE  Aged'
      BY <1>1, <2>2, ProcessesAged
    <2> QED
      BY <1>2, <2>1, <2>2, SupervisionActions
  <1>3. CASE UNCHANGED supervisionVars
    BY <1>3 DEF supervisionVars, actors, history, Aged, OwnRounds
  <1> QED
    BY <1>2, <1>3

\* At first.
LEMMA AgedInit == SupervisionInit => Aged
  <1> SUFFICES ASSUME SupervisionInit PROVE Aged
    OBVIOUS
  <1>1. /\ doing["spider"] = "count" /\ age = 0 /\ counter = 0 /\ restarts["spider"] = 0
    BY DEF SupervisionInit, Actors, Counted
  <1>2. OwnRounds = 0
    BY <1>1 DEF OwnRounds
  <1>3. restart_dashboard_interval * 0 = 0
    BY SupervisionBounds
  <1> QED
    BY <1>1, <1>2, <1>3 DEF Aged

\* What this spider adds is at most one more interval.
LEMMA AgedFresh == Supervised /\ Aged => DashFresh
  <1> SUFFICES ASSUME Supervised, Aged PROVE DashFresh
    OBVIOUS
  <1> DEFINE i == restart_dashboard_interval
             s == restarts["spider"]
             k == i * s
             x == OwnRounds
  <1>1. k \in Nat /\ x \in 0..i /\ i \in Nat /\ s \in Nat /\ age \in Nat /\ age <= k + x
    BY OwnRoundsBounded DEF Supervised, Aged
  <1>2. i * (1 + s) = k + i
    BY <1>1
  <1>3. age <= k + i
    <2> HIDE DEF k, x
    <2> QED
      BY <1>1
  <1>4. age <= i * (1 + s)
    BY <1>2, <1>3
  <1> QED
    BY <1>4 DEF DashFresh

\* However often the spider is killed and forgets its counter, the dashboard's memory is
\* given back.
THEOREM DashIsFresh == SupervisionSpec => []DashFresh
  <1>1. SupervisionInit => Supervised /\ SpiderPaid /\ Aged
    BY SupervisedInit, SpiderPaidInit, AgedInit
  <1>2. /\ Supervised /\ SpiderPaid /\ Aged
        /\ [SupervisionNext]_supervisionVars
        => (Supervised /\ SpiderPaid /\ Aged)'
    BY SupervisedStep, SpiderPaidStep, AgedStep
  <1>3. SupervisionSpec => [](Supervised /\ SpiderPaid /\ Aged)
    BY <1>1, <1>2, PTL DEF SupervisionSpec
  <1> QED
    BY <1>3, AgedFresh, PTL
-----------------------------------------------------------------------------
(* DatabaseManager.                                                        *)

USE DbsAssumption, BoundsAssumption

\* A step of the spider's round, or of the world around it.
SpiderStep ==
    CheckDiskFree \/ DatabaseTime \/ CheckDatabase \/ Forget
    \/ Report \/ Remake \/ RemakeTable \/ Mark
    \/ Sizes \/ IpCounts \/ DetailedInfo \/ OnlineSizes \/ SettingSelect \/ SettingUpdate
    \/ CleanSelect \/ NoClean \/ Pick \/ CleanDelete \/ CleanDrop
    \/ Truncate \/ Write

\* The two parts of TypeOK: its Booleans, and the rest.
Booleans ==
    /\ {full, flag, measured, credit, truncated} \subseteq BOOLEAN
    /\ truncated => pc \in {"write", "down"}

Data ==
    /\ birth \in [Dbs -> 0..(MaxCreates + Cardinality(Dbs))]
    /\ tables \in [Dbs -> SUBSET LaterTables]
    /\ makers \in [Dbs -> SUBSET LaterTables]
    /\ setting \in [Dbs -> {"none", "false", "true"}]
    /\ file \in Dict
    /\ pc \in Stages
    /\ known \in Dict
    /\ list \in [Dbs -> Nat]
    /\ todo \subseteq Dbs /\ steady \subseteq Dbs
    /\ todo # {} => pc \in {"forget", "report", "mark", "ip", "detail", "online", "select",
                           "update"} \cup LaterTables
    /\ seen \in [Dbs -> {"none", "false", "true"}]
    /\ victim \in Dbs
    /\ {creates, removals, clicks, kills, crashes} \subseteq Nat
    /\ sent \in [Dbs -> {"no", "yes", "lost"}]

\* There is at least one database name, the victim's.
LEMMA DbsCount ==
    ASSUME victim \in Dbs
    PROVE  Cardinality(Dbs) \in Nat /\ Cardinality(Dbs) >= 1
  <1>1. Cardinality(Dbs) \in Nat
    BY FS_CardinalityType
  <1>2. Cardinality(Dbs) # 0
    BY FS_EmptySet
  <1> QED
    BY <1>1, <1>2

\* A step of the loop keeps the data well-typed.
LEMMA DataStep ==
    ASSUME Data, SpiderStep
    PROVE  Data'
  <1> USE DEF Data, Dict, Stages, LaterTables, NoRows, bases, saved, events
  <1>1. CASE CheckDiskFree BY <1>1 DEF CheckDiskFree, saved
  <1>2. CASE DatabaseTime
    <2>1. list' \in [Dbs -> Nat]
      BY <1>2, DbsCount DEF DatabaseTime
    <2> QED
      BY <1>2, <2>1 DEF DatabaseTime, saved
  <1>3. CASE CheckDatabase
    <2>1. known' \in [Dbs -> {"unknown", "new", "done"}]
      BY <1>3 DEF CheckDatabase
    <2>2. todo' \subseteq Dbs
      BY <1>3 DEF CheckDatabase
    <2> QED
      BY <1>3, <2>1, <2>2 DEF CheckDatabase, saved
  <1>4. CASE Forget
    <2>1. known' \in [Dbs -> {"unknown", "new", "done"}]
      BY <1>4 DEF Forget
    <2>2. setting' \in [Dbs -> {"none", "false", "true"}]
      BY <1>4 DEF Forget
    <2>3. /\ todo' \subseteq Dbs /\ pc' \in {"forget", "report", "size"}
          /\ todo' # {} => pc' \in {"forget", "report"}
      BY <1>4 DEF Forget, Listed
    <2> QED
      BY <1>4, <2>1, <2>2, <2>3 DEF Forget, saved
  <1>5. CASE Report
    <2>1. sent' \in [Dbs -> {"no", "yes", "lost"}]
      BY <1>5 DEF Report
    <2>2. /\ pc' \in {"mark", "size"} /\ victim' \in Dbs
          /\ todo' # {} => pc' = "mark"
      BY <1>5 DEF Report
    <2> QED
      BY <1>5, <2>1, <2>2 DEF Report
  <1>19. CASE Remake
    <2>1. birth' \in [Dbs -> 0..(MaxCreates + Cardinality(Dbs))]
      <3>1. MaxCreates + 1 \in 0..(MaxCreates + Cardinality(Dbs))
        BY DbsCount
      <3> QED
        BY <1>19, <3>1 DEF Remake
    <2>2. pc' = "ips_table" /\ victim' \in Dbs
      BY <1>19 DEF Remake
    <2> QED
      BY <1>19, <2>1, <2>2 DEF Remake
  <1>20. CASE RemakeTable
    <2>1. tables' \in [Dbs -> SUBSET LaterTables]
      BY <1>20 DEF RemakeTable
    <2>2. pc' \in {"kadinfo_root", "report"}
      BY <1>20 DEF RemakeTable
    <2> QED
      BY <1>20, <2>1, <2>2 DEF RemakeTable
  <1>21. CASE IpCounts BY <1>21 DEF IpCounts
  <1>6. CASE Mark BY <1>6 DEF Mark, saved
  <1>7. CASE Sizes BY <1>7 DEF Sizes, Existing, saved
  <1>8. CASE DetailedInfo BY <1>8 DEF DetailedInfo, Existing, saved
  <1>9. CASE OnlineSizes BY <1>9 DEF OnlineSizes, saved
  <1>10. CASE SettingSelect BY <1>10 DEF SettingSelect, Select, saved
  <1>11. CASE SettingUpdate
    <2>1. setting' \in [Dbs -> {"none", "false", "true"}]
      BY <1>11 DEF SettingUpdate
    <2>2. /\ todo' \subseteq Dbs /\ pc' \in {"update", "clean"}
          /\ todo' # {} => pc' = "update"
      BY <1>11 DEF SettingUpdate
    <2> QED
      BY <1>11, <2>1, <2>2 DEF SettingUpdate, saved
  <1>12. CASE CleanSelect BY <1>12 DEF CleanSelect, Select, saved
  <1>13. CASE NoClean BY <1>13 DEF NoClean, saved
  <1>14. CASE Pick BY <1>14 DEF Pick, Listed, saved
  <1>15. CASE CleanDelete BY <1>15 DEF CleanDelete, saved
  <1>16. CASE CleanDrop
    <2>1. /\ birth' \in [Dbs -> 0..(MaxCreates + Cardinality(Dbs))]
          /\ tables' \in [Dbs -> SUBSET LaterTables]
          /\ sent' \in [Dbs -> {"no", "yes", "lost"}]
      BY <1>16, DbsCount DEF CleanDrop, DropDatabase
    <2> QED
      BY <1>16, <2>1 DEF CleanDrop, DropDatabase
  <1>17. CASE Truncate BY <1>17 DEF Truncate
  <1>18. CASE Write BY <1>18 DEF Write
  <1> QED
    BY <1>1, <1>2, <1>3, <1>4, <1>5, <1>6, <1>7, <1>8, <1>9, <1>10, <1>11, <1>12,
       <1>13, <1>14, <1>15, <1>16, <1>17, <1>18, <1>19, <1>20, <1>21 DEF SpiderStep

\* So does everybody else, a crash, and a restart.
LEMMA DataOther ==
    ASSUME Data, NEW d \in Dbs,
           \/ Create(d) \/ Remove(d) \/ DiskChanges \/ Crash \/ SelfCrash \/ Restart
           \/ \E v \in {"false", "true"} : Click(d, v)
           \/ \E t \in LaterTables : Extend(d, t) \/ KillMaker(d, t)
           \/ UNCHANGED vars
    PROVE  Data'
  <1> USE DEF Data, Dict, Stages, LaterTables, NoRows, bases, saved, events, spider
  <1>1. CASE Create(d)
    <2>1. creates + 1 \in 0..(MaxCreates + Cardinality(Dbs))
      BY <1>1, DbsCount DEF Create
    <2>2. birth' \in [Dbs -> 0..(MaxCreates + Cardinality(Dbs))]
      BY <1>1, <2>1 DEF Create
    <2>3. makers' \in [Dbs -> SUBSET LaterTables]
      BY <1>1 DEF Create
    <2> QED
      BY <1>1, <2>2, <2>3 DEF Create
  <1>2. CASE Remove(d)
    <2>1. /\ birth' \in [Dbs -> 0..(MaxCreates + Cardinality(Dbs))]
          /\ tables' \in [Dbs -> SUBSET LaterTables]
          /\ sent' \in [Dbs -> {"no", "yes", "lost"}]
      BY <1>2, DbsCount DEF Remove, DropDatabase
    <2> QED
      BY <1>2, <2>1 DEF Remove, DropDatabase
  <1>3. ASSUME NEW v \in {"false", "true"}, Click(d, v) PROVE Data'
    BY <1>3 DEF Click
  <1>4. CASE DiskChanges BY <1>4 DEF DiskChanges
  <1>5. CASE Down /\ crashes' \in Nat
    <2>1. sent' \in [Dbs -> {"no", "yes", "lost"}]
      BY <1>5 DEF Down
    <2> QED
      BY <1>5, <2>1 DEF Down, NoDict
  <1>6. CASE Crash BY <1>5, <1>6 DEF Crash
  <1>7. CASE SelfCrash BY <1>5, <1>7 DEF SelfCrash
  <1>8. CASE Restart BY <1>8 DEF Restart
  <1>9. CASE UNCHANGED vars BY <1>9 DEF vars
  <1>10. ASSUME NEW t \in LaterTables, Extend(d, t) PROVE Data'
    <2>1. tables' \in [Dbs -> SUBSET LaterTables]
      BY <1>10 DEF Extend
    <2>2. makers' \in [Dbs -> SUBSET LaterTables]
      BY <1>10 DEF Extend
    <2> QED
      BY <1>10, <2>1, <2>2 DEF Extend
  <1>11. ASSUME NEW t \in LaterTables, KillMaker(d, t) PROVE Data'
    <2>1. makers' \in [Dbs -> SUBSET LaterTables]
      BY <1>11 DEF KillMaker
    <2> QED
      BY <1>11, <2>1 DEF KillMaker
  <1> QED
    BY <1>1, <1>2, <1>3, <1>4, <1>6, <1>7, <1>8, <1>9, <1>10, <1>11

\* Every step assigns Booleans to the Boolean variables, and truncates the file
\* only on its way to writing it.
LEMMA BooleansStep == TypeOK /\ [Next]_vars => Booleans'
  <1> SUFFICES ASSUME TypeOK, [Next]_vars PROVE Booleans'
    OBVIOUS
  <1>0. /\ full \in BOOLEAN /\ flag \in BOOLEAN /\ measured \in BOOLEAN
        /\ credit \in BOOLEAN /\ truncated \in BOOLEAN
        /\ truncated => pc \in {"write", "down"}
    BY Zenon DEF TypeOK
  <1>1. full' \in BOOLEAN
    <2>1. full' = full \/ full' = ~full
      BY Zenon DEF Next, Round, CheckDiskFree, DatabaseTime, CheckDatabase, Forget,
         Report, Remake, RemakeTable, Mark, Sizes, IpCounts, DetailedInfo, OnlineSizes,
         SettingSelect, SettingUpdate, CleanSelect, NoClean, Select, Pick, CleanDelete,
         CleanDrop, Truncate, Write, SelfCrash, Crash, Down, Restart, Create, Extend, KillMaker, Remove, DropDatabase,
         Click, DiskChanges, vars
    <2> QED
      BY <1>0, <2>1, Zenon
  <1>2. flag' \in BOOLEAN /\ measured' \in BOOLEAN /\ credit' \in BOOLEAN
    <2>1. /\ flag' = flag \/ flag' = FALSE \/ flag' = (flag \/ full)
          /\ measured' = measured \/ measured' = FALSE \/ measured' = full
          /\ credit' = credit \/ credit' = FALSE \/ credit' = (credit \/ full)
      BY Zenon DEF Next, Round, CheckDiskFree, DatabaseTime, CheckDatabase, Forget,
         Report, Remake, RemakeTable, Mark, Sizes, IpCounts, DetailedInfo, OnlineSizes,
         SettingSelect, SettingUpdate, CleanSelect, NoClean, Select, Pick, CleanDelete,
         CleanDrop, Truncate, Write, SelfCrash, Crash, Down, Restart, Create, Extend, KillMaker, Remove, DropDatabase,
         Click, DiskChanges, vars, spider
    <2> QED
      BY <1>0, <2>1, Zenon
  <1>3. truncated' \in BOOLEAN /\ (truncated' => pc' \in {"write", "down"})
    <2>1. \/ truncated' = TRUE /\ pc' = "write"
          \/ truncated' = FALSE
          \/ truncated' = truncated /\ pc' = "down"
          \/ truncated' = truncated /\ pc' = pc
          \/ truncated' = truncated /\ pc \notin {"write", "down"}
          \/ truncated' = truncated /\ ~truncated
      BY Zenon DEF Next, Round, CheckDiskFree, DatabaseTime, CheckDatabase, Forget,
         Report, Remake, RemakeTable, Mark, Sizes, IpCounts, DetailedInfo, OnlineSizes,
         SettingSelect, SettingUpdate, CleanSelect, NoClean, Select, Pick, CleanDelete,
         CleanDrop, Truncate, Write, SelfCrash, Crash, Down, Restart, Create, Extend, KillMaker, Remove, DropDatabase,
         Click, DiskChanges, vars, spider, saved, LaterTables
    <2>2. truncated' \in BOOLEAN
      BY <1>0, <2>1, Zenon
    <2>3. ASSUME truncated' PROVE pc' = "write" \/ pc' = "down"
      <3>1. truncated => pc = "write" \/ pc = "down"
        BY <1>0
      <3> QED
        BY <2>1, <2>3, <3>1, Zenon
    <2> QED
      BY <2>2, <2>3
  <1> QED
    BY <1>1, <1>2, <1>3, Zenon DEF Booleans

\* Every variable keeps its type; the spider visits databases in the stages that
\* loop over them only, and its file is empty only between opening and writing it
\* (spider.py:166-189, 383-482, 557-562).
THEOREM TypeCorrect == Spec => []TypeOK
  <1>1. TypeOK <=> Booleans /\ Data
    BY Zenon DEF TypeOK, Booleans, Data
  <1>2. Init => TypeOK
    <2> SUFFICES ASSUME Init PROVE Booleans /\ Data
      BY <1>1
    <2>1. Booleans
      BY Zenon DEF Init, Booleans
    <2>2. Data
      BY DbsCount DEF Init, Data, Dict, NoDict, NoRows, Stages, LaterTables
    <2> QED
      BY <2>1, <2>2
  <1>3. TypeOK /\ [Next]_vars => TypeOK'
    <2> SUFFICES ASSUME TypeOK, [Next]_vars PROVE TypeOK'
      OBVIOUS
    <2>1. Data
      BY <1>1
    <2>2. victim \in Dbs
      BY <2>1 DEF Data
    <2>3. Data'
      BY <2>1, <2>2, DataStep, DataOther DEF Next, Round, SpiderStep
    <2>4. Booleans'
      BY BooleansStep
    <2>5. TypeOK' <=> Booleans' /\ Data'
      BY Zenon DEF TypeOK, Booleans, Data
    <2> QED
      BY <2>3, <2>4, <2>5
  <1> QED
    BY <1>2, <1>3, PTL DEF Spec

-----------------------------------------------------------------------------
\* disk_need_clen is set only by a full disk nobody cleaned for yet, and the
\* spider is about to drop a database only with it.
Earned ==
    /\ flag => credit
    /\ pc \in {"pick", "delete", "drop"} => flag

\* Every step keeps it.
LEMMA EarnedStep == TypeOK /\ Earned /\ [Next]_vars => Earned'
  <1> SUFFICES ASSUME TypeOK, Earned, [Next]_vars PROVE Earned'
    OBVIOUS
  <1> USE DEF Earned
  <1>1. CASE CheckDiskFree
    BY <1>1, Zenon DEF CheckDiskFree
  <1>2. CASE Crash \/ SelfCrash
    BY <1>2, Zenon DEF Crash, SelfCrash, Down
  <1>3. CASE CleanDrop
    BY <1>3, Zenon DEF CleanDrop
  <1>4. CASE ~CheckDiskFree /\ ~Crash /\ ~SelfCrash /\ ~CleanDrop
    <2>1. /\ flag' = flag /\ credit' = credit
          /\ \/ pc' = pc
             \/ pc' \notin {"pick", "delete", "drop"}
             \/ pc' = "pick" /\ flag
             \/ pc \in {"pick", "delete"}
      BY <1>4, Zenon DEF Next, Round, DatabaseTime, CheckDatabase, Forget,
         Report, Remake, RemakeTable, Mark, Sizes, IpCounts, DetailedInfo, OnlineSizes,
         SettingSelect, SettingUpdate, CleanSelect, NoClean, Select, Pick, CleanDelete, Truncate, Write,
         Restart, Create, Extend, KillMaker, Remove, Click, DiskChanges, vars, spider
    <2> QED
      BY <2>1, Zenon
  <1> QED
    BY <1>1, <1>2, <1>3, <1>4

\* A database is dropped only when the disk was found full since the last drop
\* (spider.py:166-171, 465-482).
THEOREM DropsAreEarned == Spec => DropsEarned
  <1>1. Init => Earned
    BY Zenon DEF Init, Earned
  <1>2. Earned => ((pc = "drop" /\ pc' = "truncate") => credit)
    BY Zenon DEF Earned
  <1> QED
    BY <1>1, <1>2, EarnedStep, TypeCorrect, PTL DEF Spec, DropsEarned

-----------------------------------------------------------------------------
\* What the round read of db_setting to choose its victim still holds of every
\* database whose reserve nobody changed in this round.
SeenSteady ==
    /\ pc = "pick" => \A d \in steady : seen[d] = "false" => setting[d] = "false"
    /\ (pc = "delete" /\ victim \in steady) => setting[victim] = "false"

\* Every step keeps it: from the SELECT of database_clean to its DELETE only a
\* click changes a reserve.
LEMMA SeenSteadyStep == TypeOK /\ SeenSteady /\ [Next]_vars => SeenSteady'
  <1> SUFFICES ASSUME TypeOK, SeenSteady, [Next]_vars PROVE SeenSteady'
    OBVIOUS
  <1> USE DEF SeenSteady
  <1>1. ASSUME NEW d \in Dbs, NEW v \in {"false", "true"}, Click(d, v)
        PROVE  SeenSteady'
    BY <1>1 DEF Click, TypeOK, spider
  <1>2. CASE CleanSelect
    BY <1>2 DEF CleanSelect, Select
  <1>3. CASE Pick
    BY <1>3 DEF Pick
  <1>4. CASE Crash \/ SelfCrash
    BY <1>4 DEF Crash, SelfCrash, Down
  <1>5. CASE \/ DiskChanges \/ UNCHANGED vars
             \/ \E d \in Dbs : Create(d) \/ Remove(d)
             \/ \E d \in Dbs, t \in LaterTables : Extend(d, t) \/ KillMaker(d, t)
    BY <1>5 DEF DiskChanges, Create, Extend, KillMaker, Remove, vars, spider
  <1>6. CASE \/ CheckDiskFree \/ DatabaseTime \/ CheckDatabase \/ Forget \/ Report
             \/ Remake \/ RemakeTable \/ Mark \/ Sizes \/ IpCounts \/ DetailedInfo
             \/ OnlineSizes \/ SettingSelect \/ SettingUpdate \/ NoClean \/ CleanDelete \/ CleanDrop \/ Truncate
             \/ Write \/ Restart
    <2>1. pc' \notin {"pick", "delete"}
      BY <1>6 DEF CheckDiskFree, DatabaseTime, CheckDatabase, Forget, Report, Remake,
         RemakeTable, LaterTables, Mark, Sizes, IpCounts, DetailedInfo, OnlineSizes, SettingSelect, SettingUpdate, Select,
         NoClean, CleanDelete, CleanDrop, Truncate, Write, Restart
    <2> QED
      BY <2>1
  <1> QED
    BY <1>1, <1>2, <1>3, <1>4, <1>5, <1>6 DEF Next, Round

\* A database whose reserve was true when the round began, and was not changed in
\* it, is not cleaned (spider.py:465-480).
THEOREM ReserveIsRespected == Spec => ReserveRespected
  <1>1. Init => SeenSteady
    BY DEF Init, SeenSteady
  <1>2. SeenSteady =>
          ((pc = "delete" /\ pc' = "drop" /\ victim \in steady) => setting[victim] # "true")
    BY DEF SeenSteady
  <1> QED
    BY <1>1, <1>2, SeenSteadyStep, TypeCorrect, PTL DEF Spec, ReserveRespected

-----------------------------------------------------------------------------
\* What is in the way of a second report of d, once one was sent: the dict says so,
\* or the spider is about to note it, or it is about to drop d.
Noted(d) ==
    \/ known[d] = "done"
    \/ pc \in {"mark", "drop"} /\ victim = d

\* What makes ReportedOnce inductive.  A report that was sent is noted; a spider that
\* is dead left the note in its file; a database whose report was sent is in the list
\* that is compared with the dict, so that it is not forgotten; what is still to be
\* reported was not, but for the report that is about to be noted.
SentInv ==
    /\ pc # "down" => \A d \in Dbs : sent[d] = "yes" => birth[d] # 0 /\ Noted(d)
    /\ pc = "down" => \A d \in Dbs : sent[d] = "yes" => birth[d] # 0 /\ file[d] = "done"
    /\ pc \in {"check", "forget"} => \A d \in Dbs : sent[d] = "yes" => list[d] # 0
    /\ pc \in {"report", "mark"} \cup LaterTables => \A d \in todo : known[d] # "done"

\* Steps that change neither the dict, the lists, the databases nor the reports,
\* and do not enter a stage the invariant speaks of.
LEMMA QuietSent ==
    ASSUME TypeOK, SentInv,
           UNCHANGED <<birth, known, file, list, todo, victim, sent>>,
           \/ pc' = pc
           \/ /\ pc \notin {"mark", "drop", "down"}
              /\ pc' \notin {"report", "mark", "check", "forget", "down", "drop"} \cup LaterTables
    PROVE  SentInv'
  BY DEF SentInv, Noted

\* A crash: the reports that are not in the file are lost.
LEMMA DownSent ==
    ASSUME TypeOK, SentInv, pc # "down", Down
    PROVE  SentInv'
  <1>1. /\ pc' = "down" /\ UNCHANGED <<birth, file>>
        /\ \A d \in Dbs : sent'[d] = IF sent[d] = "yes" /\ file[d] # "done" THEN "lost" ELSE sent[d]
    BY DEF Down, bases, saved
  <1>2. \A d \in Dbs : sent'[d] = "yes" => sent[d] = "yes" /\ file[d] = "done"
    BY <1>1
  <1> QED
    BY <1>1, <1>2 DEF SentInv, LaterTables

\* Listing the databases, comparing the list with the dict, forgetting those that
\* are gone.
LEMMA ListSent ==
    ASSUME TypeOK, SentInv, DatabaseTime \/ CheckDatabase \/ Forget
    PROVE  SentInv'
  <1>0. \A d \in Dbs : known[d] \in {"unknown", "new", "done"}
    BY DEF TypeOK, Dict
  <1>1. CASE DatabaseTime
    BY <1>1 DEF DatabaseTime, SentInv, Noted, bases, saved, LaterTables
  <1>2. CASE CheckDatabase
    <2>1. /\ pc = "check" /\ pc' = "forget"
          /\ UNCHANGED <<birth, list, sent>>
      BY <1>2 DEF CheckDatabase, bases
    <2>2. \A d \in Dbs : known[d] = "done" => known'[d] = "done"
      BY <1>2 DEF CheckDatabase
    <2> QED
      BY <2>1, <2>2 DEF SentInv, Noted, LaterTables
  <1>3. CASE Forget
    <2>1. /\ pc = "forget" /\ pc' \in {"forget", "report", "size"}
          /\ UNCHANGED <<birth, list, sent>>
      BY <1>3 DEF Forget, bases
    <2>2. ASSUME NEW d \in Dbs, sent[d] = "yes" PROVE known'[d] = "done"
      <3>1. known[d] = "done" /\ d \in Listed
        BY <2>1, <2>2 DEF SentInv, Noted, Listed
      <3> QED
        BY <1>3, <3>1 DEF Forget
    <2>3. pc' = "report" => \A d \in todo' : known'[d] # "done"
      BY <1>0, <1>3 DEF Forget, Listed
    <2> QED
      BY <2>1, <2>2, <2>3 DEF SentInv, Noted, LaterTables
  <1> QED
    BY <1>1, <1>2, <1>3

\* Sending a report, and noting it in the dict.
LEMMA SendSent ==
    ASSUME TypeOK, SentInv, Report \/ Mark
    PROVE  SentInv'
  <1>0. /\ \A d \in Dbs : known[d] \in {"unknown", "new", "done"}
        /\ todo \subseteq Dbs /\ victim \in Dbs
    BY DEF TypeOK, Dict
  <1>1. CASE Report
    <2>1. CASE todo = {} /\ pc' = "size" /\ UNCHANGED <<sent, victim>>
      <3>1. UNCHANGED <<birth, known, file, list, todo, victim, sent>> /\ pc = "report"
        BY <1>1, <2>1 DEF Report, bases, saved
      <3> QED
        BY <2>1, <3>1, QuietSent DEF LaterTables
    <2>2. ASSUME NEW d \in todo, birth[d] # 0, sent' = [sent EXCEPT ![d] = "yes"],
                 victim' = d, pc' = "mark"
          PROVE  SentInv'
      <3>1. pc = "report" /\ UNCHANGED <<birth, known, todo>>
        BY <1>1 DEF Report, bases
      <3>2. \A e \in Dbs : e # d => sent'[e] = sent[e]
        BY <1>0, <2>2 DEF TypeOK
      <3>3. \A e \in Dbs : (e # d /\ sent[e] = "yes") => birth[e] # 0 /\ known[e] = "done"
        BY <3>1 DEF SentInv, Noted
      <3> QED
        BY <2>2, <3>1, <3>2, <3>3 DEF SentInv, Noted, LaterTables
    <2> QED
      BY <1>1, <2>1, <2>2 DEF Report
  <1>2. CASE Mark
    <2>1. /\ pc = "mark" /\ pc' = "report"
          /\ \A d \in Dbs : known'[d] = IF d = victim THEN "done" ELSE known[d]
          /\ todo' = todo \ {victim}
          /\ UNCHANGED <<birth, victim, sent>>
      BY <1>2 DEF Mark, bases, TypeOK, Dict
    <2> QED
      BY <1>0, <2>1 DEF SentInv, Noted, LaterTables
  <1> QED
    BY <1>1, <1>2

\* A database that the spider makes again has no report yet.
LEMMA RemakeSent ==
    ASSUME TypeOK, SentInv, Remake \/ RemakeTable
    PROVE  SentInv'
  <1>0. todo \subseteq Dbs
    BY DEF TypeOK
  <1>1. /\ pc \in {"report"} \cup LaterTables /\ pc' \in {"report"} \cup LaterTables
        /\ UNCHANGED <<known, todo, sent>>
        /\ \A d \in Dbs : birth[d] # 0 => birth'[d] # 0
    <2>1. CASE Remake
      <3>1. PICK d \in todo : birth[d] = 0 /\ birth' = [birth EXCEPT ![d] = MaxCreates + 1]
        BY <2>1 DEF Remake
      <3>2. \A e \in Dbs : e # d => birth'[e] = birth[e]
        BY <1>0, <3>1 DEF TypeOK
      <3> QED
        BY <2>1, <3>1, <3>2 DEF Remake, LaterTables
    <2>2. CASE RemakeTable
      BY <2>2 DEF RemakeTable, LaterTables
    <2> QED
      BY <2>1, <2>2
  <1> QED
    BY <1>1 DEF SentInv, Noted, LaterTables

\* Dropping a database when the disk is full.
LEMMA CleanSent ==
    ASSUME TypeOK, SentInv, Pick \/ CleanDelete \/ CleanDrop
    PROVE  SentInv'
  <1>0. victim \in Dbs
    BY DEF TypeOK
  <1>1. CASE Pick
    <2>1. /\ pc = "pick" /\ pc' \in {"delete", "truncate"}
          /\ UNCHANGED <<birth, known, sent>>
      BY <1>1 DEF Pick, bases
    <2> QED
      BY <2>1 DEF SentInv, Noted, LaterTables
  <1>2. CASE CleanDelete
    <2>1. /\ pc = "delete" /\ pc' = "drop"
          /\ \A d \in Dbs : d # victim => known'[d] = known[d]
          /\ UNCHANGED <<birth, victim, sent>>
      BY <1>2 DEF CleanDelete, bases, TypeOK, Dict
    <2> QED
      BY <2>1 DEF SentInv, Noted, LaterTables
  <1>3. CASE CleanDrop
    <2>1. /\ pc = "drop" /\ pc' = "truncate" /\ known' = known
          /\ \A d \in Dbs : d # victim => birth'[d] = birth[d] /\ sent'[d] = sent[d]
          /\ sent'[victim] = "no"
      BY <1>0, <1>3 DEF CleanDrop, DropDatabase, TypeOK
    <2> QED
      BY <2>1 DEF SentInv, Noted, LaterTables
  <1> QED
    BY <1>1, <1>2, <1>3

\* A database made again, or dropped, has no reports.
LEMMA WorldSent ==
    ASSUME TypeOK, SentInv, NEW d \in Dbs, Create(d) \/ Remove(d)
    PROVE  SentInv'
  <1>1. UNCHANGED <<pc, known, file, list, todo, victim>>
    BY DEF Create, Remove, spider, saved
  <1>2. \A e \in Dbs : e # d => birth'[e] = birth[e] /\ sent'[e] = sent[e]
    BY DEF Create, Remove, DropDatabase, TypeOK
  <1>3. sent'[d] # "yes"
    <2>1. CASE Create(d)
      BY <2>1 DEF Create, SentInv
    <2>2. CASE Remove(d)
      BY <2>2 DEF Remove, DropDatabase, TypeOK
    <2> QED
      BY <2>1, <2>2
  <1> QED
    BY <1>1, <1>2, <1>3 DEF SentInv, Noted

\* Every step keeps the invariant.
LEMMA SentStep == TypeOK /\ SentInv /\ [Next]_vars => SentInv'
  <1> SUFFICES ASSUME TypeOK, SentInv, [Next]_vars PROVE SentInv'
    OBVIOUS
  <1>1. CASE \/ CheckDiskFree \/ OnlineSizes \/ SettingSelect \/ CleanSelect \/ NoClean
             \/ Truncate \/ DiskChanges \/ UNCHANGED vars
             \/ \E d \in Dbs, v \in {"false", "true"} : Click(d, v)
             \/ \E d \in Dbs, t \in LaterTables : Extend(d, t) \/ KillMaker(d, t)
    <2>1. /\ UNCHANGED <<birth, known, file, list, todo, victim, sent>>
          /\ \/ pc' = pc
             \/ /\ pc \notin {"mark", "drop", "down"}
                /\ pc' \notin {"report", "mark", "check", "forget", "down", "drop"} \cup LaterTables
      BY <1>1 DEF CheckDiskFree, OnlineSizes, SettingSelect, CleanSelect, Select,
         NoClean, Truncate, DiskChanges, Click, Extend, KillMaker, vars, spider, bases,
         saved, LaterTables
    <2> QED
      BY <2>1, QuietSent
  <1>2. CASE Sizes \/ IpCounts \/ DetailedInfo \/ SettingUpdate \/ Write
    <2>1. /\ pc \in {"size", "ip", "detail", "update", "write"}
          /\ pc' \in {"ip", "detail", "online", "update", "clean", "disk"}
          /\ UNCHANGED <<birth, known, sent>>
      BY <1>2 DEF Sizes, IpCounts, DetailedInfo, SettingUpdate, Write, bases
    <2> QED
      BY <2>1 DEF SentInv, Noted, LaterTables
  <1>3. CASE Crash \/ SelfCrash
    <2>1. pc # "down" /\ Down
      BY <1>3 DEF Crash, SelfCrash, LaterTables
    <2> QED
      BY <2>1, DownSent
  <1>4. CASE Restart
    <2>1. pc = "down" /\ pc' = "disk" /\ known' = file /\ UNCHANGED <<birth, sent>>
      BY <1>4 DEF Restart, bases
    <2> QED
      BY <2>1 DEF SentInv, Noted, LaterTables
  <1> QED
    BY <1>1, <1>2, <1>3, <1>4, ListSent, SendSent, RemakeSent, CleanSent, WorldSent
       DEF Next, Round

\* A report that is to be sent was not sent before.
LEMMA SentStays ==
    TypeOK /\ SentInv =>
        \A d \in Dbs : (/\ pc = "report" /\ pc' = "mark" /\ victim' = d
                        /\ [Next]_vars) => sent[d] # "yes"
  <1> SUFFICES ASSUME TypeOK, SentInv, NEW d \in Dbs, pc = "report", pc' = "mark",
                      victim' = d, [Next]_vars
               PROVE  sent[d] # "yes"
    OBVIOUS
  <1>1. Report
    BY DEF Next, Round, CheckDiskFree, DatabaseTime, CheckDatabase, Forget, Remake,
       RemakeTable, LaterTables, Mark, Sizes, IpCounts, DetailedInfo, OnlineSizes,
       SettingSelect, SettingUpdate, CleanSelect, NoClean, Select, Pick, CleanDelete,
       CleanDrop, Truncate, Write, SelfCrash, Crash, Down, Restart, Create, Extend,
       KillMaker, Remove, Click, DiskChanges, vars, spider
  <1>2. d \in todo
    BY <1>1 DEF Report
  <1> QED
    BY <1>2 DEF SentInv, Noted

\* The report of a database goes out once, and again only when the spider died
\* before it had dumped that (spider.py:383-396, 557-562).
THEOREM ReportsGoOutOnce == Spec => ReportedOnce
  <1>1. Init => SentInv
    BY DEF Init, SentInv, LaterTables
  <1>2. TypeOK /\ SentInv /\ [Next]_vars =>
          \A d \in Dbs : (pc = "report" /\ pc' = "mark" /\ victim' = d) => sent[d] # "yes"
    BY SentStays
  <1> QED
    BY <1>1, <1>2, SentStep, TypeCorrect, PTL DEF Spec, ReportedOnce
=============================================================================
