-------------------------- MODULE StageGraphProofs --------------------------
(***************************************************************************)
(* A build yields what its Dockerfile says, for Dockerfiles of any number  *)
(* of stages and instructions.  What a Dockerfile says is a recursive      *)
(* function of its stages, so the proof begins with induction and with the *)
(* recursive functions of StageGraph.                                      *)
(***************************************************************************)
EXTENDS StageGraph, Integers, WellFoundedInduction, TLAPS

-----------------------------------------------------------------------------
(* Induction over the natural numbers, by sets.                            *)

LessThan == {p \in Nat \X Nat : p[1] < p[2]}

\* There is no infinite descent in the natural numbers.
LEMMA LessThanWellFounded == IsWellFoundedOn(LessThan, Nat)
<1>1. LessThan = OpToRel(<, Nat)
  BY DEF LessThan, OpToRel
<1> QED
  BY <1>1, NatLessThanWellFounded, Zenon

\* A set of natural numbers has a least element.
LEMMA Least ==
  ASSUME NEW T \in SUBSET Nat, T # {}
  PROVE  \E x \in T : \A y \in T : x <= y
<1>1. PICK x \in T : \A y \in T : ~(<<y, x>> \in LessThan)
  BY LessThanWellFounded, WFMin, Zenon
<1>2. ASSUME NEW y \in T
      PROVE  x <= y
  <2>1. x \in Nat /\ y \in Nat /\ ~(<<y, x>> \in LessThan)
    BY <1>1
  <2> QED
    BY <2>1 DEF LessThan
<1> QED
  BY <1>2

\* A bounded one has a greatest.
LEMMA Greatest ==
  ASSUME NEW n \in Nat, NEW T \in SUBSET (0..n), T # {}
  PROVE  \E x \in T : \A y \in T : y <= x
<1> DEFINE U == {n - y : y \in T}
<1>1. U \in SUBSET Nat /\ U # {}
  <2>1. PICK y \in T : TRUE
    BY Zenon
  <2>2. n - y \in U
    BY <2>1
  <2>3. ASSUME NEW z \in T
        PROVE  n - z \in Nat
    OBVIOUS
  <2> QED
    BY <2>2, <2>3
<1>2. PICK u \in U : \A v \in U : u <= v
  <2> HIDE DEF U
  <2> QED
    BY <1>1, Least
<1>3. PICK x \in T : u = n - x
  BY <1>2
<1>4. ASSUME NEW y \in T
      PROVE  y <= x
  <2>1. n - x <= n - y
    BY <1>2, <1>3, Zenon
  <2> QED
    BY <2>1
<1> QED
  BY <1>4

\* A set with 0 that has the successors of its elements has all natural numbers.
LEMMA Induction ==
  ASSUME NEW S, 0 \in S, \A n \in Nat : n \in S => n + 1 \in S
  PROVE  Nat \subseteq S
<1> SUFFICES ASSUME Nat \ S # {}
             PROVE  FALSE
  OBVIOUS
<1>1. PICK x \in Nat \ S : \A y \in Nat \ S : x <= y
  BY Least, Zenon
<1>2. x - 1 \in Nat /\ x - 1 \notin Nat \ S
  BY <1>1
<1> QED
  BY <1>1, <1>2

-----------------------------------------------------------------------------
(* Sequences of anything.                                                  *)

\* A sequence has its values.
LEMMA Values ==
  ASSUME NEW s, IsSequence(s)
  PROVE  /\ Len(s) \in Nat /\ DOMAIN s = 1..Len(s)
         /\ s \in Seq({s[k] : k \in DOMAIN s})
BY DEF IsSequence

\* The sequences over a set are sequences.
LEMMA Typed ==
  ASSUME NEW S, NEW s \in Seq(S)
  PROVE  IsSequence(s)
BY DEF IsSequence

\* So are the functions on 1..n.
LEMMA FromFunction ==
  ASSUME NEW n \in Nat, NEW s, s = [k \in 1..n |-> s[k]]
  PROVE  IsSequence(s) /\ Len(s) = n /\ DOMAIN s = 1..n
<1>1. s \in [1..n -> {s[k] : k \in 1..n}] /\ DOMAIN s = 1..n
  OBVIOUS
<1> QED
  BY <1>1 DEF IsSequence

\* Sequences with the same elements are equal.
LEMMA Same ==
  ASSUME NEW s, NEW t, IsSequence(s), IsSequence(t), Len(s) = Len(t),
         \A k \in 1..Len(s) : s[k] = t[k]
  PROVE  s = t
BY SMTT(30) DEF IsSequence

\* One more element.
LEMMA Appended ==
  ASSUME NEW s, NEW x, IsSequence(s)
  PROVE  /\ IsSequence(Append(s, x)) /\ Len(Append(s, x)) = Len(s) + 1
         /\ \A k \in 1..Len(s) : Append(s, x)[k] = s[k]
         /\ Append(s, x)[Len(s) + 1] = x
<1> DEFINE S == {s[k] : k \in DOMAIN s} \cup {x}
<1>1. s \in Seq(S) /\ x \in S
  BY DEF IsSequence
<1> HIDE DEF S
<1>2. Append(s, x) \in Seq(S)
  BY <1>1
<1>3. IsSequence(Append(s, x))
  BY <1>2, Typed, Zenon
<1> QED
  BY <1>1, <1>2, <1>3

\* One sequence after another.
LEMMA Joined ==
  ASSUME NEW s, NEW t, IsSequence(s), IsSequence(t)
  PROVE  /\ IsSequence(s \o t) /\ Len(s \o t) = Len(s) + Len(t)
         /\ \A k \in 1..Len(s) : (s \o t)[k] = s[k]
         /\ \A k \in 1..Len(t) : (s \o t)[Len(s) + k] = t[k]
<1> DEFINE S == {s[k] : k \in DOMAIN s} \cup {t[k] : k \in DOMAIN t}
<1>1. s \in Seq(S) /\ t \in Seq(S)
  BY DEF IsSequence
<1> HIDE DEF S
<1>2. s \o t \in Seq(S)
  BY <1>1
<1>3. IsSequence(s \o t)
  BY <1>2, Typed, Zenon
<1> QED
  BY <1>1, <1>2, <1>3
-----------------------------------------------------------------------------
(* The recursive functions.                                                *)

ChangesStep(body, f, m) ==
  IF m = 0 THEN <<>> ELSE IF body[m].op = "onbuild" THEN f[m - 1] ELSE Append(f[m - 1], m)

\* Changes is what its definition says: a function with that recursion exists.
LEMMA ChangesDefined ==
  ASSUME NEW body, IsSequence(body)
  PROVE  Changes(body) = [m \in 0..Len(body) |-> ChangesStep(body, Changes(body), m)]
<1> DEFINE Upto(n, f) == f = [m \in 0..n |-> ChangesStep(body, f, m)]
           S == {n \in Nat : n <= Len(body) => \E f : Upto(n, f)}
<1>0. Len(body) \in Nat
  BY Values
<1>1. 0 \in S
  <2> DEFINE f == [m \in 0..0 |-> <<>>]
  <2>1. Upto(0, f)
    BY DEF ChangesStep
  <2> QED
    BY <2>1
<1>2. ASSUME NEW n \in Nat, n \in S
      PROVE  n + 1 \in S
  <2> SUFFICES ASSUME n + 1 <= Len(body)
               PROVE  \E f : Upto(n + 1, f)
    OBVIOUS
  <2>1. PICK f : Upto(n, f)
    BY <1>0, <1>2
  <2> DEFINE g == [m \in 0..(n + 1) |-> IF m = n + 1 THEN ChangesStep(body, f, m) ELSE f[m]]
  <2>2. \A m \in 0..n : g[m] = f[m] /\ f[m] = ChangesStep(body, f, m)
    <3>1. \A m \in 0..n : f[m] = ChangesStep(body, f, m)
      BY <2>1
    <3> QED
      BY <3>1
  <2>3. ASSUME NEW m \in 0..(n + 1)
        PROVE  g[m] = ChangesStep(body, g, m)
    <3>1. ChangesStep(body, g, m) = ChangesStep(body, f, m)
      <4>1. m # 0 => g[m - 1] = f[m - 1]
        BY <2>2
      <4> QED
        BY <4>1 DEF ChangesStep
    <3>2. g[m] = ChangesStep(body, f, m)
      <4>1. CASE m = n + 1
        BY <4>1
      <4>2. CASE m # n + 1
        <5>1. m \in 0..n
          BY <4>2
        <5> QED
          BY <5>1, <2>2, Zenon
      <4> QED
        BY <4>1, <4>2
    <3> QED
      BY <3>1, <3>2
  <2>4. Upto(n + 1, g)
    BY <2>3
  <2> QED
    BY <2>4, Zenon
<1>3. Nat \subseteq S
  <2> HIDE DEF S
  <2> QED
    BY <1>1, <1>2, Induction
<1>4. \E f : f = [m \in 0..Len(body) |-> ChangesStep(body, f, m)]
  BY <1>0, <1>3
<1>5. Changes(body) = CHOOSE f : f = [m \in 0..Len(body) |-> ChangesStep(body, f, m)]
  BY DEF Changes, ChangesStep
<1> QED
  BY <1>4, <1>5, Zenon

\* The first m instructions have at most m changes, each at its position.
LEMMA ChangesType ==
  ASSUME NEW body, IsSequence(body)
  PROVE  /\ Changes(body)[0] = <<>>
         /\ \A m \in 1..Len(body) :
              Changes(body)[m] = IF body[m].op = "onbuild" THEN Changes(body)[m - 1]
                                 ELSE Append(Changes(body)[m - 1], m)
         /\ \A m \in 0..Len(body) : Changes(body)[m] \in Seq(1..m) /\ Len(Changes(body)[m]) <= m
<1> DEFINE c == Changes(body)
           S == {m \in Nat : m <= Len(body) => c[m] \in Seq(1..m) /\ Len(c[m]) <= m}
<1>0. Len(body) \in Nat
  BY Values
<1>1. \A m \in 0..Len(body) : c[m] = ChangesStep(body, c, m)
  <2> HIDE DEF c
  <2> QED
    BY ChangesDefined DEF c
<1> HIDE DEF c
<1>2. c[0] = <<>>
  BY <1>0, <1>1 DEF ChangesStep
<1>3. \A m \in 1..Len(body) : c[m] = IF body[m].op = "onbuild" THEN c[m - 1] ELSE Append(c[m - 1], m)
  BY <1>0, <1>1 DEF ChangesStep
<1>4. 0 \in S
  <2>1. <<>> \in Seq(1..0) /\ Len(<<>>) = 0
    OBVIOUS
  <2>2. c[0] \in Seq(1..0) /\ Len(c[0]) <= 0
    BY <1>2, <2>1
  <2> QED
    BY <2>2
<1>5. ASSUME NEW m \in Nat, m \in S
      PROVE  m + 1 \in S
  <2> SUFFICES ASSUME m + 1 <= Len(body)
               PROVE  c[m + 1] \in Seq(1..(m + 1)) /\ Len(c[m + 1]) <= m + 1
    OBVIOUS
  <2>1. c[m] \in Seq(1..(m + 1)) /\ Len(c[m]) <= m /\ Len(c[m]) \in Nat
    <3>1. c[m] \in Seq(1..m) /\ Len(c[m]) <= m
      BY <1>0, <1>5
    <3> QED
      BY <3>1
  <2>2. c[m + 1] = IF body[m + 1].op = "onbuild" THEN c[m] ELSE Append(c[m], m + 1)
    BY <1>0, <1>3
  <2>3. Append(c[m], m + 1) \in Seq(1..(m + 1)) /\ Len(Append(c[m], m + 1)) = Len(c[m]) + 1
    BY <2>1
  <2>4. CASE body[m + 1].op = "onbuild"
    <3>1. c[m + 1] = c[m]
      BY <2>2, <2>4, Zenon
    <3> QED
      BY <2>1, <3>1
  <2>5. CASE body[m + 1].op # "onbuild"
    <3>1. c[m + 1] = Append(c[m], m + 1)
      BY <2>2, <2>5, Zenon
    <3> QED
      BY <2>1, <2>3, <3>1
  <2> QED
    BY <2>4, <2>5
<1>6. Nat \subseteq S
  <2> HIDE DEF S
  <2> QED
    BY <1>4, <1>5, Induction
<1>7. \A m \in 0..Len(body) : c[m] \in Seq(1..m) /\ Len(c[m]) <= m
  BY <1>0, <1>6
<1> QED
  BY <1>2, <1>3, <1>7 DEF c

-----------------------------------------------------------------------------
\* A Dockerfile is a sequence of stages.
LEMMA Stages ==
  ASSUME df \in Dockerfiles
  PROVE  /\ IsSequence(df) /\ Len(df) \in Nat \ {0} /\ DOMAIN df = 1..Len(df)
         /\ \A i \in 1..Len(df) :
              /\ IsSequence(df[i].body) /\ Len(df[i].body) \in Nat
              /\ DOMAIN df[i].body = 1..Len(df[i].body)
              /\ \E n \in DOMAIN Indexes : Indexes[n] = i
              /\ Expand(df[i].from) # NoName
<1>1. IsSequence(df) /\ df # <<>>
  BY DockerfilesAssumption
<1>2. Len(df) \in Nat \ {0} /\ DOMAIN df = 1..Len(df)
  BY <1>1, Values
<1>3. ASSUME NEW i \in 1..Len(df)
      PROVE  /\ IsSequence(df[i].body) /\ \E n \in DOMAIN Indexes : Indexes[n] = i
             /\ Expand(df[i].from) # NoName
  BY <1>2, <1>3, DockerfilesAssumption
<1> QED
  BY <1>1, <1>2, <1>3, Values

\* StageNamed is the last stage of that name, if there is one.
LEMMA NamedStage ==
  ASSUME NEW i \in Nat, NEW name
  PROVE  /\ StageNamed(i, name) \in 0..(i - 1) \/ i = 0
         /\ StageNamed(i, name) = 0 => \A k \in 1..(i - 1) : df[k].as # name
         /\ StageNamed(i, name) # 0 =>
              /\ StageNamed(i, name) \in 1..(i - 1)
              /\ df[StageNamed(i, name)].as = name
              /\ \A k \in (StageNamed(i, name) + 1)..(i - 1) : df[k].as # name
<1> DEFINE named == {j \in 1..(i - 1) : df[j].as = name}
<1>1. CASE named = {}
  <2>1. StageNamed(i, name) = 0
    BY <1>1 DEF StageNamed
  <2> QED
    BY <1>1, <2>1
<1>2. CASE named # {}
  <2>1. named \in SUBSET (0..i)
    OBVIOUS
  <2>2. \E j \in named : \A k \in named : k <= j
    <3> HIDE DEF named
    <3> QED
      BY <1>2, <2>1, Greatest, Zenon
  <2>3. StageNamed(i, name) = CHOOSE j \in named : \A k \in named : k <= j
    BY <1>2 DEF StageNamed
  <2>4. StageNamed(i, name) \in named /\ \A k \in named : k <= StageNamed(i, name)
    <3> HIDE DEF named
    <3> QED
      BY <2>2, <2>3
  <2> QED
    BY <2>4
<1> QED
  BY <1>1, <1>2

\* The base of a stage is before it.
LEMMA BaseBefore ==
  ASSUME NEW i \in Nat \ {0}
  PROVE  BaseStage(i) \in 0..(i - 1)
BY NamedStage DEF BaseStage

\* What a stage makes depends on the stages before it.
LEMMA MakeLocal ==
  ASSUME NEW i \in Nat \ {0}, NEW g, NEW h, \A j \in 1..(i - 1) : g[j] = h[j]
  PROVE  Make(g, i) = Make(h, i)
<1>1. BaseImage(g, i) = BaseImage(h, i)
  BY BaseBefore DEF BaseImage
<1>2. ASSUME NEW name
      PROVE  Source(g, i, name) = Source(h, i, name)
  <2>1. StageNamed(i, name) # 0 => StageNamed(i, name) \in 1..(i - 1)
    BY NamedStage, Zenon
  <2>2. name \in DOMAIN Indexes /\ Indexes[name] < i => Indexes[name] \in 1..(i - 1)
    BY IndexesAssumption
  <2> QED
    BY <2>1, <2>2 DEF Source
<1>3. ASSUME NEW k
      PROVE  Effect(g, i, k) = Effect(h, i, k)
  BY <1>2 DEF Effect
<1> QED
  BY <1>1, <1>3, Zenon DEF Make

\* Written is what its definition says.
LEMMA WrittenDefined ==
  ASSUME df \in Dockerfiles
  PROVE  \A i \in 1..Len(df) : Written[i] = Make(Written, i)
<1> DEFINE Upto(n, f) == f = [i \in 1..n |-> Make(f, i)]
           S == {n \in Nat : \E f : Upto(n, f)}
<1>0. Len(df) \in Nat
  BY Stages
<1>1. 0 \in S
  <2> DEFINE f == [i \in 1..0 |-> <<>>]
  <2>1. Upto(0, f)
    OBVIOUS
  <2> QED
    BY <2>1, Zenon
<1>2. ASSUME NEW n \in Nat, n \in S
      PROVE  n + 1 \in S
  <2>1. PICK f : Upto(n, f)
    BY <1>2
  <2> DEFINE g == [i \in 1..(n + 1) |-> IF i = n + 1 THEN Make(f, i) ELSE f[i]]
  <2>2. \A i \in 1..n : g[i] = f[i] /\ f[i] = Make(f, i)
    <3>1. \A i \in 1..n : f[i] = Make(f, i)
      BY <2>1
    <3> QED
      BY <3>1
  <2>3. ASSUME NEW i \in 1..(n + 1)
        PROVE  g[i] = Make(g, i)
    <3>1. Make(g, i) = Make(f, i)
      <4>1. \A j \in 1..(i - 1) : g[j] = f[j]
        BY <2>2
      <4> HIDE DEF g
      <4> QED
        BY <4>1, MakeLocal
    <3>2. CASE i = n + 1
      BY <3>1, <3>2
    <3>3. CASE i # n + 1
      <4>1. i \in 1..n
        BY <3>3
      <4> QED
        BY <2>2, <3>1, <4>1, Zenon
    <3> QED
      BY <3>2, <3>3
  <2>4. Upto(n + 1, g)
    BY <2>3
  <2>5. \E h : Upto(n + 1, h)
    <3> HIDE DEF g
    <3> QED
      BY <2>4
  <2> QED
    BY <2>5
<1>3. Nat \subseteq S
  <2> HIDE DEF S
  <2> QED
    BY <1>1, <1>2, Induction
<1>4. \E f : f = [i \in 1..Len(df) |-> Make(f, i)]
  BY <1>0, <1>3
<1>5. Written = CHOOSE f : f = [i \in 1..Len(df) |-> Make(f, i)]
  BY DEF Written
<1>6. Written = [i \in 1..Len(df) |-> Make(Written, i)]
  BY <1>4, <1>5, Zenon
<1> QED
  BY <1>6, Zenon

\* So is OnlyTriggers.
LEMMA OnlyTriggersDefined ==
  ASSUME df \in Dockerfiles
  PROVE  \A i \in 1..Len(df) : OnlyTriggers[i] = LeavesTriggers(OnlyTriggers, i)
<1> DEFINE Upto(n, f) == f = [i \in 1..n |-> LeavesTriggers(f, i)]
           S == {n \in Nat : \E f : Upto(n, f)}
<1>0. Len(df) \in Nat
  BY Stages
<1>1. 0 \in S
  <2> DEFINE f == [i \in 1..0 |-> FALSE]
  <2>1. Upto(0, f)
    OBVIOUS
  <2> QED
    BY <2>1, Zenon
<1>2. ASSUME NEW n \in Nat, n \in S
      PROVE  n + 1 \in S
  <2>1. PICK f : Upto(n, f)
    BY <1>2
  <2> DEFINE g == [i \in 1..(n + 1) |-> IF i = n + 1 THEN LeavesTriggers(f, i) ELSE f[i]]
  <2>2. \A i \in 1..n : g[i] = f[i] /\ f[i] = LeavesTriggers(f, i)
    <3>1. \A i \in 1..n : f[i] = LeavesTriggers(f, i)
      BY <2>1
    <3> QED
      BY <3>1
  <2>3. ASSUME NEW i \in 1..(n + 1)
        PROVE  g[i] = LeavesTriggers(g, i)
    <3>1. LeavesTriggers(g, i) = LeavesTriggers(f, i)
      <4>1. \A j \in 1..(i - 1) : g[j] = f[j]
        BY <2>2
      <4>2. BaseStage(i) # 0 => g[BaseStage(i)] = f[BaseStage(i)]
        BY <4>1, BaseBefore
      <4> HIDE DEF g
      <4> QED
        BY <4>2, Zenon DEF LeavesTriggers
    <3>2. CASE i = n + 1
      BY <3>1, <3>2
    <3>3. CASE i # n + 1
      <4>1. i \in 1..n
        BY <3>3
      <4> HIDE DEF g
      <4> QED
        BY <2>2, <3>1, <4>1, Zenon
    <3> QED
      BY <3>2, <3>3
  <2>4. Upto(n + 1, g)
    BY <2>3
  <2>5. \E h : Upto(n + 1, h)
    <3> HIDE DEF g
    <3> QED
      BY <2>4
  <2> QED
    BY <2>5
<1>3. Nat \subseteq S
  <2> HIDE DEF S
  <2> QED
    BY <1>1, <1>2, Induction
<1>4. \E f : f = [i \in 1..Len(df) |-> LeavesTriggers(f, i)]
  BY <1>0, <1>3
<1>5. OnlyTriggers = CHOOSE f : f = [i \in 1..Len(df) |-> LeavesTriggers(f, i)]
  BY DEF OnlyTriggers, Last
<1>6. OnlyTriggers = [i \in 1..Len(df) |-> LeavesTriggers(OnlyTriggers, i)]
  BY <1>4, <1>5, Zenon
<1> QED
  BY <1>6, Zenon

-----------------------------------------------------------------------------
(***************************************************************************)
(* The inductive invariant.  The stages before pos have been built as they *)
(* are written.  The ID that such a stage has is that of an image from     *)
(* which a stage can go on as from what is written: that image itself, or  *)
(* one whose triggers are still to be executed.  A stage that is being     *)
(* built has the changes of the instructions executed so far.              *)
(***************************************************************************)

Good == \A i \in 1..Last : ~Unmarked(i) /\ ~Renamed(i)

Image(from, log, triggers) == <<[from |-> from, log |-> log, triggers |-> triggers]>>
IsImage(x) ==
  /\ x = Image(x[1].from, x[1].log, x[1].triggers)
  /\ IsSequence(x[1].log) /\ x[1].triggers \in Nat

\* The log of an image after its triggers have been executed.
Fired(x) == x[1].log \o Triggers(x[1].triggers)

Marked(i) ==
  BaseStage(i) # 0 /\ df[BaseStage(i)].body # <<>> /\ ~Unmarked(i) => pages[BaseStage(i)].needCommit

PagesInv ==
  /\ IsSequence(pages) /\ Len(pages) <= Last
  /\ \A j \in 1..Len(pages) :
       /\ pages[j] = [name |-> PageName(j), lines |-> Lines(df[j]), needCommit |-> pages[j].needCommit]
       /\ pages[j].needCommit \in BOOLEAN
       /\ pages[j].needCommit => df[j].body # <<>>
       /\ Marked(j)
  /\ phase # "parse" => Len(pages) = Last /\ (df[Last].body # <<>> => pages[Last].needCommit)

StagesInv ==
  /\ IsSequence(stages) /\ Len(stages) <= Last
  /\ \A i \in 1..Len(stages) :
       stages[i] = [fromImage |-> Expand(df[i].from), fromStage |-> BaseStage(i),
                    fs |-> stages[i].fs, imageID |-> stages[i].imageID]
  /\ DOMAIN aliases = {df[k].as : k \in 1..Len(stages)} \ {NoName}
  /\ \A name \in DOMAIN aliases : aliases[name] = StageNamed(Len(stages) + 1, name)
  /\ phase \notin {"parse", "analyze"} => Len(stages) = Last

\* What stage i begins with.
Start(i) == IF IsScratch(stages[i]) THEN Scratch ELSE FromImage(stages[i])

Carried(x, i) ==
  IF OnlyTriggers[i]
  THEN /\ IsImage(x) /\ x[1].triggers > 0
       /\ Written[i] = Image(x[1].from, Fired(x), 0)
  ELSE x = Written[i] \/ (x = None /\ Written[i] = Scratch)

BuiltAs(i) ==
  /\ stages[i].fs = Written[i]
  /\ pages[i].needCommit \/ df[i].body = <<>> => Carried(stages[i].imageID, i)

\* What the first p instructions of stage i do.
Effects(i, p) ==
  LET c == Changes(df[i].body)[p] IN [k \in DOMAIN c |-> Effect(Written, i, c[k])]

\* Stage i after p of its instructions, if it begins with x; p is not positive while
\* triggers are left.
After(x, i, p) ==
  IF p <= 0 THEN Image(x[1].from, x[1].log \o Triggers(x[1].triggers + p), 0)
  ELSE Image(x[1].from, Fired(x) \o Effects(i, p), p - Len(Changes(df[i].body)[p]))

\* Stage i, that began with x, has instructions left and is fs.
Executing(i, x, left, fs) ==
  LET body == df[i].body
      p == Len(body) - Len(left) IN
  /\ IsSequence(left)
  /\ \A k \in 1..Len(left) : left[k] = IF p + k <= 0 THEN Trigger ELSE body[p + k]
  /\ x # None
  /\ x[1].triggers + p >= 0
  /\ fs = After(x, i, p)

Finished == phase \in {"export", "ok"}

IInv ==
  /\ df \in Dockerfiles /\ pos \in 1..Last
  /\ PagesInv /\ StagesInv
  /\ phase \in {"parse", "analyze"} => pos = 1
  /\ Good => /\ \A i \in 1..(pos - 1) : BuiltAs(i)
             /\ phase = "exec" => Executing(pos, Start(pos), todo, stages[pos].fs)
             /\ Finished => BuiltAs(Last)
  /\ Finished => result = stages[Last].imageID

-----------------------------------------------------------------------------
\* What a Dockerfile says does not change while it is built.
LEMMA SameDockerfile ==
  ASSUME df' = df
  PROVE  /\ \A i : PageName(i)' = PageName(i)
         /\ \A i, name : StageNamed(i, name)' = StageNamed(i, name)
         /\ \A i : BaseStage(i)' = BaseStage(i) /\ Unmarked(i)' = Unmarked(i)
         /\ Written' = Written /\ OnlyTriggers' = OnlyTriggers
         /\ Good' = Good
         /\ \A i, x, left, fs : Executing(i, x, left, fs)' <=> Executing(i, x, left, fs)
<1>1. \A i : PageName(i)' = PageName(i)
  BY DEF PageName
<1>2. \A i, name : StageNamed(i, name)' = StageNamed(i, name)
  BY DEF StageNamed
<1>3. \A i : BaseStage(i)' = BaseStage(i)
  BY <1>2 DEF BaseStage
<1>4. Written' = Written
  BY DEF Written, Make, BaseImage, BaseStage, StageNamed, Effect, Source
<1>5. OnlyTriggers' = OnlyTriggers
  BY <1>3, <1>4 DEF OnlyTriggers, LeavesTriggers, Last
<1>6. \A i : Unmarked(i)' = Unmarked(i)
  BY <1>1, <1>3 DEF Unmarked
<1>7. Good' = Good
  BY <1>2, <1>6 DEF Good, Renamed, Last
<1>8. \A i, x, p : After(x, i, p)' = After(x, i, p)
  <2>1. \A i, name : Source(Written, i, name)' = Source(Written, i, name)
    BY <1>2, <1>4 DEF Source
  <2>2. \A i, k : Effect(Written, i, k)' = Effect(Written, i, k)
    BY <2>1 DEF Effect
  <2>3. \A i, p : Effects(i, p)' = Effects(i, p)
    BY <2>2 DEF Effects
  <2> QED
    BY <2>3 DEF After
<1>9. \A i, x, left, fs : Executing(i, x, left, fs)' <=> Executing(i, x, left, fs)
  BY <1>8 DEF Executing
<1> QED
  BY <1>1, <1>2, <1>3, <1>4, <1>5, <1>6, <1>7, <1>9

\* Triggers(n) is a sequence of n events.
LEMMA TriggersType ==
  ASSUME NEW n \in Nat
  PROVE  /\ IsSequence(Triggers(n)) /\ Len(Triggers(n)) = n
         /\ \A k \in 1..n : Triggers(n)[k] = Event(0, 0, None)
<1> DEFINE t == Triggers(n)
<1>1. t = [k \in 1..n |-> t[k]] /\ \A k \in 1..n : t[k] = Event(0, 0, None)
  BY DEF Triggers
<1> HIDE DEF t
<1>2. IsSequence(t) /\ Len(t) = n
  BY <1>1, FromFunction
<1> QED
  BY <1>1, <1>2 DEF t

\* The empty sequence adds nothing.
LEMMA JoinedEmpty ==
  ASSUME NEW s, NEW t, IsSequence(s), IsSequence(t), Len(t) = 0
  PROVE  s \o t = s
<1>1. IsSequence(s \o t) /\ Len(s \o t) = Len(s) + Len(t) /\ \A k \in 1..Len(s) : (s \o t)[k] = s[k]
  BY Joined
<1>2. Len(s) \in Nat
  BY Values
<1>3. Len(s) = Len(s \o t) /\ \A k \in 1..Len(s) : s[k] = (s \o t)[k]
  BY <1>1, <1>2
<1>4. s = s \o t
  BY <1>1, <1>3, Same, Zenon
<1> QED
  BY <1>4, Zenon

\* What goes after the end of the second of two sequences.
LEMMA JoinedAppended ==
  ASSUME NEW s, NEW t, NEW x, IsSequence(s), IsSequence(t)
  PROVE  Append(s \o t, x) = s \o Append(t, x)
<1> DEFINE u == Append(s \o t, x)
           v == s \o Append(t, x)
<1>0. Len(s) \in Nat /\ Len(t) \in Nat
  BY Values
<1>1. /\ IsSequence(s \o t) /\ Len(s \o t) = Len(s) + Len(t)
      /\ \A k \in 1..Len(s) : (s \o t)[k] = s[k]
      /\ \A k \in 1..Len(t) : (s \o t)[Len(s) + k] = t[k]
  BY Joined
<1>2. /\ IsSequence(u) /\ Len(u) = Len(s) + Len(t) + 1
      /\ \A k \in 1..(Len(s) + Len(t)) : u[k] = (s \o t)[k]
      /\ u[Len(s) + Len(t) + 1] = x
  BY <1>1, Appended
<1>3. /\ IsSequence(Append(t, x)) /\ Len(Append(t, x)) = Len(t) + 1
      /\ \A k \in 1..Len(t) : Append(t, x)[k] = t[k]
      /\ Append(t, x)[Len(t) + 1] = x
  BY Appended
<1>4. /\ IsSequence(v) /\ Len(v) = Len(s) + Len(Append(t, x))
      /\ \A k \in 1..Len(s) : v[k] = s[k]
      /\ \A k \in 1..Len(Append(t, x)) : v[Len(s) + k] = Append(t, x)[k]
  BY <1>3, Joined
<1> HIDE DEF u, v
<1>5. ASSUME NEW k \in 1..(Len(s) + Len(t) + 1)
      PROVE  u[k] = v[k]
  <2>1. CASE k \in 1..Len(s)
    <3>1. k \in 1..(Len(s) + Len(t))
      BY <1>0, <2>1
    <3> QED
      BY <1>1, <1>2, <1>4, <2>1, <3>1
  <2>2. CASE k = Len(s) + Len(t) + 1
    <3>1. Len(t) + 1 \in 1..Len(Append(t, x)) /\ k = Len(s) + (Len(t) + 1)
      BY <1>0, <1>3, <2>2
    <3> QED
      BY <1>2, <1>3, <1>4, <2>2, <3>1
  <2>3. CASE k \in (Len(s) + 1)..(Len(s) + Len(t))
    <3> DEFINE l == k - Len(s)
    <3>1. l \in 1..Len(t) /\ l \in 1..(Len(t) + 1) /\ k = Len(s) + l /\ k \in 1..(Len(s) + Len(t))
      BY <1>0, <2>3
    <3> HIDE DEF l
    <3> QED
      BY <1>1, <1>2, <1>3, <1>4, <3>1
  <2> QED
    BY <1>0, <2>1, <2>2, <2>3
<1>6. Len(u) = Len(v) /\ \A k \in 1..Len(u) : u[k] = v[k]
  BY <1>0, <1>2, <1>3, <1>4, <1>5
<1>7. u = v
  BY <1>2, <1>4, <1>6, Same, Zenon
<1> QED
  BY <1>7 DEF u, v

-----------------------------------------------------------------------------
(* Images, and what is written.                                            *)

\* An image is what it is made of.
LEMMA ImageType ==
  ASSUME NEW from, NEW log, NEW n \in Nat, IsSequence(log)
  PROVE  /\ IsImage(Image(from, log, n))
         /\ Image(from, log, n)[1].from = from /\ Image(from, log, n)[1].log = log
         /\ Image(from, log, n)[1].triggers = n
<1>1. /\ Image(from, log, n)[1].from = from /\ Image(from, log, n)[1].log = log
      /\ Image(from, log, n)[1].triggers = n
  BY DEF Image
<1> QED
  BY <1>1 DEF IsImage

\* The images a Dockerfile can begin with.
LEMMA KnownImages ==
  /\ IsImage(Scratch) /\ Scratch[1].triggers = 0
  /\ \A name : /\ IsImage(Registry(name))
               /\ Registry(name)[1].triggers = IF name \in Triggered THEN 1 ELSE 0
<1>1. IsSequence(<<>>) /\ 0 \in Nat /\ 1 \in Nat
  BY DEF IsSequence
<1>2. Scratch = Image("scratch", <<>>, 0)
  BY DEF Scratch, Image
<1>3. ASSUME NEW name
      PROVE  Registry(name) = Image(name, <<>>, IF name \in Triggered THEN 1 ELSE 0)
  BY DEF Registry, Image
<1>4. IsImage(Scratch) /\ Scratch[1].triggers = 0
  BY <1>1, <1>2, ImageType
<1>5. ASSUME NEW name
      PROVE  /\ IsImage(Registry(name))
             /\ Registry(name)[1].triggers = IF name \in Triggered THEN 1 ELSE 0
  <2>1. CASE name \in Triggered
    <3>1. Registry(name) = Image(name, <<>>, 1)
      BY <1>3, <2>1
    <3> QED
      BY <1>1, <2>1, <3>1, ImageType
  <2>2. CASE name \notin Triggered
    <3>1. Registry(name) = Image(name, <<>>, 0)
      BY <1>3, <2>2
    <3> QED
      BY <1>1, <2>2, <3>1, ImageType
  <2> QED
    BY <2>1, <2>2
<1> QED
  BY <1>4, <1>5

\* The triggers of an image add events to its log.
LEMMA FiredType ==
  ASSUME NEW x, IsImage(x)
  PROVE  /\ IsSequence(Fired(x))
         /\ x[1].triggers = 0 => Fired(x) = x[1].log
<1>1. IsSequence(x[1].log) /\ x[1].triggers \in Nat
  BY DEF IsImage
<1>2. IsSequence(Triggers(x[1].triggers)) /\ Len(Triggers(x[1].triggers)) = x[1].triggers
  BY <1>1, TriggersType
<1>3. IsSequence(Fired(x))
  BY <1>1, <1>2, Joined DEF Fired
<1>4. x[1].triggers = 0 => Fired(x) = x[1].log
  BY <1>1, <1>2, JoinedEmpty DEF Fired
<1> QED
  BY <1>3, <1>4

\* What the first instructions of a stage do is a sequence, with one element more for
\* each instruction that changes the stage.
LEMMA EffectsType ==
  ASSUME df \in Dockerfiles, NEW i \in 1..Last
  PROVE  LET body == df[i].body IN
         /\ \A p \in 0..Len(body) :
              /\ IsSequence(Effects(i, p))
              /\ p - Len(Changes(body)[p]) \in Nat
         /\ Len(Effects(i, 0)) = 0 /\ Len(Changes(body)[0]) = 0
         /\ \A p \in 0..(Len(body) - 1) :
              IF body[p + 1].op = "onbuild"
              THEN Effects(i, p + 1) = Effects(i, p) /\ Len(Changes(body)[p + 1]) = Len(Changes(body)[p])
              ELSE /\ Effects(i, p + 1) = Append(Effects(i, p), Effect(Written, i, p + 1))
                   /\ Len(Changes(body)[p + 1]) = Len(Changes(body)[p]) + 1
<1> DEFINE body == df[i].body
           c == Changes(body)
<1>0. IsSequence(body) /\ Len(body) \in Nat
  BY Stages DEF Last
<1>1. /\ c[0] = <<>>
      /\ \A m \in 1..Len(body) : c[m] = IF body[m].op = "onbuild" THEN c[m - 1] ELSE Append(c[m - 1], m)
      /\ \A m \in 0..Len(body) : c[m] \in Seq(1..m) /\ Len(c[m]) <= m
  BY <1>0, ChangesType, SMTT(30)
<1> DEFINE E(p) == [k \in DOMAIN c[p] |-> Effect(Written, i, c[p][k])]
<1>2. \A p : Effects(i, p) = E(p)
  BY DEF Effects
<1> HIDE DEF c, body
<1>3. ASSUME NEW p \in 0..Len(body)
      PROVE  /\ IsSequence(E(p)) /\ Len(E(p)) = Len(c[p]) /\ p - Len(c[p]) \in Nat
             /\ IsSequence(c[p]) /\ Len(c[p]) \in Nat /\ DOMAIN c[p] = 1..Len(c[p])
  <2>1. c[p] \in Seq(1..p) /\ Len(c[p]) <= p
    BY <1>1
  <2>2. Len(c[p]) \in Nat /\ DOMAIN c[p] = 1..Len(c[p]) /\ IsSequence(c[p])
    BY <2>1, Typed
  <2> DEFINE n == Len(c[p])
             e == E(p)
  <2>3. e = [k \in 1..n |-> e[k]] /\ n \in Nat
    BY <2>2
  <2>4. IsSequence(e) /\ Len(e) = n
    <3> HIDE DEF e, n
    <3> QED
      BY <2>3, FromFunction
  <2> QED
    BY <2>1, <2>2, <2>4
<1>4. Len(E(0)) = 0 /\ Len(c[0]) = 0
  BY <1>0, <1>1, <1>3
<1>5. ASSUME NEW p \in 0..(Len(body) - 1)
      PROVE  IF body[p + 1].op = "onbuild" THEN E(p + 1) = E(p) /\ Len(c[p + 1]) = Len(c[p])
             ELSE /\ E(p + 1) = Append(E(p), Effect(Written, i, p + 1))
                  /\ Len(c[p + 1]) = Len(c[p]) + 1
  <2>0. p \in 0..Len(body) /\ p + 1 \in 1..Len(body) /\ p + 1 \in 0..Len(body) /\ (p + 1) - 1 = p
    BY <1>0
  <2>1. c[p + 1] = IF body[p + 1].op = "onbuild" THEN c[p] ELSE Append(c[p], p + 1)
    BY <1>1, <2>0
  <2>2. CASE body[p + 1].op = "onbuild"
    <3>1. c[p + 1] = c[p]
      BY <2>1, <2>2, Zenon
    <3>2. E(p + 1) = E(p)
      BY <3>1
    <3> QED
      BY <2>2, <3>1, <3>2
  <2>3. CASE body[p + 1].op # "onbuild"
    <3> DEFINE q == p + 1
               d == c[q]
               e == E(q)
               f == Append(E(p), Effect(Written, i, q))
    <3>1. d = Append(c[p], q)
      BY <2>1, <2>3, Zenon
    <3>2. /\ IsSequence(c[p]) /\ Len(c[p]) \in Nat /\ DOMAIN c[p] = 1..Len(c[p])
          /\ IsSequence(E(p)) /\ Len(E(p)) = Len(c[p]) /\ \A k \in 1..Len(c[p]) : E(p)[k] = Effect(Written, i, c[p][k])
      BY <1>3, <2>0, Zenon
    <3>3. /\ Len(d) = Len(c[p]) + 1 /\ \A k \in 1..Len(c[p]) : d[k] = c[p][k]
          /\ d[Len(c[p]) + 1] = q
      BY <3>1, <3>2, Appended
    <3>4. /\ IsSequence(e) /\ Len(e) = Len(d) /\ DOMAIN d = 1..Len(d)
          /\ \A k \in 1..Len(d) : e[k] = Effect(Written, i, d[k])
      BY <1>3, <2>0, Zenon
    <3>5. /\ IsSequence(f) /\ Len(f) = Len(c[p]) + 1
          /\ \A k \in 1..Len(c[p]) : f[k] = E(p)[k]
          /\ f[Len(c[p]) + 1] = Effect(Written, i, q)
      BY <3>2, Appended
    <3>6. ASSUME NEW k \in 1..Len(e)
          PROVE  e[k] = f[k]
      <4>1. CASE k \in 1..Len(c[p])
        <5>1. e[k] = Effect(Written, i, c[p][k])
          BY <3>3, <3>4, <4>1
        <5>2. f[k] = Effect(Written, i, c[p][k])
          BY <3>2, <3>5, <4>1
        <5> QED
          BY <5>1, <5>2, Zenon
      <4>2. CASE k = Len(c[p]) + 1
        <5>1. k \in 1..Len(d) /\ d[k] = q
          BY <3>2, <3>3, <4>2
        <5> QED
          BY <3>4, <3>5, <4>2, <5>1
      <4> HIDE DEF d, e, f, q
      <4> QED
        BY <3>2, <3>3, <3>4, <4>1, <4>2, SMTT(30)
    <3>7. e = f
      <4> HIDE DEF d, e, f, q
      <4>1. Len(e) = Len(f)
        BY <3>3, <3>4, <3>5
      <4> QED
        BY <3>4, <3>5, <3>6, <4>1, Same, Zenon
    <3> QED
      BY <2>3, <3>3, <3>7, SMTT(30)
  <2> QED
    BY <2>2, <2>3, Zenon
<1> HIDE DEF E
<1>6. \A p \in 0..Len(body) : IsSequence(Effects(i, p)) /\ p - Len(c[p]) \in Nat
  BY <1>2, <1>3
<1>7. Len(Effects(i, 0)) = 0
  BY <1>2, <1>4
<1>8. \A p \in 0..(Len(body) - 1) :
        IF body[p + 1].op = "onbuild"
        THEN Effects(i, p + 1) = Effects(i, p) /\ Len(c[p + 1]) = Len(c[p])
        ELSE /\ Effects(i, p + 1) = Append(Effects(i, p), Effect(Written, i, p + 1))
             /\ Len(c[p + 1]) = Len(c[p]) + 1
  BY <1>2, <1>5, SMTT(30)
<1> QED
  BY <1>4, <1>6, <1>7, <1>8, Zenon DEF c, body

\* The base of a stage is an image.
LEMMA BaseImageType ==
  ASSUME NEW i \in Nat \ {0}, NEW w, \A j \in 1..(i - 1) : IsImage(w[j])
  PROVE  IsImage(BaseImage(w, i))
<1>1. BaseStage(i) # 0 => IsImage(w[BaseStage(i)])
  BY BaseBefore
<1> QED
  BY <1>1, KnownImages DEF BaseImage

\* What is written for a stage, in one line.
LEMMA WrittenIs ==
  ASSUME df \in Dockerfiles, NEW i \in 1..Last
  PROVE  LET base == BaseImage(Written, i)
             n == Len(df[i].body) IN
         Written[i] = Image(base[1].from, Fired(base) \o Effects(i, n), n - Len(Changes(df[i].body)[n]))
<1>1. Written[i] = Make(Written, i)
  BY WrittenDefined DEF Last
<1> QED
  BY <1>1, Zenon DEF Make, Image, Fired, Effects

\* It is an image.
LEMMA WrittenType ==
  ASSUME df \in Dockerfiles
  PROVE  \A i \in 1..Last : IsImage(Written[i]) /\ IsImage(BaseImage(Written, i))
<1> DEFINE S == {n \in Nat : \A i \in 1..Last : i <= n => IsImage(Written[i])}
<1>0. Last \in Nat
  BY Stages DEF Last
<1>1. 0 \in S
  BY <1>0
<1>2. ASSUME NEW n \in Nat, n \in S
      PROVE  n + 1 \in S
  <2> SUFFICES ASSUME NEW i \in 1..Last, i = n + 1
               PROVE  IsImage(Written[i])
    BY <1>0, <1>2
  <2> DEFINE base == BaseImage(Written, i)
             m == Len(df[i].body)
             t == m - Len(Changes(df[i].body)[m])
  <2>1. IsImage(base)
    <3>1. \A j \in 1..(i - 1) : IsImage(Written[j])
      BY <1>0, <1>2
    <3> QED
      BY <1>0, <3>1, BaseImageType
  <2>2. IsSequence(Fired(base))
    <3> HIDE DEF base
    <3> QED
      BY <2>1, FiredType
  <2>3. m \in Nat
    BY Stages DEF Last
  <2>4. IsSequence(Effects(i, m)) /\ t \in Nat
    <3>1. m \in 0..m
      BY <2>3
    <3> QED
      BY <3>1, EffectsType
  <2>5. Written[i] = Image(base[1].from, Fired(base) \o Effects(i, m), t)
    BY WrittenIs, Zenon
  <2> HIDE DEF base, m, t
  <2>6. IsSequence(Fired(base) \o Effects(i, m))
    BY <2>2, <2>4, Joined
  <2> QED
    BY <2>4, <2>5, <2>6, ImageType
<1>3. Nat \subseteq S
  <2> HIDE DEF S
  <2> QED
    BY <1>1, <1>2, Induction
<1>4. \A i \in 1..Last : IsImage(Written[i])
  BY <1>0, <1>3
<1>5. ASSUME NEW i \in 1..Last
      PROVE  IsImage(BaseImage(Written, i))
  <2>1. \A j \in 1..(i - 1) : IsImage(Written[j])
    BY <1>0, <1>4
  <2> QED
    BY <1>0, <2>1, BaseImageType
<1> QED
  BY <1>4, <1>5

-----------------------------------------------------------------------------
(* A stage while its instructions are executed.                            *)

\* When its triggers have been executed, a stage has what its instructions do.
LEMMA AfterFired ==
  ASSUME df \in Dockerfiles, NEW i \in 1..Last, NEW x, IsImage(x), NEW p \in 0..Len(df[i].body)
  PROVE  /\ After(x, i, p) =
              Image(x[1].from, Fired(x) \o Effects(i, p), p - Len(Changes(df[i].body)[p]))
         /\ IsSequence(Fired(x) \o Effects(i, p)) /\ IsSequence(Effects(i, p))
         /\ p - Len(Changes(df[i].body)[p]) \in Nat
<1> DEFINE n == Len(Changes(df[i].body)[p])
<1>0. Len(df[i].body) \in Nat /\ x[1].triggers \in Nat
  BY Stages DEF Last, IsImage
<1>1. IsSequence(Effects(i, p)) /\ p - n \in Nat
  BY EffectsType, SMTT(30)
<1>2. IsSequence(Fired(x))
  BY FiredType
<1>3. IsSequence(Fired(x) \o Effects(i, p))
  BY <1>1, <1>2, Joined
<1>4. CASE p = 0
  <2>1. Len(Effects(i, p)) = 0 /\ n = 0
    BY <1>4, EffectsType
  <2>2. Fired(x) \o Effects(i, p) = Fired(x)
    BY <1>1, <1>2, <2>1, JoinedEmpty
  <2>3. p <= 0 /\ x[1].triggers + p = x[1].triggers /\ p - n = 0
    BY <1>0, <1>4, <2>1
  <2>4. After(x, i, p) = Image(x[1].from, x[1].log \o Triggers(x[1].triggers + p), 0)
    BY <2>3, Zenon DEF After
  <2>5. After(x, i, p) = Image(x[1].from, Fired(x), 0)
    BY <2>3, <2>4, Zenon DEF Fired
  <2> QED
    BY <1>1, <1>3, <2>2, <2>3, <2>5, Zenon
<1>5. CASE p # 0
  <2>1. ~(p <= 0)
    BY <1>0, <1>5
  <2>2. After(x, i, p) = Image(x[1].from, Fired(x) \o Effects(i, p), p - n)
    BY <2>1, Zenon DEF After
  <2> QED
    BY <1>1, <1>3, <2>2, Zenon
<1> QED
  BY <1>4, <1>5

\* After the last instruction a stage is what is written, if it began with an image that
\* is the same as its base once its triggers have been executed.
LEMMA AfterAll ==
  ASSUME df \in Dockerfiles, NEW i \in 1..Last, NEW x, IsImage(x),
         x[1].from = BaseImage(Written, i)[1].from, Fired(x) = Fired(BaseImage(Written, i))
  PROVE  After(x, i, Len(df[i].body)) = Written[i]
<1> DEFINE n == Len(df[i].body)
<1>1. n \in Nat /\ n \in 0..n
  BY Stages DEF Last
<1>2. After(x, i, n) = Image(x[1].from, Fired(x) \o Effects(i, n), n - Len(Changes(df[i].body)[n]))
  BY <1>1, AfterFired, Zenon
<1> QED
  BY <1>2, WrittenIs, Zenon

\* One more event in the log of an image.
LEMMA DoneImage ==
  ASSUME NEW from, NEW log, NEW n, NEW event
  PROVE  Done(Image(from, log, n), event) = Image(from, Append(log, event), n)
<1> DEFINE r == [from |-> from, log |-> log, triggers |-> n]
           a == Append(log, event)
<1>1. Image(from, log, n)[1] = r /\ r.log = log
  BY DEF Image
<1>2. [r EXCEPT !.log = a] = [from |-> from, log |-> a, triggers |-> n]
  <2> HIDE DEF a
  <2> QED
    OBVIOUS
<1>3. Done(Image(from, log, n), event) = <<[r EXCEPT !.log = a]>>
  <2> HIDE DEF r
  <2> QED
    BY <1>1 DEF Done
<1> QED
  BY <1>2, <1>3, Zenon DEF Image

\* An instruction that changes the stage.
LEMMA AfterChange ==
  ASSUME df \in Dockerfiles, NEW i \in 1..Last, NEW x, IsImage(x),
         NEW p \in 0..(Len(df[i].body) - 1), df[i].body[p + 1].op # "onbuild"
  PROVE  Done(After(x, i, p), Effect(Written, i, p + 1)) = After(x, i, p + 1)
<1> DEFINE c == Changes(df[i].body)
           f == Fired(x)
           e == Effects(i, p)
           v == Effect(Written, i, p + 1)
<1>0. p \in 0..Len(df[i].body) /\ p + 1 \in 0..Len(df[i].body) /\ p \in Int
  BY Stages DEF Last
<1>1. After(x, i, p) = Image(x[1].from, f \o e, p - Len(c[p])) /\ IsSequence(e)
  BY <1>0, AfterFired, Zenon
<1>2. After(x, i, p + 1) = Image(x[1].from, f \o Effects(i, p + 1), (p + 1) - Len(c[p + 1]))
  BY <1>0, AfterFired, Zenon
<1>3. Effects(i, p + 1) = Append(e, v) /\ Len(c[p + 1]) = Len(c[p]) + 1
  BY EffectsType, Zenon
<1>4. Append(f \o e, v) = f \o Append(e, v)
  <2>1. IsSequence(f)
    BY FiredType
  <2> HIDE DEF f, e, v
  <2> QED
    BY <1>1, <2>1, JoinedAppended, SMTT(30)
<1>5. (p + 1) - Len(c[p + 1]) = p - Len(c[p])
  <2>1. p - Len(c[p]) \in Nat /\ c[p] \in Seq(1..p)
    BY <1>0, AfterFired, ChangesType, Stages DEF Last
  <2> HIDE DEF c
  <2>2. Len(c[p]) \in Nat
    BY <2>1
  <2> QED
    BY <1>0, <1>3, <2>2
<1> HIDE DEF c, f, e, v
<1>6. Done(Image(x[1].from, f \o e, p - Len(c[p])), v) = Image(x[1].from, Append(f \o e, v), p - Len(c[p]))
  BY DoneImage
<1> QED
  BY <1>1, <1>2, <1>3, <1>4, <1>5, <1>6, Zenon DEF v

\* An ONBUILD.
LEMMA AfterOnbuild ==
  ASSUME df \in Dockerfiles, NEW i \in 1..Last, NEW x, IsImage(x),
         NEW p \in 0..(Len(df[i].body) - 1), df[i].body[p + 1].op = "onbuild"
  PROVE  <<[After(x, i, p)[1] EXCEPT !.triggers = @ + 1]>> = After(x, i, p + 1)
<1> DEFINE c == Changes(df[i].body)
           g == Fired(x) \o Effects(i, p)
<1>0. p \in 0..Len(df[i].body) /\ p + 1 \in 0..Len(df[i].body) /\ p \in Int
  BY Stages DEF Last
<1>1. After(x, i, p) = Image(x[1].from, g, p - Len(c[p]))
  BY <1>0, AfterFired
<1>2. After(x, i, p + 1) = Image(x[1].from, Fired(x) \o Effects(i, p + 1), (p + 1) - Len(c[p + 1]))
  BY <1>0, AfterFired, Zenon
<1>3. Effects(i, p + 1) = Effects(i, p) /\ Len(c[p + 1]) = Len(c[p])
  BY EffectsType, Zenon
<1>4. After(x, i, p + 1) = Image(x[1].from, g, (p - Len(c[p])) + 1)
  <2>1. p - Len(c[p]) \in Nat /\ c[p] \in Seq(1..p)
    BY <1>0, AfterFired, ChangesType, Stages DEF Last
  <2> HIDE DEF c
  <2>2. (p + 1) - Len(c[p]) = (p - Len(c[p])) + 1
    <3>1. Len(c[p]) \in Nat
      BY <2>1
    <3> QED
      BY <1>0, <3>1
  <2>3. (p + 1) - Len(c[p + 1]) = (p - Len(c[p])) + 1
    BY <1>3, <2>2, Zenon
  <2> QED
    BY <1>2, <1>3, <2>3, Zenon
<1> HIDE DEF c, g
<1>5. <<[Image(x[1].from, g, p - Len(c[p]))[1] EXCEPT !.triggers = @ + 1]>>
        = Image(x[1].from, g, (p - Len(c[p])) + 1)
  BY DEF Image
<1> QED
  BY <1>1, <1>4, <1>5, Zenon

\* A trigger.
LEMMA AfterTrigger ==
  ASSUME NEW i, NEW x, IsImage(x), NEW p \in Int, p < 0, x[1].triggers + p >= 0
  PROVE  Done(After(x, i, p), Event(0, 0, None)) = After(x, i, p + 1)
<1> DEFINE n == x[1].triggers + p
           l == x[1].log
           v == Event(0, 0, None)
<1>0. n \in Nat /\ n + 1 \in Nat /\ x[1].triggers + (p + 1) = n + 1 /\ p <= 0 /\ p + 1 <= 0
  BY DEF IsImage
<1>1. After(x, i, p) = Image(x[1].from, l \o Triggers(n), 0)
  BY <1>0, Zenon DEF After
<1>2. After(x, i, p + 1) = Image(x[1].from, l \o Triggers(n + 1), 0)
  BY <1>0, Zenon DEF After
<1> HIDE DEF n, v
<1>3. Triggers(n + 1) = Append(Triggers(n), v)
  <2>1. /\ IsSequence(Triggers(n)) /\ Len(Triggers(n)) = n /\ \A k \in 1..n : Triggers(n)[k] = v
        /\ IsSequence(Triggers(n + 1)) /\ Len(Triggers(n + 1)) = n + 1
        /\ \A k \in 1..(n + 1) : Triggers(n + 1)[k] = v
    BY <1>0, TriggersType DEF v
  <2> DEFINE t == Append(Triggers(n), v)
  <2>2. IsSequence(t) /\ Len(t) = n + 1 /\ (\A k \in 1..n : t[k] = Triggers(n)[k]) /\ t[n + 1] = v
    BY <2>1, Appended
  <2> HIDE DEF t
  <2>3. Len(Triggers(n + 1)) = Len(t) /\ \A k \in 1..Len(Triggers(n + 1)) : Triggers(n + 1)[k] = t[k]
    BY <1>0, <2>1, <2>2
  <2>4. Triggers(n + 1) = t
    BY <2>1, <2>2, <2>3, Same, Zenon
  <2> QED
    BY <2>4 DEF t
<1>4. Append(l \o Triggers(n), v) = l \o Append(Triggers(n), v)
  <2>1. IsSequence(l) /\ IsSequence(Triggers(n))
    BY <1>0, TriggersType DEF IsImage
  <2> HIDE DEF l
  <2> QED
    BY <2>1, JoinedAppended, SMTT(30)
<1> HIDE DEF l
<1>5. Done(Image(x[1].from, l \o Triggers(n), 0), v) = Image(x[1].from, Append(l \o Triggers(n), v), 0)
  BY DoneImage
<1> QED
  BY <1>1, <1>2, <1>3, <1>4, <1>5, Zenon DEF v

-----------------------------------------------------------------------------
(* What the builder finds: the image a stage begins with, and the stage a   *)
(* COPY takes files from.                                                  *)

\* A stage begins with an image that is the same as its base once its triggers have been
\* executed; has triggers if a stage that has only FROM leaves them.
LEMMA Begins ==
  ASSUME IInv, Good, NEW i \in 1..Last, Len(pages) = Last, Len(stages) = Last,
         \A j \in 1..(i - 1) : BuiltAs(j), Start(i) # None
  PROVE  LET x == Start(i)
             base == BaseImage(Written, i) IN
         /\ IsImage(x) /\ x[1].from = base[1].from /\ Fired(x) = Fired(base)
         /\ df[i].body = <<>> => (OnlyTriggers[i] <=> x[1].triggers > 0)
<1> DEFINE x == Start(i)
           base == BaseImage(Written, i)
           j == BaseStage(i)
           name == Expand(df[i].from)
<1>0. df \in Dockerfiles /\ Last \in Nat
  BY Stages DEF IInv, Last
<1>1. stages[i].fromStage = j /\ stages[i].fromImage = name
  BY DEF IInv, StagesInv
<1>2. j \in 0..(i - 1)
  BY <1>0, BaseBefore
<1>3. df[i].body = <<>> =>
        (OnlyTriggers[i] <=> IF j = 0 THEN name \in Triggered ELSE OnlyTriggers[j] \/ Written[j][1].triggers > 0)
  <2>1. OnlyTriggers[i] = LeavesTriggers(OnlyTriggers, i)
    BY <1>0, OnlyTriggersDefined DEF Last
  <2> QED
    BY <2>1, Zenon DEF LeavesTriggers
<1>4. CASE j = 0
  <2>1. x = IF name = "scratch" THEN Scratch ELSE Registry(name)
    BY <1>1, <1>4 DEF Start, IsScratch, FromImage
  <2>2. base = x
    BY <1>4, <2>1 DEF BaseImage
  <2>3. IsImage(x) /\ (x[1].triggers > 0 <=> name \in Triggered)
    <3>1. CASE name = "scratch"
      BY <2>1, <3>1, KnownImages, ScratchAssumption
    <3>2. CASE name # "scratch"
      BY <2>1, <3>2, KnownImages
    <3> QED
      BY <3>1, <3>2
  <2> HIDE DEF x, base, name
  <2>4. df[i].body = <<>> => (OnlyTriggers[i] <=> x[1].triggers > 0)
    BY <1>3, <1>4, <2>3
  <2> QED
    BY <2>2, <2>3, <2>4 DEF x, base
<1>5. CASE j # 0
  <2>0. j \in 1..Last /\ j \in 1..(i - 1)
    BY <1>0, <1>2, <1>5
  <2>1. x = stages[j].imageID /\ x # None
    BY <1>1, <1>5 DEF Start, IsScratch, FromImage
  <2>2. base = Written[j]
    BY <1>5 DEF BaseImage
  <2>3. Carried(x, j)
    <3>1. ~Unmarked(i) /\ Marked(i)
      BY DEF Good, IInv, PagesInv
    <3>2. pages[j].needCommit \/ df[j].body = <<>>
      BY <1>5, <3>1 DEF Marked
    <3> QED
      BY <2>0, <2>1, <3>2 DEF BuiltAs
  <2>4. IsImage(Written[j])
    BY <1>0, <2>0, WrittenType, SMTT(30)
  <2> HIDE DEF x, base, name
  <2>5. CASE OnlyTriggers[j]
    <3>1. IsImage(x) /\ x[1].triggers > 0 /\ Written[j] = Image(x[1].from, Fired(x), 0)
      BY <2>3, <2>5 DEF Carried
    <3>2. IsSequence(Fired(x))
      BY <3>1, FiredType
    <3>3. Written[j][1].from = x[1].from /\ Written[j][1].log = Fired(x) /\ Written[j][1].triggers = 0
      BY <3>1, <3>2, ImageType
    <3>4. Fired(base) = Fired(x)
      BY <2>2, <2>4, <3>3, FiredType
    <3>5. df[i].body = <<>> => (OnlyTriggers[i] <=> x[1].triggers > 0)
      BY <1>3, <1>5, <2>5, <3>1
    <3> QED
      BY <2>2, <3>1, <3>3, <3>4, <3>5 DEF x, base
  <2>6. CASE ~OnlyTriggers[j]
    <3>1. x = Written[j]
      BY <2>1, <2>3, <2>6 DEF Carried
    <3>2. df[i].body = <<>> => (OnlyTriggers[i] <=> x[1].triggers > 0)
      BY <1>3, <1>5, <2>6, <3>1
    <3> QED
      BY <2>2, <2>4, <3>1, <3>2 DEF x, base
  <2> QED
    BY <2>5, <2>6
<1> QED
  BY <1>4, <1>5

\* COPY --from takes what is written for the stage it names.
LEMMA Copies ==
  ASSUME IInv, Good, NEW k \in 1..Len(df[pos].body), df[pos].body[k].op = "copy",
         Len(stages) = Last, \A j \in 1..(pos - 1) : BuiltAs(j)
  PROVE  CopyContext(df[pos].body[k].src) = Source(Written, pos, df[pos].body[k].src)
<1> DEFINE src == df[pos].body[k].src
           j == StageNamed(pos, src)
           l == StageNamed(Last + 1, src)
<1>0. df \in Dockerfiles /\ Last \in Nat /\ pos \in 1..Last
  BY Stages DEF IInv, Last
<1>1. DOMAIN df[pos].body = 1..Len(df[pos].body)
  BY <1>0, Stages DEF Last
<1>2. src # NoName
  <2>1. pos \in DOMAIN df
    BY <1>0, Stages DEF Last
  <2> QED
    BY <1>0, <1>1, <2>1, DockerfilesAssumption, SMTT(30)
<1>3. \A n \in 1..(pos - 1) : stages[n].fs = Written[n]
  BY DEF BuiltAs
<1>4. /\ DOMAIN aliases = {df[n].as : n \in 1..Last} \ {NoName}
      /\ \A name \in DOMAIN aliases : aliases[name] = StageNamed(Last + 1, name)
  BY DEF IInv, StagesInv
<1>5. j # 0 => \A n \in pos..Last : df[n].as # src
  <2>1. ~Renamed(pos)
    BY <1>0, SMTT(30) DEF Good
  <2> QED
    BY <1>1, <2>1 DEF Renamed
<1>6. /\ j = 0 => \A n \in 1..(pos - 1) : df[n].as # src
      /\ j # 0 => /\ j \in 1..(pos - 1) /\ df[j].as = src
                  /\ \A n \in (j + 1)..(pos - 1) : df[n].as # src
  BY <1>0, NamedStage, SMTT(30)
<1>7. /\ l = 0 => \A n \in 1..Last : df[n].as # src
      /\ l # 0 => /\ l \in 1..Last /\ df[l].as = src
                  /\ \A n \in (l + 1)..Last : df[n].as # src
  <2>1. Last + 1 \in Nat /\ (Last + 1) - 1 = Last
    BY <1>0
  <2> QED
    BY <2>1, NamedStage
<1> HIDE DEF src, j, l
<1>8. CASE j # 0
  <2>1. j \in 1..Last
    BY <1>0, <1>6, <1>8
  <2>2. l = j
    BY <1>0, <1>5, <1>6, <1>7, <1>8, <2>1
  <2>3. src \in DOMAIN aliases /\ aliases[src] = j /\ j < pos
    BY <1>0, <1>2, <1>4, <1>6, <1>8, <2>1, <2>2 DEF l
  <2>4. CopyContext(src) = Written[j]
    BY <1>3, <1>6, <1>8, <2>3, SMTT(30) DEF CopyContext
  <2> QED
    BY <1>8, <2>4 DEF Source, src, j
<1>9. CASE j = 0
  <2>1. ~(src \in DOMAIN aliases /\ aliases[src] < pos)
    <3> SUFFICES ASSUME src \in DOMAIN aliases
                 PROVE  ~(l < pos)
      BY <1>4 DEF l
    <3>1. \E n \in 1..Last : df[n].as = src
      BY <1>4
    <3> QED
      BY <1>0, <1>6, <1>7, <1>9, <3>1
  <2>2. src \in DOMAIN Indexes /\ Indexes[src] < pos => Indexes[src] \in 1..(pos - 1)
    BY <1>0, IndexesAssumption
  <2>3. CopyContext(src) = IF src \in DOMAIN Indexes /\ Indexes[src] < pos THEN Written[Indexes[src]]
                           ELSE Registry(src)
    BY <1>3, <2>1, <2>2 DEF CopyContext
  <2> QED
    BY <1>9, <2>3 DEF Source, src, j
<1> QED
  BY <1>8, <1>9

-----------------------------------------------------------------------------
(* The parser and the analysis of FROM.                                    *)

\* The initial states.
LEMMA InitIInv == Init => IInv
<1> SUFFICES ASSUME Init
             PROVE  IInv
  OBVIOUS
<1>1. df \in Dockerfiles /\ Last \in Nat \ {0}
  BY Stages DEF Init, Last
<1>2. IsSequence(<<>>) /\ Len(<<>>) = 0 /\ DOMAIN <<>> = {}
  BY DEF IsSequence
<1>3. PagesInv
  BY <1>1, <1>2 DEF Init, PagesInv
<1>4. StagesInv
  BY <1>1, <1>2, SMTT(30) DEF Init, StagesInv
<1> QED
  BY <1>1, <1>3, <1>4 DEF Init, IInv, Finished

\* The pages after those that FROM names have been marked.
LEMMA MarkFromType ==
  ASSUME IsSequence(pages), NEW name, NEW page,
         \A j \in 1..Len(pages) : pages[j] = [name |-> PageName(j), lines |-> Lines(df[j]), needCommit |-> pages[j].needCommit]
  PROVE  LET ps == MarkFrom(pages, name, page)
             named == {j \in DOMAIN pages : pages[j].name = name}
             from == IF page.name = name THEN {} ELSE {j \in named : \A k \in named : k <= j} IN
         /\ IsSequence(ps) /\ Len(ps) = Len(pages)
         /\ \A j \in 1..Len(pages) :
              ps[j] = [name |-> PageName(j), lines |-> Lines(df[j]),
                       needCommit |-> pages[j].needCommit \/ (j \in from /\ Lines(df[j]) > 1)]
<1> DEFINE ps == MarkFrom(pages, name, page)
           named == {j \in DOMAIN pages : pages[j].name = name}
           from == IF page.name = name THEN {} ELSE {j \in named : \A k \in named : k <= j}
<1>1. Len(pages) \in Nat /\ DOMAIN pages = 1..Len(pages)
  BY Values
<1>2. ps = [j \in DOMAIN pages |-> [pages[j] EXCEPT !.needCommit = pages[j].needCommit \/ (j \in from /\ pages[j].lines > 1)]]
  BY DEF MarkFrom
<1> HIDE DEF ps, from
<1>3. ps = [j \in 1..Len(pages) |-> ps[j]]
  BY <1>1, <1>2
<1>4. IsSequence(ps) /\ Len(ps) = Len(pages)
  BY <1>1, <1>3, FromFunction
<1>5. ASSUME NEW j \in 1..Len(pages)
      PROVE  ps[j] = [name |-> PageName(j), lines |-> Lines(df[j]),
                      needCommit |-> pages[j].needCommit \/ (j \in from /\ Lines(df[j]) > 1)]
  <2> DEFINE b == pages[j].needCommit \/ (j \in from /\ pages[j].lines > 1)
             n == PageName(j)
             l == Lines(df[j])
             c == pages[j].needCommit
  <2>1. ps[j] = [pages[j] EXCEPT !.needCommit = b]
    BY <1>1, <1>2
  <2>2. pages[j] = [name |-> n, lines |-> l, needCommit |-> c]
    OBVIOUS
  <2>3. b = (c \/ (j \in from /\ l > 1))
    BY <2>2
  <2> HIDE DEF b, n, l, c
  <2>4. ps[j] = [name |-> n, lines |-> l, needCommit |-> b]
    BY <2>1, <2>2
  <2> QED
    BY <2>3, <2>4 DEF n, l, c
<1> QED
  BY <1>4, <1>5, SMTT(30) DEF ps, from

\* constructPages, for one FROM and its lines.
LEMMA ConstructPageIInv == IInv /\ ConstructPage => IInv'
<1> SUFFICES ASSUME IInv, ConstructPage
             PROVE  IInv'
  BY SMTT(30)
<1> DEFINE i == Len(pages) + 1
           page == [name |-> PageName(i), lines |-> Lines(df[i]), needCommit |-> FALSE]
           name == df[i].from
           ps == MarkFrom(pages, name, page)
           named == {j \in DOMAIN pages : pages[j].name = name}
           from == IF page.name = name THEN {} ELSE {j \in named : \A k \in named : k <= j}
<1>0. /\ df \in Dockerfiles /\ Last \in Nat /\ pos = 1 /\ phase = "parse" /\ phase' = phase
      /\ df' = df /\ UNCHANGED <<aliases, stages, pos, result>>
      /\ IsSequence(pages) /\ Len(pages) \in Nat /\ DOMAIN pages = 1..Len(pages)
      /\ Len(pages) <= Last /\ i \in 1..Last
      /\ pages' = Append(ps, page)
  BY Stages, Values, SMTT(30) DEF IInv, PagesInv, ConstructPage, Last
<1>1. \A j \in 1..Len(pages) :
        /\ pages[j] = [name |-> PageName(j), lines |-> Lines(df[j]), needCommit |-> pages[j].needCommit]
        /\ pages[j].needCommit \in BOOLEAN /\ (pages[j].needCommit => df[j].body # <<>>) /\ Marked(j)
  BY SMTT(30) DEF IInv, PagesInv
<1>2. /\ IsSequence(ps) /\ Len(ps) = Len(pages)
      /\ \A j \in 1..Len(pages) :
           ps[j] = [name |-> PageName(j), lines |-> Lines(df[j]),
                    needCommit |-> pages[j].needCommit \/ (j \in from /\ Lines(df[j]) > 1)]
  BY <1>0, <1>1, MarkFromType, SMTT(30)
<1>3. /\ IsSequence(pages') /\ Len(pages') = i
      /\ \A j \in 1..Len(pages) : pages'[j] = ps[j]
      /\ pages'[i] = page
  <2> HIDE DEF ps, page
  <2> QED
    BY <1>0, <1>2, Appended
<1>4. ASSUME NEW j \in 1..Last
      PROVE  Lines(df[j]) > 1 <=> df[j].body # <<>>
  <2>1. IsSequence(df[j].body) /\ Len(df[j].body) \in Nat
    BY <1>0, Stages DEF Last
  <2>2. Len(df[j].body) = 0 <=> df[j].body = <<>>
    BY <2>1 DEF IsSequence
  <2> QED
    BY <2>1, <2>2 DEF Lines
<1>5. \A j \in 1..Len(pages) : named = {k \in 1..Len(pages) : PageName(k) = name}
  BY <1>0, <1>1
<1> HIDE DEF ps
<1>6. ASSUME NEW j \in 1..Len(pages')
      PROVE  /\ pages'[j] = [name |-> PageName(j), lines |-> Lines(df[j]), needCommit |-> pages'[j].needCommit]
             /\ pages'[j].needCommit \in BOOLEAN
             /\ pages'[j].needCommit => df[j].body # <<>>
             /\ j # i => j \in 1..Len(pages) /\ (pages[j].needCommit => pages'[j].needCommit)
  <2>1. CASE j = i
    <3>1. pages'[j] = [name |-> PageName(j), lines |-> Lines(df[j]), needCommit |-> FALSE]
      BY <1>3, <2>1, Zenon
    <3>2. pages'[j].needCommit = FALSE
      BY <3>1
    <3> QED
      BY <2>1, <3>1, <3>2, Zenon
  <2>2. CASE j # i
    <3>1. j \in 1..Len(pages) /\ j \in 1..Last
      BY <1>0, <1>3, <2>2
    <3> HIDE DEF from
    <3>2. pages'[j] = [name |-> PageName(j), lines |-> Lines(df[j]),
                       needCommit |-> pages[j].needCommit \/ (j \in from /\ Lines(df[j]) > 1)]
      BY <1>2, <1>3, <3>1, Zenon
    <3>3. pages'[j].needCommit = (pages[j].needCommit \/ (j \in from /\ Lines(df[j]) > 1))
      BY <3>2
    <3> QED
      BY <1>1, <1>4, <3>1, <3>2, <3>3, Zenon
  <2> QED
    BY <2>1, <2>2
<1>7. ASSUME NEW j \in 1..Len(pages'), BaseStage(j) # 0, df[BaseStage(j)].body # <<>>, ~Unmarked(j)
      PROVE  pages'[BaseStage(j)].needCommit
  <2> DEFINE b == BaseStage(j)
  <2>0. b \in 1..(j - 1) /\ b \in 1..Len(pages) /\ j \in 1..i /\ b # i /\ b \in 1..Len(pages') /\ b \in 1..Last
    BY <1>0, <1>3, <1>7, BaseBefore, SMTT(30)
  <2>1. CASE j # i
    <3>1. j \in 1..Len(pages)
      BY <1>0, <2>0, <2>1
    <3>2. pages[b].needCommit
      BY <1>1, <1>7, <3>1, Zenon DEF Marked
    <3> QED
      BY <1>6, <2>0, <3>2, Zenon
  <2>2. CASE j = i
    <3>1. name = Expand(name) /\ \A k \in (b + 1)..i : PageName(k) # name
      BY <1>7, <2>2, SMTT(30) DEF Unmarked
    <3>2. df[b].as = name
      BY <1>0, <1>7, <2>2, <3>1, NamedStage, SMTT(30) DEF BaseStage
    <3>3. name # NoName
      BY <1>0, <3>1, Stages DEF Last
    <3>4. PageName(b) = name
      BY <3>2, <3>3 DEF PageName
    <3>5. b \in named /\ \A k \in named : k <= b
      <4>1. ASSUME NEW k \in 1..Len(pages), PageName(k) = name
            PROVE  k <= b
        <5>1. k \notin (b + 1)..i
          BY <3>1, <4>1
        <5> QED
          BY <1>0, <2>0, <5>1
      <4> QED
        BY <1>5, <2>0, <3>4, <4>1, SMTT(30)
    <3>6. page.name # name
      BY <1>0, <2>0, <2>2, <3>1, SMTT(30)
    <3>7. b \in from
      BY <3>5, <3>6
    <3>8. pages'[b].needCommit
      <4> HIDE DEF from
      <4>1. pages'[b] = [name |-> PageName(b), lines |-> Lines(df[b]),
                         needCommit |-> pages[b].needCommit \/ (b \in from /\ Lines(df[b]) > 1)]
        BY <1>2, <1>3, <2>0, ZenonT(30)
      <4>2. pages'[b].needCommit = (pages[b].needCommit \/ (b \in from /\ Lines(df[b]) > 1))
        BY <4>1, SMTT(30)
      <4> QED
        BY <1>4, <1>7, <2>0, <3>7, <4>2, Zenon
    <3> QED
      BY <3>8
  <2> QED
    BY <2>1, <2>2
<1>8. PagesInv'
  <2>1. Last' = Last /\ Len(pages') <= Last /\ phase' = "parse"
    BY <1>0, <1>3 DEF Last
  <2>2. \A j : PageName(j)' = PageName(j) /\ BaseStage(j)' = BaseStage(j) /\ Unmarked(j)' = Unmarked(j)
    BY <1>0, SameDockerfile
  <2>3. \A j \in 1..Len(pages') : Marked(j)'
    BY <1>0, <1>7, <2>2, Zenon DEF Marked
  <2>4. \A j : Lines(df[j])' = Lines(df[j])
    BY <1>0, SMTT(30) DEF Lines
  <2> HIDE DEF page, from, name, i
  <2> QED
    BY <1>0, <1>3, <1>6, <2>1, <2>2, <2>3, <2>4, SMTT(30) DEF PagesInv
<1>9. StagesInv'
  BY <1>0, SameDockerfile, SMTT(30) DEF IInv, StagesInv, Last
<1> QED
  BY <1>0, <1>8, <1>9 DEF IInv, Finished, Last

\* constructPages marks the last page.
LEMMA ConstructLastIInv == IInv /\ ConstructLast => IInv'
<1> SUFFICES ASSUME IInv, ConstructLast
             PROVE  IInv'
  OBVIOUS
<1> DEFINE b == pages[Last].needCommit \/ pages[Last].lines > 1
<1>0. /\ df \in Dockerfiles /\ Last \in Nat \ {0} /\ pos = 1 /\ phase' = "analyze"
      /\ df' = df /\ UNCHANGED <<aliases, stages, pos, result>>
      /\ IsSequence(pages) /\ Len(pages) = Last /\ Last \in 1..Len(pages)
      /\ pages' = [pages EXCEPT ![Last] = [pages[Last] EXCEPT !.needCommit = b]]
  BY Stages DEF IInv, PagesInv, ConstructLast, Last
<1>1. \A j \in 1..Last :
        /\ pages[j] = [name |-> PageName(j), lines |-> Lines(df[j]), needCommit |-> pages[j].needCommit]
        /\ pages[j].needCommit \in BOOLEAN /\ (pages[j].needCommit => df[j].body # <<>>) /\ Marked(j)
  BY <1>0 DEF IInv, PagesInv
<1>2. /\ IsSequence(pages') /\ Len(pages') = Last
      /\ pages'[Last] = [pages[Last] EXCEPT !.needCommit = b]
      /\ \A j \in 1..Last : j # Last => pages'[j] = pages[j]
  <2> DEFINE r == [pages[Last] EXCEPT !.needCommit = b]
  <2>1. IsSequence(pages) /\ Last \in 1..Len(pages) /\ Len(pages) = Last /\ pages' = [pages EXCEPT ![Last] = r]
    BY <1>0, Zenon
  <2> HIDE DEF r
  <2>2. Len(pages) \in Nat /\ DOMAIN pages = 1..Len(pages)
    BY <2>1, Values
  <2>3. pages'[Last] = r /\ \A j \in 1..Len(pages) : j # Last => pages'[j] = pages[j]
    BY <2>1, <2>2
  <2>4. pages' = [j \in 1..Len(pages) |-> pages'[j]]
    BY <2>1, <2>2, Zenon
  <2>5. IsSequence(pages') /\ Len(pages') = Len(pages)
    BY <2>2, <2>4, FromFunction
  <2> QED
    BY <2>1, <2>3, <2>5, Zenon DEF r
<1>3. b <=> df[Last].body # <<>>
  <2>1. IsSequence(df[Last].body) /\ Len(df[Last].body) \in Nat
    BY <1>0, Stages DEF Last
  <2>2. Len(df[Last].body) = 0 <=> df[Last].body = <<>>
    BY <2>1 DEF IsSequence
  <2>3. pages[Last].lines > 1 <=> df[Last].body # <<>>
    <3>1. pages[Last].lines = Lines(df[Last])
      BY <1>0, <1>1
    <3> QED
      BY <2>1, <2>2, <3>1 DEF Lines
  <2> QED
    BY <1>0, <1>1, <2>3
<1>4. pages'[Last] = [name |-> PageName(Last), lines |-> Lines(df[Last]), needCommit |-> b]
  <2> DEFINE n == PageName(Last)
             l == Lines(df[Last])
  <2>1. pages[Last] = [name |-> n, lines |-> l, needCommit |-> pages[Last].needCommit]
    BY <1>0, <1>1
  <2> HIDE DEF b, n, l
  <2>2. pages'[Last] = [name |-> n, lines |-> l, needCommit |-> b]
    BY <1>2, <2>1
  <2> QED
    BY <2>2 DEF n, l
<1>5. pages'[Last].needCommit = b /\ b \in BOOLEAN
  <2>1. b \in BOOLEAN
    BY <1>0, <1>1, SMTT(30)
  <2> HIDE DEF b
  <2> QED
    BY <1>4, <2>1
<1> HIDE DEF b
<1>6. ASSUME NEW j \in 1..Last
      PROVE  /\ pages'[j] = [name |-> PageName(j), lines |-> Lines(df[j]), needCommit |-> pages'[j].needCommit]
             /\ pages'[j].needCommit \in BOOLEAN
             /\ pages'[j].needCommit => df[j].body # <<>>
             /\ pages[j].needCommit => pages'[j].needCommit
  <2>1. CASE j = Last
    <3>1. pages[j].needCommit => b
      BY <2>1 DEF b
    <3> QED
      BY <1>3, <1>4, <1>5, <2>1, <3>1, Zenon
  <2>2. CASE j # Last
    <3>1. pages'[j] = pages[j]
      BY <1>2, <2>2
    <3> QED
      BY <1>1, <3>1, Zenon
  <2> QED
    BY <2>1, <2>2
<1>7. PagesInv'
  <2>1. Last' = Last /\ phase' = "analyze"
    BY <1>0 DEF Last
  <2>2. \A j : PageName(j)' = PageName(j) /\ BaseStage(j)' = BaseStage(j) /\ Unmarked(j)' = Unmarked(j)
    BY <1>0, SameDockerfile
  <2>3. ASSUME NEW j \in 1..Last, BaseStage(j) # 0, df[BaseStage(j)].body # <<>>, ~Unmarked(j)
        PROVE  pages'[BaseStage(j)].needCommit
    <3>1. BaseStage(j) \in 1..Last
      BY <1>0, <2>3, BaseBefore
    <3>2. pages[BaseStage(j)].needCommit
      BY <1>1, <2>3, Zenon DEF Marked
    <3> QED
      BY <1>6, <3>1, <3>2, Zenon
  <2>4. \A j \in 1..Last : Marked(j)'
    BY <1>0, <2>2, <2>3 DEF Marked
  <2>5. \A j : Lines(df[j])' = Lines(df[j])
    BY <1>0 DEF Lines
  <2>6. df[Last].body # <<>> => pages'[Last].needCommit
    BY <1>3, <1>5
  <2> QED
    BY <1>0, <1>2, <1>6, <2>1, <2>2, <2>4, <2>5, <2>6 DEF PagesInv
<1>8. StagesInv'
  BY <1>0, SameDockerfile, SMTT(30) DEF IInv, StagesInv, Last
<1> QED
  BY <1>0, <1>7, <1>8 DEF IInv, Finished, Last

\* From the analysis on, the pages stay as they are.
LEMMA PagesSame ==
  ASSUME IInv, UNCHANGED <<df, pages>>, phase # "parse", phase' # "parse"
  PROVE  PagesInv' /\ Len(pages) = Last /\ Last' = Last
<1>1. Last' = Last /\ Len(pages) = Last
  BY DEF Last, IInv, PagesInv
<1>2. \A j : PageName(j)' = PageName(j) /\ BaseStage(j)' = BaseStage(j) /\ Unmarked(j)' = Unmarked(j)
  BY SameDockerfile
<1>3. \A j : Marked(j)' <=> Marked(j)
  BY <1>2 DEF Marked
<1>4. \A j : Lines(df[j])' = Lines(df[j])
  BY SMTT(30) DEF Lines
<1> QED
  BY <1>1, <1>2, <1>3, <1>4, Zenon DEF IInv, PagesInv

\* analyzeFrom, for one stage.
LEMMA AnalyzeFromIInv == IInv /\ AnalyzeFrom => IInv'
<1> SUFFICES ASSUME IInv, AnalyzeFrom
             PROVE  IInv'
  OBVIOUS
<1> DEFINE n == Len(stages)
           i == n + 1
           name == Expand(df[i].from)
           s == [fromImage |-> name, fromStage |-> IF name \in DOMAIN aliases THEN aliases[name] ELSE 0,
                 fs |-> None, imageID |-> None]
<1>0. /\ df \in Dockerfiles /\ Last \in Nat /\ pos = 1 /\ phase = "analyze" /\ phase' = phase
      /\ UNCHANGED <<df, pages, pos, result>>
      /\ IsSequence(stages) /\ n \in Nat /\ i \in 1..Last
      /\ stages' = Append(stages, s)
      /\ aliases' = IF df[i].as = NoName THEN aliases ELSE Put(aliases, df[i].as, i)
  BY Stages, Values, SMTT(30) DEF IInv, StagesInv, AnalyzeFrom, Last
<1>1. /\ \A j \in 1..n : stages[j] = [fromImage |-> Expand(df[j].from), fromStage |-> BaseStage(j),
                                      fs |-> stages[j].fs, imageID |-> stages[j].imageID]
      /\ DOMAIN aliases = {df[k].as : k \in 1..n} \ {NoName}
      /\ \A x \in DOMAIN aliases : aliases[x] = StageNamed(i, x)
  BY SMTT(30) DEF IInv, StagesInv
<1>2. /\ IsSequence(stages') /\ Len(stages') = i
      /\ \A j \in 1..n : stages'[j] = stages[j]
      /\ stages'[i] = s
  <2> HIDE DEF s
  <2> QED
    BY <1>0, Appended, SMTT(30)
<1>3. s.fromStage = BaseStage(i)
  <2>1. name # NoName
    BY <1>0, Stages DEF Last
  <2>2. i \in Nat /\ i - 1 = n
    BY <1>0, SMTT(30)
  <2>3. name \notin DOMAIN aliases => StageNamed(i, name) = 0
    <3>1. StageNamed(i, name) # 0 => StageNamed(i, name) \in 1..n /\ df[StageNamed(i, name)].as = name
      BY <2>2, NamedStage, SMTT(30)
    <3> QED
      BY <1>1, <2>1, <3>1
  <2> HIDE DEF name, i
  <2> QED
    BY <1>1, <2>3, SMTT(30) DEF BaseStage, name
<1>4. ASSUME NEW j \in 1..Len(stages')
      PROVE  stages'[j] = [fromImage |-> Expand(df[j].from), fromStage |-> BaseStage(j),
                           fs |-> stages'[j].fs, imageID |-> stages'[j].imageID]
  <2>1. CASE j = i
    <3> DEFINE f == IF name \in DOMAIN aliases THEN aliases[name] ELSE 0
    <3>1. stages'[j] = [fromImage |-> name, fromStage |-> f, fs |-> None, imageID |-> None]
      BY <1>2, <2>1, Zenon
    <3>2. f = BaseStage(j)
      BY <1>3, <2>1
    <3>3. stages'[j].fs = None /\ stages'[j].imageID = None
      <4> HIDE DEF f, name
      <4> QED
        BY <3>1
    <3> HIDE DEF f
    <3> QED
      BY <2>1, <3>1, <3>2, <3>3, Zenon
  <2>2. CASE j # i
    <3>1. j \in 1..n
      BY <1>0, <1>2, <2>2, SMTT(30)
    <3> QED
      BY <1>1, <1>2, <3>1, ZenonT(30)
  <2> QED
    BY <2>1, <2>2
<1>5. DOMAIN aliases' = {df[k].as : k \in 1..i} \ {NoName}
  <2>1. 1..i = 1..n \cup {i}
    BY <1>0
  <2>2. DOMAIN aliases' = IF df[i].as = NoName THEN DOMAIN aliases ELSE DOMAIN aliases \cup {df[i].as}
    BY <1>0 DEF Put
  <2> HIDE DEF i, n
  <2> QED
    BY <1>1, <2>1, <2>2
<1>6. ASSUME NEW x \in DOMAIN aliases'
      PROVE  aliases'[x] = StageNamed(i + 1, x)
  <2>0. x # NoName /\ i \in Nat /\ i + 1 \in Nat /\ (i + 1) - 1 = i /\ i - 1 = n
    BY <1>0, <1>5, SMTT(30)
  <2> DEFINE l == StageNamed(i + 1, x)
             m == StageNamed(i, x)
  <2>1. /\ l = 0 => \A k \in 1..i : df[k].as # x
        /\ l # 0 => l \in 1..i /\ df[l].as = x /\ \A k \in (l + 1)..i : df[k].as # x
    BY <2>0, NamedStage
  <2>2. /\ m = 0 => \A k \in 1..n : df[k].as # x
        /\ m # 0 => m \in 1..n /\ df[m].as = x /\ \A k \in (m + 1)..n : df[k].as # x
    BY <2>0, NamedStage
  <2> HIDE DEF l, m
  <2>3. CASE df[i].as = x
    <3>1. l = i
      BY <1>0, <2>1, <2>3
    <3>2. aliases'[x] = i
      BY <1>0, <1>5, <2>0, <2>3 DEF Put
    <3> QED
      BY <3>1, <3>2, SMTT(30) DEF l
  <2>4. CASE df[i].as # x
    <3>1. x \in DOMAIN aliases
      BY <1>0, <2>4 DEF Put
    <3>2. aliases'[x] = aliases[x]
      BY <1>0, <2>4, <3>1, SMTT(30) DEF Put
    <3>3. aliases[x] = m
      BY <1>1, <3>1, SMTT(30) DEF m
    <3>4. l = m
      BY <1>0, <2>1, <2>2, <2>4, SMTT(30)
    <3> QED
      BY <3>2, <3>3, <3>4 DEF l
  <2> QED
    BY <2>3, <2>4, SMTT(30)
<1>7. StagesInv'
  <2>1. /\ \A j : BaseStage(j)' = BaseStage(j)
        /\ \A j, x : StageNamed(j, x)' = StageNamed(j, x)
    BY <1>0, SameDockerfile, SMTT(30)
  <2>2. Last' = Last /\ Len(stages') <= Last
    BY <1>0, <1>2, SMTT(30) DEF Last
  <2> HIDE DEF i, n, s, name
  <2>3. \A j \in 1..Len(stages') :
          stages'[j] = [fromImage |-> Expand(df[j].from), fromStage |-> BaseStage(j),
                        fs |-> stages[j].fs, imageID |-> stages[j].imageID]'
    BY <1>0, <1>4, <2>1
  <2> QED
    BY <1>0, <1>2, <1>5, <1>6, <2>1, <2>2, <2>3, SMTT(30) DEF StagesInv
<1>8. PagesInv'
  BY <1>0, PagesSame
<1> QED
  BY <1>0, <1>7, <1>8, SMTT(30) DEF IInv, Finished, Last

\* The end of the analysis.
LEMMA AnalyzedIInv == IInv /\ Analyzed => IInv'
<1> SUFFICES ASSUME IInv, Analyzed
             PROVE  IInv'
  OBVIOUS
<1>1. /\ phase = "analyze" /\ phase' = "prepare" /\ Len(stages) = Last /\ pos = 1 /\ Last \in Nat
      /\ UNCHANGED <<df, pages, aliases, stages, pos, result>>
  BY Stages DEF IInv, Analyzed, Last
<1>2. PagesInv' /\ Last' = Last
  BY <1>1, PagesSame, SMTT(30)
<1>3. StagesInv'
  BY <1>1, <1>2, SameDockerfile, SMTT(30) DEF IInv, StagesInv
<1> QED
  BY <1>1, <1>2, <1>3, SMTT(30) DEF IInv, Finished

-----------------------------------------------------------------------------
(* The loop over the stages.                                               *)

InLoop(ph) == ph \in {"prepare", "exec", "export", "ok", "err"}

\* A step that changes the stage that is built.
StageStep ==
  /\ DOMAIN stages' = DOMAIN stages /\ stages' = [i \in DOMAIN stages' |-> stages'[i]]
  /\ \A i \in DOMAIN stages : i # pos => stages'[i] = stages[i]
  /\ stages'[pos] = [fromImage |-> stages[pos].fromImage, fromStage |-> stages[pos].fromStage,
                     fs |-> stages'[pos].fs, imageID |-> stages'[pos].imageID]

\* In the loop there is a builder for every stage.
LEMMA Builders ==
  ASSUME IInv, InLoop(phase)
  PROVE  /\ df \in Dockerfiles /\ Last \in Nat /\ pos \in 1..Last
         /\ IsSequence(stages) /\ Len(stages) = Last /\ DOMAIN stages = 1..Last /\ pos \in DOMAIN stages
         /\ \A i \in 1..Last : stages[i] = [fromImage |-> Expand(df[i].from), fromStage |-> BaseStage(i),
                                            fs |-> stages[i].fs, imageID |-> stages[i].imageID]
<1>1. df \in Dockerfiles /\ Last \in Nat /\ pos \in 1..Last
  BY Stages, SMTT(30) DEF IInv, Last
<1>2. /\ IsSequence(stages) /\ Len(stages) = Last
      /\ \A i \in 1..Last : stages[i] = [fromImage |-> Expand(df[i].from), fromStage |-> BaseStage(i),
                                         fs |-> stages[i].fs, imageID |-> stages[i].imageID]
  BY DEF IInv, StagesInv, InLoop
<1>3. DOMAIN stages = 1..Last
  BY <1>2, Values
<1> QED
  BY <1>1, <1>2, <1>3

\* What the stage has is such a change.
LEMMA FsSet ==
  ASSUME IInv, InLoop(phase), NEW f, stages' = [stages EXCEPT ![pos].fs = f]
  PROVE  StageStep /\ stages'[pos].fs = f
<1> DEFINE i == stages[pos].fromImage
           b == stages[pos].fromStage
           d == stages[pos].imageID
           r == [stages[pos] EXCEPT !.fs = f]
<1>1. pos \in DOMAIN stages /\ stages[pos] = [fromImage |-> i, fromStage |-> b, fs |-> stages[pos].fs, imageID |-> d]
  BY Builders
<1>2. r = [fromImage |-> i, fromStage |-> b, fs |-> f, imageID |-> d]
  <2> HIDE DEF i, b, d
  <2> QED
    BY <1>1
<1>3. stages' = [stages EXCEPT ![pos] = r]
  OBVIOUS
<1> HIDE DEF r
<1>4. /\ DOMAIN stages' = DOMAIN stages /\ stages' = [j \in DOMAIN stages' |-> stages'[j]]
      /\ \A j \in DOMAIN stages : j # pos => stages'[j] = stages[j]
      /\ stages'[pos] = r
  BY <1>1, <1>3, Zenon
<1>5. r.fs = f /\ r.imageID = d
  BY <1>2
<1> QED
  BY <1>2, <1>4, <1>5, Zenon DEF StageStep

\* So is its image.
LEMMA ImageIDSet ==
  ASSUME IInv, InLoop(phase), NEW f, stages' = [stages EXCEPT ![pos].imageID = f]
  PROVE  StageStep /\ stages'[pos].imageID = f /\ stages'[pos].fs = stages[pos].fs
<1> DEFINE i == stages[pos].fromImage
           b == stages[pos].fromStage
           d == stages[pos].fs
           r == [stages[pos] EXCEPT !.imageID = f]
<1>1. pos \in DOMAIN stages /\ stages[pos] = [fromImage |-> i, fromStage |-> b, fs |-> d, imageID |-> stages[pos].imageID]
  BY Builders
<1>2. r = [fromImage |-> i, fromStage |-> b, fs |-> d, imageID |-> f]
  <2> HIDE DEF i, b, d
  <2> QED
    BY <1>1
<1>3. stages' = [stages EXCEPT ![pos] = r]
  OBVIOUS
<1> HIDE DEF r
<1>4. /\ DOMAIN stages' = DOMAIN stages /\ stages' = [j \in DOMAIN stages' |-> stages'[j]]
      /\ \A j \in DOMAIN stages : j # pos => stages'[j] = stages[j]
      /\ stages'[pos] = r
  BY <1>1, <1>3, ZenonT(30)
<1>5. r.imageID = f /\ r.fs = d
  BY <1>2
<1> QED
  BY <1>2, <1>4, <1>5, Zenon DEF StageStep

\* Such a step leaves the stages before it, and what it begins with.
LEMMA StageChanged ==
  ASSUME IInv, UNCHANGED <<df, pages, aliases>>, InLoop(phase), InLoop(phase'), StageStep
  PROVE  /\ PagesInv' /\ StagesInv' /\ Len(pages) = Last /\ Last' = Last /\ Len(stages') = Last
         /\ \A i \in 1..(pos - 1) : BuiltAs(i)' <=> BuiltAs(i)
         /\ Start(pos) = IF IsScratch(stages'[pos]) THEN Scratch
                         ELSE IF BaseStage(pos) # 0 THEN stages'[BaseStage(pos)].imageID
                         ELSE Registry(stages'[pos].fromImage)
<1>0. /\ df \in Dockerfiles /\ Last \in Nat /\ pos \in 1..Last
      /\ phase # "parse" /\ phase' # "parse" /\ phase # "analyze" /\ phase' # "analyze"
  BY Stages, Zenon DEF IInv, Last, InLoop
<1>1. PagesInv' /\ Len(pages) = Last /\ Last' = Last
  BY <1>0, PagesSame, SMTT(30)
<1>2. /\ IsSequence(stages) /\ Len(stages) = Last /\ DOMAIN stages = 1..Last
      /\ \A i \in 1..Last : stages[i] = [fromImage |-> Expand(df[i].from), fromStage |-> BaseStage(i),
                                         fs |-> stages[i].fs, imageID |-> stages[i].imageID]
  BY Builders
<1>4. \A i \in 1..Last : i # pos => stages'[i] = stages[i]
  BY <1>2 DEF StageStep
<1>5. stages' = [i \in 1..Last |-> stages'[i]]
  BY <1>2 DEF StageStep
<1>6. IsSequence(stages') /\ Len(stages') = Last
  BY <1>0, <1>5, FromFunction
<1>7. /\ stages'[pos] = [fromImage |-> stages[pos].fromImage, fromStage |-> stages[pos].fromStage,
                         fs |-> stages'[pos].fs, imageID |-> stages'[pos].imageID]
      /\ stages'[pos].fromImage = stages[pos].fromImage /\ stages'[pos].fromStage = stages[pos].fromStage
  BY SMTT(30) DEF StageStep
<1>8. stages[pos].fromImage = Expand(df[pos].from) /\ stages[pos].fromStage = BaseStage(pos)
  BY <1>0, <1>2, SMTT(30)
<1>9. StagesInv'
  <2>1. ASSUME NEW i \in 1..Last
        PROVE  stages'[i] = [fromImage |-> Expand(df[i].from), fromStage |-> BaseStage(i),
                             fs |-> stages'[i].fs, imageID |-> stages'[i].imageID]
    <3>1. CASE i = pos
      BY <1>7, <1>8, <3>1, Zenon
    <3>2. CASE i # pos
      BY <1>2, <1>4, <3>2, Zenon
    <3> QED
      BY <3>1, <3>2
  <2>2. /\ \A i : BaseStage(i)' = BaseStage(i)
        /\ \A i, x : StageNamed(i, x)' = StageNamed(i, x)
    BY SameDockerfile, SMTT(30)
  <2>3. /\ DOMAIN aliases = {df[k].as : k \in 1..Last} \ {NoName}
        /\ \A name \in DOMAIN aliases : aliases[name] = StageNamed(Last + 1, name)
    BY <1>2, SMTT(30) DEF IInv, StagesInv
  <2> QED
    BY <1>0, <1>1, <1>6, <2>1, <2>2, <2>3, SMTT(30) DEF StagesInv
<1>10. ASSUME NEW i \in 1..(pos - 1)
       PROVE  BuiltAs(i)' <=> BuiltAs(i)
  <2>1. stages'[i] = stages[i]
    BY <1>0, <1>4
  <2>2. Written' = Written /\ OnlyTriggers' = OnlyTriggers
    BY SameDockerfile
  <2>3. pages' = pages /\ df' = df
    OBVIOUS
  <2> QED
    BY <2>1, <2>2, <2>3, Zenon DEF BuiltAs, Carried
<1>11. BaseStage(pos) # 0 => stages'[BaseStage(pos)] = stages[BaseStage(pos)]
  BY <1>0, <1>4, BaseBefore, SMTT(30)
<1>12. IsScratch(stages'[pos]) <=> IsScratch(stages[pos])
  BY <1>4, <1>7, SMTT(30) DEF IsScratch
<1>13. Start(pos) = IF IsScratch(stages'[pos]) THEN Scratch
                    ELSE IF BaseStage(pos) # 0 THEN stages'[BaseStage(pos)].imageID
                    ELSE Registry(stages'[pos].fromImage)
  BY <1>4, <1>7, <1>8, <1>11, <1>12, SMTT(30) DEF Start, FromImage, IsScratch
<1> QED
  BY <1>0, <1>1, <1>2, <1>4, <1>7, <1>6, <1>9, <1>10, <1>13, Zenon

\* While a stage is built, what it begins with stays.
LEMMA StartSame ==
  ASSUME StagesInv', UNCHANGED <<df, pos>>, pos \in 1..Last, Len(stages') = Last,
         Start(pos) = IF IsScratch(stages'[pos]) THEN Scratch
                      ELSE IF BaseStage(pos) # 0 THEN stages'[BaseStage(pos)].imageID
                      ELSE Registry(stages'[pos].fromImage)
  PROVE  Start(pos)' = Start(pos)
<1>1. stages'[pos].fromStage = BaseStage(pos)
  <2>1. \A i : BaseStage(i)' = BaseStage(i)
    BY SameDockerfile, SMTT(30)
  <2>2. \A i \in 1..Last : stages'[i].fromStage = BaseStage(i)
    <3>1. \A i \in 1..Last : stages'[i] = [fromImage |-> Expand(df[i].from), fromStage |-> BaseStage(i),
                                          fs |-> stages'[i].fs, imageID |-> stages'[i].imageID]
      BY <2>1, SMTT(30) DEF StagesInv
    <3> QED
      BY <3>1, SMTT(30)
  <2> QED
    BY <2>1, <2>2
<1> QED
  BY <1>1 DEF Start, FromImage, IsScratch

\* prepare.
LEMMA PrepareIInv == IInv /\ Prepare => IInv'
<1> SUFFICES ASSUME IInv, Prepare
             PROVE  IInv'
  OBVIOUS
<1> DEFINE x == Start(pos)
           body == df[pos].body
           f == Fresh(x)
<1>1. /\ phase = "prepare" /\ phase' = "exec" /\ x # None /\ InLoop(phase) /\ InLoop(phase')
      /\ UNCHANGED <<df, pages, aliases, pos, result>>
      /\ stages' = [stages EXCEPT ![pos].fs = f]
      /\ todo' = [k \in 1..x[1].triggers |-> Trigger] \o body
  BY Zenon DEF Prepare, Start, InLoop
<1>2. /\ df \in Dockerfiles /\ Last \in Nat /\ pos \in 1..Last /\ Len(stages) = Last
      /\ StageStep /\ stages'[pos].fs = f
  <2> HIDE DEF f, x
  <2>1. StageStep /\ stages'[pos].fs = f
    BY <1>1, FsSet, Zenon
  <2> QED
    BY <1>1, <2>1, Builders
<1>3. /\ PagesInv' /\ StagesInv' /\ Len(pages) = Last /\ Last' = Last /\ Len(stages') = Last
      /\ \A i \in 1..(pos - 1) : BuiltAs(i)' <=> BuiltAs(i)
      /\ Start(pos) = IF IsScratch(stages'[pos]) THEN Scratch
                      ELSE IF BaseStage(pos) # 0 THEN stages'[BaseStage(pos)].imageID
                      ELSE Registry(stages'[pos].fromImage)
  <2> HIDE DEF x, f
  <2> QED
    BY <1>1, <1>2, StageChanged, SMTT(30)
<1>4. Start(pos)' = x
  BY <1>1, <1>2, <1>3, StartSame, Zenon
<1>5. ASSUME Good
      PROVE  /\ \A i \in 1..(pos - 1) : BuiltAs(i)'
             /\ Executing(pos, x, todo', stages'[pos].fs)
  <2>1. \A i \in 1..(pos - 1) : BuiltAs(i)
    BY <1>5, SMTT(30) DEF IInv
  <2>2. IsImage(x)
    BY <1>1, <1>2, <1>3, <1>5, <2>1, Begins, Zenon
  <2> HIDE DEF x
  <2> DEFINE n == x[1].triggers
             t == [k \in 1..n |-> Trigger]
  <2>3. n \in Nat /\ IsSequence(x[1].log)
    BY <2>2 DEF IsImage
  <2>4. IsSequence(t) /\ Len(t) = n /\ \A k \in 1..n : t[k] = Trigger
    <3>1. t = [k \in 1..n |-> t[k]] /\ \A k \in 1..n : t[k] = Trigger
      OBVIOUS
    <3> HIDE DEF t, n
    <3> QED
      BY <2>3, <3>1, FromFunction
  <2>5. IsSequence(body) /\ Len(body) \in Nat
    BY <1>2, Stages DEF Last
  <2> HIDE DEF t, body, f
  <2>6. /\ IsSequence(todo') /\ Len(todo') = n + Len(body)
        /\ \A k \in 1..n : todo'[k] = t[k]
        /\ \A k \in 1..Len(body) : todo'[n + k] = body[k]
    <3>1. todo' = t \o body
      BY <1>1, Zenon DEF t
    <3> HIDE DEF n
    <3>2. /\ IsSequence(t \o body) /\ Len(t \o body) = Len(t) + Len(body)
          /\ \A k \in 1..Len(t) : (t \o body)[k] = t[k]
          /\ \A k \in 1..Len(body) : (t \o body)[Len(t) + k] = body[k]
      BY <2>4, <2>5, Joined
    <3> QED
      BY <2>4, <3>1, <3>2, Zenon
  <2> HIDE DEF n
  <2>7. Len(body) - Len(todo') = -n
    BY <2>3, <2>5, <2>6
  <2>8. ASSUME NEW k \in 1..Len(todo')
        PROVE  todo'[k] = IF (-n) + k <= 0 THEN Trigger ELSE body[(-n) + k]
    <3>1. CASE k \in 1..n
      BY <2>3, <2>4, <2>6, <3>1
    <3>2. CASE k \notin 1..n
      <4> DEFINE l == (-n) + k
      <4>1. l \in 1..Len(body) /\ k = n + l /\ ~(l <= 0)
        BY <2>3, <2>5, <2>6, <3>2
      <4> HIDE DEF l
      <4>2. todo'[k] = body[l]
        BY <2>6, <4>1
      <4> QED
        BY <4>1, <4>2 DEF l
    <3> QED
      BY <3>1, <3>2
  <2>9. After(x, pos, -n) = Fresh(x)
    <3>1. -n <= 0 /\ n + (-n) = 0
      BY <2>3
    <3>2. After(x, pos, -n) = Image(x[1].from, x[1].log \o Triggers(0), 0)
      BY <3>1, Zenon DEF After, n
    <3>3. IsSequence(Triggers(0)) /\ Len(Triggers(0)) = 0
      BY TriggersType
    <3>4. x[1].log \o Triggers(0) = x[1].log
      BY <2>3, <3>3, JoinedEmpty
    <3>5. Fresh(x) = Image(x[1].from, x[1].log, 0)
      <4>1. x[1] = [from |-> x[1].from, log |-> x[1].log, triggers |-> x[1].triggers]
        BY <2>2 DEF IsImage, Image
      <4>2. [x[1] EXCEPT !.triggers = 0] = [from |-> x[1].from, log |-> x[1].log, triggers |-> 0]
        BY <4>1, SMTT(30)
      <4> QED
        BY <4>2, Zenon DEF Fresh, Image
    <3> QED
      BY <3>2, <3>4, <3>5, Zenon
  <2>10. Executing(pos, x, todo', stages'[pos].fs)
    <3>1. stages'[pos].fs = After(x, pos, -n)
      BY <1>2, <2>9 DEF f
    <3>2. x[1].triggers + (-n) >= 0
      BY <2>3, SMTT(30) DEF n
    <3> QED
      BY <1>1, <2>6, <2>7, <2>8, <3>1, <3>2, ZenonT(30) DEF Executing, body
  <2> QED
    BY <1>3, <2>1, <2>10
<1>6. Good => /\ \A i \in 1..(pos' - 1) : BuiltAs(i)'
              /\ Executing(pos, Start(pos), todo, stages[pos].fs)'
  BY <1>1, <1>4, <1>5, SameDockerfile
<1> HIDE DEF x, f
<1> QED
  BY <1>1, <1>2, <1>3, <1>6, SameDockerfile, SMTT(30) DEF IInv, Finished

\* The rest of a sequence.
LEMMA Rest ==
  ASSUME NEW s, IsSequence(s), s # <<>>
  PROVE  /\ Len(s) \in Nat \ {0} /\ Head(s) = s[1]
         /\ IsSequence(Tail(s)) /\ Len(Tail(s)) = Len(s) - 1
         /\ \A k \in 1..(Len(s) - 1) : Tail(s)[k] = s[k + 1]
<1> DEFINE S == {s[k] : k \in DOMAIN s}
<1>1. s \in Seq(S)
  BY DEF IsSequence
<1> HIDE DEF S
<1>2. Tail(s) \in Seq(S) /\ Len(s) \in Nat \ {0} /\ Head(s) = s[1] /\ Len(Tail(s)) = Len(s) - 1
  BY <1>1
<1>3. \A k \in 1..(Len(s) - 1) : Tail(s)[k] = s[k + 1]
  BY <1>1
<1>4. IsSequence(Tail(s))
  BY <1>2, Typed, Zenon
<1> QED
  BY <1>2, <1>3, <1>4

\* cmdExecutor does what is written for the next instruction.
LEMMA ExecuteFs ==
  ASSUME IInv, Good, phase = "exec", todo # <<>>, Len(stages) = Last, Len(pages) = Last,
         NEW fs, fs = (LET cmd == Head(todo) old == stages[pos].fs IN
           CASE cmd.op = "trigger" -> Done(old, Event(0, 0, None))
             [] cmd.op = "run" -> Done(old, Event(pos, Len(todo), None))
             [] cmd.op = "copy" -> Done(old, Event(pos, Len(todo), CopyContext(cmd.src)))
             [] cmd.op = "onbuild" -> <<[old[1] EXCEPT !.triggers = @ + 1]>>)
  PROVE  Executing(pos, Start(pos), Tail(todo), fs)
<1> DEFINE x == Start(pos)
           body == df[pos].body
           n == Len(todo)
           p == Len(body) - n
           old == stages[pos].fs
           cmd == Head(todo)
<1>0. df \in Dockerfiles /\ Last \in Nat /\ pos \in 1..Last /\ Len(body) \in Nat
  BY Stages DEF IInv, Last
<1>1. Executing(pos, x, todo, old)
  BY DEF IInv
<1>2. /\ IsSequence(todo) /\ x # None /\ x[1].triggers + p >= 0 /\ old = After(x, pos, p)
      /\ \A k \in 1..n : todo[k] = IF p + k <= 0 THEN Trigger ELSE body[p + k]
  BY <1>1 DEF Executing
<1>3. \A j \in 1..(pos - 1) : BuiltAs(j)
  BY DEF IInv
<1>4. IsImage(x)
  BY <1>0, <1>2, <1>3, Begins
<1>5. /\ n \in Nat \ {0} /\ cmd = todo[1]
      /\ IsSequence(Tail(todo)) /\ Len(Tail(todo)) = n - 1
      /\ \A k \in 1..(n - 1) : Tail(todo)[k] = todo[k + 1]
  BY <1>2, Rest
<1>6. /\ p \in Int /\ Len(body) - Len(Tail(todo)) = p + 1 /\ p + 1 <= Len(body) /\ n = Len(body) - p
      /\ x[1].triggers \in Nat
  BY <1>0, <1>4, <1>5 DEF IsImage
<1>7. cmd = IF p + 1 <= 0 THEN Trigger ELSE body[p + 1]
  BY <1>2, <1>5, SMTT(30)
<1>8. fs = CASE cmd.op = "trigger" -> Done(old, Event(0, 0, None))
             [] cmd.op = "run" -> Done(old, Event(pos, n, None))
             [] cmd.op = "copy" -> Done(old, Event(pos, n, CopyContext(cmd.src)))
             [] cmd.op = "onbuild" -> <<[old[1] EXCEPT !.triggers = @ + 1]>>
  OBVIOUS
<1> HIDE DEF x, n, p, old, cmd, body
<1>9. fs = After(x, pos, p + 1)
  <2>1. CASE p + 1 <= 0
    <3>1. cmd = Trigger /\ cmd.op = "trigger"
      BY <1>7, <2>1 DEF Trigger
    <3>2. fs = Done(old, Event(0, 0, None))
      BY <1>8, <3>1, Zenon
    <3>3. p < 0
      BY <1>6, <2>1
    <3>4. Done(After(x, pos, p), Event(0, 0, None)) = After(x, pos, p + 1)
      BY <1>2, <1>4, <1>6, <3>3, AfterTrigger
    <3> QED
      BY <1>2, <3>2, <3>4, Zenon
  <2>2. CASE ~(p + 1 <= 0)
    <3>0. /\ p \in 0..(Len(body) - 1) /\ p + 1 \in 1..Len(body) /\ n = Len(body) - (p + 1) + 1
          /\ cmd = body[p + 1]
      BY <1>0, <1>6, <1>7, <2>2, SMTT(30)
    <3>1. \/ cmd.op = "run" \/ cmd.op = "onbuild" \/ cmd.op = "copy"
      <4>1. pos \in DOMAIN df /\ p + 1 \in DOMAIN body
        BY <1>0, <3>0, Stages DEF Last, body
      <4> QED
        BY <1>0, <3>0, <4>1, DockerfilesAssumption DEF body
    <3>2. CASE cmd.op = "onbuild"
      <4>1. fs = <<[old[1] EXCEPT !.triggers = @ + 1]>>
        BY <1>8, <3>2, Zenon
      <4>2. <<[After(x, pos, p)[1] EXCEPT !.triggers = @ + 1]>> = After(x, pos, p + 1)
        BY <1>0, <1>4, <3>0, <3>2, AfterOnbuild, Zenon DEF body
      <4> QED
        BY <1>2, <4>1, <4>2, Zenon
    <3>3. CASE cmd.op # "onbuild"
      <4>1. Done(After(x, pos, p), Effect(Written, pos, p + 1)) = After(x, pos, p + 1)
        BY <1>0, <1>4, <3>0, <3>3, AfterChange, SMTT(30) DEF body
      <4>2. CASE cmd.op = "run"
        <5>1. fs = Done(old, Event(pos, n, None))
          BY <1>8, <4>2, Zenon
        <5>2. Effect(Written, pos, p + 1) = Event(pos, n, None)
          BY <3>0, <4>2 DEF Effect, body
        <5> QED
          BY <1>2, <4>1, <5>1, <5>2, Zenon
      <4>3. CASE cmd.op = "copy"
        <5>1. fs = Done(old, Event(pos, n, CopyContext(cmd.src)))
          BY <1>8, <4>3, Zenon
        <5>2. CopyContext(cmd.src) = Source(Written, pos, cmd.src)
          BY <1>3, <3>0, <4>3, Copies, SMTT(30) DEF body
        <5>3. Effect(Written, pos, p + 1) = Event(pos, n, Source(Written, pos, cmd.src))
          BY <3>0, <4>3 DEF Effect, body
        <5> QED
          BY <1>2, <4>1, <5>1, <5>2, <5>3, Zenon
      <4> QED
        BY <3>1, <3>3, <4>2, <4>3, Zenon
    <3> QED
      BY <3>2, <3>3, Zenon
  <2> QED
    BY <2>1, <2>2, Zenon
<1>10. ASSUME NEW k \in 1..(n - 1)
       PROVE  Tail(todo)[k] = IF (p + 1) + k <= 0 THEN Trigger ELSE body[(p + 1) + k]
  <2>1. k + 1 \in 1..n /\ p + (k + 1) = (p + 1) + k
    <3>1. n \in Nat /\ p \in Int
      BY <1>5, <1>6, Zenon
    <3> QED
      BY <3>1
  <2>2. todo[k + 1] = IF p + (k + 1) <= 0 THEN Trigger ELSE body[p + (k + 1)]
    BY <1>2, <2>1
  <2> QED
    BY <1>5, <2>1, <2>2
<1>11. x[1].triggers + (p + 1) >= 0
  BY <1>2, <1>6, SMTT(30)
<1> QED
  <2>1. Len(df[pos].body) - Len(Tail(todo)) = p + 1
    BY <1>6 DEF body
  <2> QED
    BY <1>2, <1>5, <1>9, <1>10, <1>11, <2>1, ZenonT(30) DEF Executing, body, x

\* An instruction of a stage.
LEMMA ExecuteIInv == IInv /\ Execute => IInv'
<1> SUFFICES ASSUME IInv, Execute
             PROVE  IInv'
  OBVIOUS
<1> DEFINE f == LET cmd == Head(todo) old == stages[pos].fs IN
             CASE cmd.op = "trigger" -> Done(old, Event(0, 0, None))
               [] cmd.op = "run" -> Done(old, Event(pos, Len(todo), None))
               [] cmd.op = "copy" -> Done(old, Event(pos, Len(todo), CopyContext(cmd.src)))
               [] cmd.op = "onbuild" -> <<[old[1] EXCEPT !.triggers = @ + 1]>>
<1>1. /\ phase = "exec" /\ phase' = "exec" /\ todo # <<>> /\ todo' = Tail(todo)
      /\ UNCHANGED <<df, pages, aliases, pos, result>>
      /\ stages' = [stages EXCEPT ![pos].fs = f]
  BY Zenon DEF Execute
<1>2. f = LET cmd == Head(todo) old == stages[pos].fs IN
            CASE cmd.op = "trigger" -> Done(old, Event(0, 0, None))
              [] cmd.op = "run" -> Done(old, Event(pos, Len(todo), None))
              [] cmd.op = "copy" -> Done(old, Event(pos, Len(todo), CopyContext(cmd.src)))
              [] cmd.op = "onbuild" -> <<[old[1] EXCEPT !.triggers = @ + 1]>>
  OBVIOUS
<1> HIDE DEF f
<1>3. InLoop(phase) /\ InLoop(phase')
  BY <1>1 DEF InLoop
<1>4. StageStep /\ stages'[pos].fs = f
  BY <1>1, <1>3, FsSet, Zenon
<1>5. df \in Dockerfiles /\ Last \in Nat /\ pos \in 1..Last /\ Len(stages) = Last
  BY <1>3, Builders
<1>6. /\ PagesInv' /\ StagesInv' /\ Len(pages) = Last /\ Last' = Last /\ Len(stages') = Last
      /\ \A i \in 1..(pos - 1) : BuiltAs(i)' <=> BuiltAs(i)
      /\ Start(pos) = IF IsScratch(stages'[pos]) THEN Scratch
                      ELSE IF BaseStage(pos) # 0 THEN stages'[BaseStage(pos)].imageID
                      ELSE Registry(stages'[pos].fromImage)
  BY <1>1, <1>3, <1>4, StageChanged
<1>7. Start(pos)' = Start(pos)
  BY <1>1, <1>5, <1>6, StartSame
<1>8. ASSUME Good
      PROVE  /\ \A i \in 1..(pos' - 1) : BuiltAs(i)'
             /\ Executing(pos, Start(pos), todo, stages[pos].fs)'
  <2>1. Executing(pos, Start(pos), Tail(todo), f)
    BY <1>1, <1>2, <1>5, <1>6, <1>8, ExecuteFs, Zenon
  <2>2. Executing(pos, Start(pos), todo', stages'[pos].fs)
    BY <1>1, <1>4, <2>1
  <2>3. \A i \in 1..(pos - 1) : BuiltAs(i)
    BY <1>8 DEF IInv
  <2> QED
    BY <1>1, <1>6, <1>7, <2>2, <2>3, SameDockerfile
<1> QED
  BY <1>1, <1>5, <1>6, <1>8, SameDockerfile DEF IInv, Finished

\* The end of a stage.
LEMMA FinishStageIInv == IInv /\ FinishStage => IInv'
<1> SUFFICES ASSUME IInv, FinishStage
             PROVE  IInv'
  OBVIOUS
<1> DEFINE x == Start(pos)
           body == df[pos].body
           old == stages[pos].fs
           d == IF pages[pos].needCommit THEN old ELSE FromImage(stages[pos])
<1>1. /\ phase = "exec" /\ phase' \in {"prepare", "export"} /\ todo = <<>>
      /\ UNCHANGED <<df, pages, aliases>>
      /\ stages' = [stages EXCEPT ![pos].imageID = d]
      /\ IF pos < Last THEN pos' = pos + 1 /\ phase' = "prepare"
         ELSE phase' = "export" /\ result' = stages'[pos].imageID /\ pos' = pos
  BY Zenon DEF FinishStage, Last
<1>2. InLoop(phase) /\ InLoop(phase')
  BY <1>1 DEF InLoop
<1> HIDE DEF d
<1>3. StageStep /\ stages'[pos].imageID = d /\ stages'[pos].fs = old
  BY <1>1, <1>2, ImageIDSet, Zenon
<1>4. df \in Dockerfiles /\ Last \in Nat /\ pos \in 1..Last /\ Len(stages) = Last
  BY <1>2, Builders
<1>5. /\ PagesInv' /\ StagesInv' /\ Len(pages) = Last /\ Last' = Last /\ Len(stages') = Last
      /\ \A i \in 1..(pos - 1) : BuiltAs(i)' <=> BuiltAs(i)
  BY <1>1, <1>2, <1>3, StageChanged
<1>6. ASSUME Good
      PROVE  \A i \in 1..pos : BuiltAs(i)'
  <2>1. /\ \A i \in 1..(pos - 1) : BuiltAs(i)
        /\ Executing(pos, x, todo, old)
    BY <1>1, <1>6 DEF IInv
  <2>2. x # None /\ old = After(x, pos, Len(body))
    <3>1. Len(todo) = 0 /\ Len(body) \in Nat
      BY <1>1, <1>4, Stages DEF Last
    <3>2. Len(body) - Len(todo) = Len(body)
      BY <3>1, SMTT(30)
    <3> QED
      BY <2>1, <3>2 DEF Executing
  <2>3. /\ IsImage(x) /\ x[1].from = BaseImage(Written, pos)[1].from /\ Fired(x) = Fired(BaseImage(Written, pos))
        /\ body = <<>> => (OnlyTriggers[pos] <=> x[1].triggers > 0)
    BY <1>4, <1>5, <1>6, <2>1, <2>2, Begins, SMTT(30)
  <2>4. FromImage(stages[pos]) = IF IsScratch(stages[pos]) THEN None ELSE x
    BY DEF Start, FromImage, IsScratch
  <2>5. IsScratch(stages[pos]) => x = Scratch
    BY SMTT(30) DEF Start
  <2> HIDE DEF x
  <2>6. old = Written[pos]
    BY <1>4, <2>2, <2>3, AfterAll, SMTT(30)
  <2>7. pages[pos].needCommit \in BOOLEAN /\ (pages[pos].needCommit => body # <<>>)
    BY <1>4, <1>5 DEF IInv, PagesInv
  <2>8. OnlyTriggers[pos] => body = <<>>
    <3>1. OnlyTriggers[pos] = LeavesTriggers(OnlyTriggers, pos)
      BY <1>4, OnlyTriggersDefined DEF Last
    <3> QED
      BY <3>1, Zenon DEF LeavesTriggers
  <2>9. ASSUME pages[pos].needCommit \/ body = <<>>
        PROVE  Carried(d, pos)
    <3>1. CASE pages[pos].needCommit
      <4>1. d = Written[pos] /\ ~OnlyTriggers[pos]
        BY <2>6, <2>7, <2>8, <3>1 DEF d
      <4> QED
        BY <4>1 DEF Carried
    <3>2. CASE ~pages[pos].needCommit
      <4>0. body = <<>> /\ Len(body) = 0
        BY <2>9, <3>2
      <4>1. d = IF IsScratch(stages[pos]) THEN None ELSE x
        BY <2>4, <3>2 DEF d
      <4>2. Written[pos] = Image(x[1].from, Fired(x), 0)
        <5>1. old = After(x, pos, 0) /\ 0 <= 0 /\ x[1].triggers + 0 = x[1].triggers
          BY <2>2, <2>3, <4>0 DEF IsImage
        <5>2. After(x, pos, 0) = Image(x[1].from, x[1].log \o Triggers(x[1].triggers + 0), 0)
          BY <5>1, ZenonT(30) DEF After
        <5> QED
          BY <2>6, <5>1, <5>2, ZenonT(30) DEF Fired
      <4>3. x[1].triggers \in Nat /\ x = Image(x[1].from, x[1].log, x[1].triggers)
        BY <2>3 DEF IsImage
      <4>4. CASE IsScratch(stages[pos])
        <5>1. x = Scratch /\ x[1].triggers = 0 /\ d = None
          BY <2>5, <4>1, <4>4, KnownImages, SMTT(30)
        <5>2. ~OnlyTriggers[pos]
          BY <2>3, <4>0, <5>1, SMTT(30)
        <5>3. Fired(x) = x[1].log
          BY <2>3, <5>1, FiredType
        <5>4. Written[pos] = Scratch
          BY <4>2, <4>3, <5>1, <5>3, Zenon
        <5> QED
          BY <5>1, <5>2, <5>4, ZenonT(30) DEF Carried
      <4>5. CASE ~IsScratch(stages[pos])
        <5>1. d = x
          BY <4>1, <4>5
        <5>2. CASE OnlyTriggers[pos]
          <6>1. x[1].triggers > 0
            BY <2>3, <4>0, <5>2
          <6> QED
            BY <2>3, <4>2, <5>1, <5>2, <6>1, ZenonT(30) DEF Carried
        <5>3. CASE ~OnlyTriggers[pos]
          <6>1. x[1].triggers = 0
            BY <2>3, <4>0, <4>3, <5>3, SMTT(30)
          <6>2. Fired(x) = x[1].log
            BY <2>3, <6>1, FiredType
          <6>3. Written[pos] = x
            BY <4>2, <4>3, <6>1, <6>2, Zenon
          <6> QED
            BY <5>1, <5>3, <6>3, ZenonT(30) DEF Carried
        <5> QED
          BY <5>2, <5>3
      <4> QED
        BY <4>4, <4>5
    <3> QED
      BY <2>7, <3>1, <3>2, SMTT(30)
  <2>10. Written' = Written /\ OnlyTriggers' = OnlyTriggers /\ df' = df /\ pages' = pages
    BY <1>1, SameDockerfile, SMTT(30)
  <2>11. ASSUME NEW i \in 1..pos, i = pos
         PROVE  BuiltAs(i)'
    <3>1. stages'[i].fs = Written[i] /\ stages'[i].imageID = d
      BY <1>3, <2>6, <2>11
    <3>2. pages[i].needCommit \/ df[i].body = <<>> => Carried(stages'[i].imageID, i)
      BY <2>9, <2>11, <3>1
    <3> QED
      BY <2>10, <3>1, <3>2 DEF BuiltAs, Carried
  <2> QED
    BY <1>4, <1>5, <2>1, <2>11
<1>7. pos' \in 1..Last
  BY <1>1, <1>4
<1>8. CASE pos < Last
  <2>1. phase' = "prepare" /\ pos' - 1 = pos
    BY <1>1, <1>4, <1>8
  <2> QED
    BY <1>1, <1>4, <1>5, <1>6, <1>7, <2>1, SameDockerfile DEF IInv, Finished
<1>9. CASE ~(pos < Last)
  <2>1. phase' = "export" /\ pos' = pos /\ pos = Last /\ result' = stages'[Last].imageID
    BY <1>1, <1>4, <1>9
  <2>2. Good => (\A i \in 1..(pos' - 1) : BuiltAs(i)') /\ BuiltAs(Last)'
    <3>1. Good => \A i \in 1..Last : BuiltAs(i)'
      BY <1>6, <2>1
    <3>2. Last \in 1..Last /\ \A i \in 1..(pos' - 1) : i \in 1..Last
      BY <1>4, <2>1, SMTT(30)
    <3> QED
      BY <1>5, <3>1, <3>2
  <2> QED
    BY <1>1, <1>4, <1>5, <1>7, <2>1, <2>2, SameDockerfile, SMTT(30) DEF IInv, Finished
<1> QED
  BY <1>8, <1>9

\* The steps that leave the stages alone.
LEMMA RestIInv ==
  ASSUME IInv, UNCHANGED <<df, pages, aliases, stages, pos>>,
         \/ phase' = phase /\ UNCHANGED <<todo, result>>
         \/ phase = "export" /\ phase' = "ok" /\ result' = result
         \/ InLoop(phase) /\ phase' = "err"
  PROVE  IInv'
<1>1. Last' = Last /\ Good' = Good
  BY SameDockerfile DEF Last
<1>2. PagesInv'
  <2>1. CASE phase = "parse"
    <3>1. phase' = "parse"
      BY <2>1 DEF InLoop
    <3>2. \A j : PageName(j)' = PageName(j) /\ BaseStage(j)' = BaseStage(j) /\ Unmarked(j)' = Unmarked(j)
      BY SameDockerfile, SMTT(30)
    <3>3. \A j : Marked(j)' <=> Marked(j)
      BY <3>2 DEF Marked
    <3>4. \A j : Lines(df[j])' = Lines(df[j])
      BY DEF Lines
    <3> QED
      BY <1>1, <3>1, <3>2, <3>3, <3>4, Zenon DEF IInv, PagesInv
  <2>2. CASE phase # "parse"
    BY <2>2, PagesSame, SMTT(30)
  <2> QED
    BY <2>1, <2>2, SMTT(30)
<1>3. StagesInv'
  <2>1. phase \in {"parse", "analyze"} \/ phase' \notin {"parse", "analyze"} \/ phase' = phase
    OBVIOUS
  <2>2. phase' \notin {"parse", "analyze"} => phase \notin {"parse", "analyze"}
    BY DEF InLoop
  <2> QED
    BY <1>1, <2>2, SameDockerfile, ZenonT(30) DEF IInv, StagesInv
<1>4. \A i : BuiltAs(i)' <=> BuiltAs(i)
  <2>1. Written' = Written /\ OnlyTriggers' = OnlyTriggers
    BY SameDockerfile
  <2> QED
    BY <2>1 DEF BuiltAs, Carried
<1>5. ASSUME phase' = "exec"
      PROVE  Executing(pos, Start(pos), todo, stages[pos].fs)' <=> Executing(pos, Start(pos), todo, stages[pos].fs)
  <2>1. Start(pos)' = Start(pos)
    BY DEF Start, FromImage, IsScratch
  <2>2. todo' = todo
    BY <1>5
  <2>3. \A i, x, left, fs : Executing(i, x, left, fs)' <=> Executing(i, x, left, fs)
    BY SameDockerfile
  <2> QED
    BY <2>1, <2>2, <2>3, SMTT(30)
<1> QED
  BY <1>1, <1>2, <1>3, <1>4, <1>5, SMTT(30) DEF IInv, Finished, InLoop

\* The invariant is inductive.
THEOREM StageInvariant == Spec => []IInv
<1>1. IInv /\ [Next]_vars => IInv'
  <2> SUFFICES ASSUME IInv, [Next]_vars
               PROVE  IInv'
    OBVIOUS
  <2>1. CASE ConstructPage \/ ConstructLast \/ AnalyzeFrom \/ Analyzed
    BY <2>1, ConstructPageIInv, ConstructLastIInv, AnalyzeFromIInv, AnalyzedIInv
  <2>2. CASE Prepare \/ Execute \/ FinishStage
    BY <2>2, PrepareIInv, ExecuteIInv, FinishStageIInv
  <2>3. CASE Export
    BY <2>3, RestIInv DEF Export
  <2>4. CASE Fail
    BY <2>4, RestIInv DEF Fail, InLoop
  <2>5. CASE UNCHANGED vars
    BY <2>5, RestIInv DEF vars
  <2> QED
    BY <2>1, <2>2, <2>3, <2>4, <2>5 DEF Next
<1> QED
  BY <1>1, InitIInv, PTL DEF Spec

\* A build yields what its Dockerfile says, whatever the number of stages and
\* instructions, except for the three forms that BuildsAsWritten names: the pages that
\* constructPages marks are those whose images later stages need, the aliases that
\* analyzeFrom and getCopyContextDir look up are the stages that are meant, and
\* stageBuild hands on an image from which a later stage goes on as written.
THEOREM BuildsAsWrittenCorrect == Spec => []BuildsAsWritten
<1>1. IInv => BuildsAsWritten
  <2> SUFFICES ASSUME IInv, phase = "ok", Good, ~OnlyTriggers[Last]
               PROVE  result = Written[Last] \/ (result = None /\ Written[Last] = Scratch)
    BY DEF BuildsAsWritten, Good
  <2>1. BuiltAs(Last) /\ result = stages[Last].imageID
    BY SMTT(30) DEF IInv, Finished
  <2>2. pages[Last].needCommit \/ df[Last].body = <<>>
    BY DEF IInv, PagesInv
  <2> QED
    BY <2>1, <2>2, SMTT(30) DEF BuiltAs, Carried
<1> QED
  BY <1>1, StageInvariant, PTL
=============================================================================
