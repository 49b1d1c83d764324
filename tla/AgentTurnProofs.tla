--------------------------- MODULE AgentTurnProofs ---------------------------
(***************************************************************************)
(* Proofs about AgentTurn, Plugins and Tools: which plugins are loaded,    *)
(* what the tools answer, the calls of the providers, and what runs when,  *)
(* for any documents, files, settings, tools and number of attempts.       *)
(***************************************************************************)
EXTENDS AgentTurn, FoldProofs

-----------------------------------------------------------------------------
(* The loops over entries and files.                                       *)

\* What every pass of the loop of _parse keeps, the loop keeps.
LEMMA ParseKeeps ==
  ASSUME NEW A, NEW R, <<>> \in A, NEW raws \in Seq(R),
         \A es \in A, raw \in R : ParseEntry(es, raw) \in A
  PROVE  FoldLeft(ParseEntry, <<>>, raws) \in A
<1> DEFINE F == [p \in A \X R |-> ParseEntry(p[1], p[2])]
           op(raw, es) == ParseEntry(es, raw)
           Eq(f) == f = [t \in SUBSET DOMAIN raws |->
                           IF t = {} THEN <<>> ELSE op(raws[Max(t)], f[t \ {Max(t)}])]
           g == CHOOSE f : Eq(f)
<1>1. FoldLeft(ParseEntry, <<>>, raws) = g[DOMAIN raws]
  BY Zenon DEF FoldLeft, MapThenFoldSet
<1>2. F \in [A \X R -> A]
  OBVIOUS
<1>3. \A es \in A, raw \in R : F[<<es, raw>>] = op(raw, es)
  OBVIOUS
<1> DEFINE base == <<>>
<1>4. base \in A /\ base = <<>>
  OBVIOUS
<1> HIDE DEF F, op, base
<1>5. PICK h : Framed(h, F, base, raws, A, R)
  BY <1>2, <1>4, FoldFrame
<1>6. Eq(h)
  BY <1>3, <1>5, <1>4 DEF Framed
<1>7. Eq(g)
  <2> HIDE DEF Eq
  <2> QED BY <1>6, Zenon
<1>8. \A t \in SUBSET DOMAIN raws :
        g[t] = IF t = {} THEN <<>> ELSE op(raws[Max(t)], g[t \ {Max(t)}])
  <2> HIDE DEF g
  <2> QED BY <1>7
<1> HIDE DEF g
<1>9. Solves(g, F, base, raws, A, R)
  BY <1>3, <1>8, <1>4 DEF Solves
<1>10. RunsThrough(g, F, base, raws, A)
  BY <1>2, <1>9, <1>4, FoldTrace
<1>11. PICK a : Trace(a, F, base, raws, A) /\ g[DOMAIN raws] = a[Len(raws)]
  BY <1>10, Zenon DEF RunsThrough
<1>12. Len(raws) \in 0..Len(raws)
  OBVIOUS
<1> QED BY <1>1, <1>11, <1>12 DEF Trace

\* The values of the loop over the entries that point to files.
Pointed(loaded, es, files, e) ==
  IF e.enabled /\ \E f \in ToSet(files) : f.path = e.path
  THEN Admit(es, loaded, CHOOSE f \in ToSet(files) : f.path = e.path, e.config)
  ELSE loaded

RunsExplicit(a, A, es, files) ==
  /\ a \in [0..Len(es) -> A]
  /\ a[0] = <<>> /\ a[Len(es)] = Explicit(es, files)
  /\ \A i \in 1..Len(es) : a[i] = Pointed(a[i - 1], es, files, es[i])

LEMMA ExplicitTrace ==
  ASSUME NEW A, NEW K, <<>> \in A, NEW es \in Seq(K), NEW files,
         \A loaded \in A, e \in K : Pointed(loaded, es, files, e) \in A
  PROVE  \E a : RunsExplicit(a, A, es, files)
<1> DEFINE F == [p \in A \X K |-> Pointed(p[1], es, files, p[2])]
           op(e, loaded) == Pointed(loaded, es, files, e)
           Eq(f) == f = [t \in SUBSET DOMAIN es |->
                           IF t = {} THEN <<>> ELSE op(es[Max(t)], f[t \ {Max(t)}])]
           g == CHOOSE f : Eq(f)
           base == <<>>
<1>1. Explicit(es, files) = g[DOMAIN es]
  BY Zenon DEF Explicit, FoldLeft, MapThenFoldSet, Pointed
<1>2. F \in [A \X K -> A]
  OBVIOUS
<1>3. \A loaded \in A, e \in K : F[<<loaded, e>>] = op(e, loaded)
  OBVIOUS
<1>4. base \in A /\ base = <<>>
  OBVIOUS
<1> HIDE DEF F, op, base
<1>5. PICK h : Framed(h, F, base, es, A, K)
  BY <1>2, <1>4, FoldFrame
<1>6. Eq(h)
  BY <1>3, <1>4, <1>5 DEF Framed
<1>7. Eq(g)
  <2> HIDE DEF Eq
  <2> QED BY <1>6, Zenon
<1>8. \A t \in SUBSET DOMAIN es :
        g[t] = IF t = {} THEN <<>> ELSE op(es[Max(t)], g[t \ {Max(t)}])
  <2> HIDE DEF g
  <2> QED BY <1>7
<1> HIDE DEF g
<1>9. Solves(g, F, base, es, A, K)
  BY <1>3, <1>4, <1>8 DEF Solves
<1>10. RunsThrough(g, F, base, es, A)
  BY <1>2, <1>4, <1>9, FoldTrace
<1>11. PICK a : Trace(a, F, base, es, A) /\ g[DOMAIN es] = a[Len(es)]
  BY <1>10, Zenon DEF RunsThrough
<1>12. ASSUME NEW i \in 1..Len(es) PROVE a[i] = Pointed(a[i - 1], es, files, es[i])
  <2>1. i - 1 \in 0..Len(es) /\ es[i] \in K
    OBVIOUS
  <2> QED BY <1>3, <1>11, <2>1 DEF Trace, op
<1> QED BY <1>1, <1>4, <1>11, <1>12 DEF Trace, RunsExplicit

\* The values of the loop over the files that are scanned.
Found(loaded, es, f) ==
  IF f.scanned THEN Admit(es, loaded, f, StemConfig(es, f.stem)) ELSE loaded

RunsDiscover(a, A, es, files) ==
  /\ a \in [0..Len(files) -> A]
  /\ a[0] = Explicit(es, files) /\ a[Len(files)] = Discover(es, files)
  /\ \A i \in 1..Len(files) : a[i] = Found(a[i - 1], es, files[i])

LEMMA DiscoverTrace ==
  ASSUME NEW A, NEW K, NEW es, NEW files \in Seq(K), Explicit(es, files) \in A,
         \A loaded \in A, f \in K : Found(loaded, es, f) \in A
  PROVE  \E a : RunsDiscover(a, A, es, files)
<1> DEFINE F == [p \in A \X K |-> Found(p[1], es, p[2])]
           op(f, loaded) == Found(loaded, es, f)
           Eq(f) == f = [t \in SUBSET DOMAIN files |->
                           IF t = {} THEN Explicit(es, files)
                           ELSE op(files[Max(t)], f[t \ {Max(t)}])]
           g == CHOOSE f : Eq(f)
           base == Explicit(es, files)
<1>1. Discover(es, files) = g[DOMAIN files]
  BY Zenon DEF Discover, FoldLeft, MapThenFoldSet, Found
<1>2. F \in [A \X K -> A]
  OBVIOUS
<1>3. \A loaded \in A, f \in K : F[<<loaded, f>>] = op(f, loaded)
  OBVIOUS
<1>4. base \in A /\ base = Explicit(es, files)
  OBVIOUS
<1> HIDE DEF F, op, base
<1>5. PICK h : Framed(h, F, base, files, A, K)
  BY <1>2, <1>4, FoldFrame
<1>6. Eq(h)
  BY <1>3, <1>4, <1>5 DEF Framed
<1>7. Eq(g)
  <2> HIDE DEF Eq
  <2> QED BY <1>6, Zenon
<1>8. \A t \in SUBSET DOMAIN files :
        g[t] = IF t = {} THEN Explicit(es, files) ELSE op(files[Max(t)], g[t \ {Max(t)}])
  <2> HIDE DEF g
  <2> QED BY <1>7
<1> HIDE DEF g
<1>9. Solves(g, F, base, files, A, K)
  BY <1>3, <1>4, <1>8 DEF Solves
<1>10. RunsThrough(g, F, base, files, A)
  BY <1>2, <1>4, <1>9, FoldTrace
<1>11. PICK a : Trace(a, F, base, files, A) /\ g[DOMAIN files] = a[Len(files)]
  BY <1>10, Zenon DEF RunsThrough
<1>12. ASSUME NEW i \in 1..Len(files) PROVE a[i] = Found(a[i - 1], es, files[i])
  <2>1. i - 1 \in 0..Len(files) /\ files[i] \in K
    OBVIOUS
  <2> QED BY <1>3, <1>11, <2>1 DEF Trace, op
<1> QED BY <1>1, <1>4, <1>11, <1>12 DEF Trace, RunsDiscover

-----------------------------------------------------------------------------
(* What is loaded.                                                         *)

Usable(es, f) == Loads(f) /\ f.name \notin Disabled(es)
Points(e, f) == e.enabled /\ e.path = f.path
Taken(loaded, name) == \E i \in DOMAIN loaded : loaded[i].file.name = name
Distinct(loaded) ==
  \A i, j \in DOMAIN loaded : loaded[i].file.name = loaded[j].file.name => i = j

\* A file is added at the end, if it may be and its name is free.
LEMMA AdmitDoes ==
  ASSUME NEW es, NEW C, NEW loaded \in Seq(C), Distinct(loaded), NEW file, NEW config,
         [file |-> file, config |-> config] \in C
  PROVE  LET new == Admit(es, loaded, file, config) IN
         /\ new \in Seq(C) /\ Distinct(new)
         /\ \A name : Taken(loaded, name) => Taken(new, name)
         /\ Usable(es, file) => Taken(new, file.name)
         /\ \A i \in DOMAIN new :
              \/ i \in DOMAIN loaded /\ new[i] = loaded[i]
              \/ /\ new[i] = [file |-> file, config |-> config]
                 /\ Usable(es, file) /\ ~Taken(loaded, file.name)
<1> DEFINE new == Admit(es, loaded, file, config)
           c == [file |-> file, config |-> config]
           n == Len(loaded)
<1>1. CASE ~Usable(es, file) \/ Taken(loaded, file.name)
  <2>1. new = loaded
    BY <1>1 DEF Admit, Usable, Taken
  <2> QED BY <1>1, <2>1
<1>2. CASE Usable(es, file) /\ ~Taken(loaded, file.name)
  <2>1. new = Append(loaded, c)
    BY <1>2 DEF Admit, Usable, Taken
  <2>2. c.file = file
    OBVIOUS
  <2> HIDE DEF c, new
  <2>3. /\ new \in Seq(C) /\ DOMAIN new = 1..(n + 1) /\ new[n + 1] = c
        /\ DOMAIN loaded = 1..n /\ n \in Nat /\ \A i \in 1..n : new[i] = loaded[i]
    BY <2>1 DEF c
  <2> HIDE DEF n
  <2>4. \A i \in DOMAIN new : i = n + 1 \/ i \in DOMAIN loaded
    BY <2>3
  <2>5. ASSUME NEW i \in DOMAIN new, NEW j \in DOMAIN new, new[i].file.name = new[j].file.name
        PROVE  i = j
    <3>1. CASE i \in DOMAIN loaded /\ j \in DOMAIN loaded
      BY <2>3, <2>5, <3>1 DEF Distinct
    <3>2. CASE i = n + 1
      BY <1>2, <2>2, <2>3, <2>4, <2>5, <3>2 DEF Taken
    <3>3. CASE j = n + 1
      BY <1>2, <2>2, <2>3, <2>4, <2>5, <3>3 DEF Taken
    <3> QED BY <2>4, <3>1, <3>2, <3>3
  <2>6. Taken(new, file.name) /\ \A name : Taken(loaded, name) => Taken(new, name)
    <3>1. n + 1 \in DOMAIN new /\ \A i \in DOMAIN loaded : i \in DOMAIN new
      BY <2>3
    <3> QED BY <2>2, <2>3, <3>1 DEF Taken
  <2>7. ASSUME NEW i \in DOMAIN new
        PROVE  \/ i \in DOMAIN loaded /\ new[i] = loaded[i]
               \/ new[i] = c
    BY <2>3, <2>4
  <2> QED BY <1>2, <2>3, <2>5, <2>6, <2>7 DEF Distinct, c, new
<1> QED BY <1>1, <1>2

Candidates(es, files) ==
  [file : ToSet(files),
   config : {e.config : e \in ToSet(es)} \cup {StemConfig(es, f.stem) : f \in ToSet(files)}]

\* What both loops keep: of each name one candidate, which may be loaded.
Sound(loaded, es, files) ==
  /\ loaded \in Seq(Candidates(es, files)) /\ Distinct(loaded)
  /\ \A i \in DOMAIN loaded : Usable(es, loaded[i].file)

\* Loaded for an entry.
ForEntry(es, l) == \E k \in DOMAIN es : Points(es[k], l.file) /\ es[k].config = l.config

OnePath(files) ==
  /\ files \in Seq(ToSet(files))
  /\ \A i, j \in DOMAIN files : files[i].path = files[j].path => i = j

\* After the first loop: what entries point to, and nothing else.
LEMMA ExplicitLoads ==
  ASSUME NEW es, es \in Seq(ToSet(es)), NEW files, OnePath(files)
  PROVE  LET loaded == Explicit(es, files) IN
         /\ Sound(loaded, es, files)
         /\ \A i \in DOMAIN loaded : ForEntry(es, loaded[i])
         /\ \A k \in DOMAIN es, f \in ToSet(files) :
              Points(es[k], f) /\ Usable(es, f) => Taken(loaded, f.name)
<1> DEFINE C == Candidates(es, files)
           A == {loaded \in Seq(C) : Distinct(loaded)}
           n == Len(es)
<1>1. \A f, g \in ToSet(files) : f.path = g.path => f = g
  BY DEF OnePath, ToSet
<1>2. <<>> \in A
  BY DEF Distinct
<1>3. DOMAIN es = 1..n /\ n \in Nat /\ \A k \in 1..n : es[k] \in ToSet(es)
  OBVIOUS
<1>4. ASSUME NEW e \in ToSet(es), NEW f \in ToSet(files)
      PROVE  [file |-> f, config |-> e.config] \in C
  BY DEF Candidates
<1> HIDE DEF n, C
<1> DEFINE Pass(loaded, e, new) ==
      /\ new \in A
      /\ \A name : Taken(loaded, name) => Taken(new, name)
      /\ \A f \in ToSet(files) : Points(e, f) /\ Usable(es, f) => Taken(new, f.name)
      /\ \A i \in DOMAIN new :
           \/ i \in DOMAIN loaded /\ new[i] = loaded[i]
           \/ Usable(es, new[i].file) /\ Points(e, new[i].file) /\ new[i].config = e.config
<1>5. ASSUME NEW loaded \in A, NEW e \in ToSet(es)
      PROVE  Pass(loaded, e, Pointed(loaded, es, files, e))
  <2>1. CASE ~(e.enabled /\ \E f \in ToSet(files) : f.path = e.path)
    <3>1. Pointed(loaded, es, files, e) = loaded
      BY <2>1 DEF Pointed
    <3> QED BY <2>1, <3>1 DEF Points
  <2>2. CASE e.enabled /\ \E f \in ToSet(files) : f.path = e.path
    <3> DEFINE g == CHOOSE f \in ToSet(files) : f.path = e.path
    <3>1. g \in ToSet(files) /\ g.path = e.path
      BY <2>2
    <3>2. \A f \in ToSet(files) : Points(e, f) => f = g
      BY <1>1, <3>1 DEF Points
    <3>3. Pointed(loaded, es, files, e) = Admit(es, loaded, g, e.config)
      BY <2>2 DEF Pointed
    <3>4. Points(e, g)
      BY <2>2, <3>1 DEF Points
    <3> HIDE DEF g
    <3>5. [file |-> g, config |-> e.config] \in C
      BY <1>4, <3>1
    <3>6. LET new == Admit(es, loaded, g, e.config) IN
          /\ new \in Seq(C) /\ Distinct(new)
          /\ \A name : Taken(loaded, name) => Taken(new, name)
          /\ Usable(es, g) => Taken(new, g.name)
          /\ \A i \in DOMAIN new :
               \/ i \in DOMAIN loaded /\ new[i] = loaded[i]
               \/ /\ new[i] = [file |-> g, config |-> e.config]
                  /\ Usable(es, g) /\ ~Taken(loaded, g.name)
      BY <3>5, AdmitDoes
    <3> QED BY <3>2, <3>3, <3>4, <3>6
  <2> QED BY <2>1, <2>2
<1>6. PICK a : RunsExplicit(a, A, es, files)
  <2>1. \A loaded \in A, e \in ToSet(es) : Pointed(loaded, es, files, e) \in A
    BY <1>5
  <2> HIDE DEF A
  <2> QED BY <1>2, <2>1, ExplicitTrace
<1> DEFINE Good(m) ==
      /\ \A i \in DOMAIN a[m] : Usable(es, a[m][i].file) /\ ForEntry(es, a[m][i])
      /\ \A k \in 1..m, f \in ToSet(files) :
           Points(es[k], f) /\ Usable(es, f) => Taken(a[m], f.name)
<1> DEFINE S == {m \in Nat : m =< n => Good(m)}
<1>12. /\ a \in [0..n -> A] /\ a[0] = <<>> /\ a[n] = Explicit(es, files)
       /\ \A i \in 1..n : a[i] = Pointed(a[i - 1], es, files, es[i])
  BY <1>6 DEF RunsExplicit, n
<1>7. 0 \in S
  BY <1>12
<1>8. ASSUME NEW m \in Nat, m \in S PROVE m + 1 \in S
  <2> SUFFICES ASSUME m + 1 =< n PROVE Good(m + 1)
    OBVIOUS
  <2>1. Good(m)
    BY <1>3, <1>8
  <2>2. m + 1 \in 1..n /\ m \in 0..n /\ (m + 1) - 1 = m /\ m + 1 \in DOMAIN es
    BY <1>3
  <2>3. a[m] \in A /\ a[m + 1] = Pointed(a[m], es, files, es[m + 1]) /\ es[m + 1] \in ToSet(es)
    BY <1>3, <1>12, <2>2
  <2>7. Pass(a[m], es[m + 1], a[m + 1])
    <3> HIDE DEF Pass
    <3> QED BY <1>5, <2>3
  <2>4. \A i \in DOMAIN a[m + 1] :
          Usable(es, a[m + 1][i].file) /\ ForEntry(es, a[m + 1][i])
    <3> SUFFICES ASSUME NEW i \in DOMAIN a[m + 1]
                 PROVE  Usable(es, a[m + 1][i].file) /\ ForEntry(es, a[m + 1][i])
      OBVIOUS
    <3>1. \/ i \in DOMAIN a[m] /\ a[m + 1][i] = a[m][i]
          \/ /\ Usable(es, a[m + 1][i].file) /\ Points(es[m + 1], a[m + 1][i].file)
             /\ a[m + 1][i].config = es[m + 1].config
      BY <2>7
    <3> QED BY <2>1, <2>2, <3>1 DEF ForEntry
  <2>5. \A k \in 1..(m + 1) : k \in 1..m \/ k = m + 1
    BY <2>2
  <2>6. \A k \in 1..(m + 1), f \in ToSet(files) :
          Points(es[k], f) /\ Usable(es, f) => Taken(a[m + 1], f.name)
    BY <2>1, <2>5, <2>7
  <2> QED BY <2>4, <2>6
<1>9. n \in S
  <2> HIDE DEF S
  <2> QED BY <1>3, <1>7, <1>8, NatSet
<1>10. Good(n)
  BY <1>3, <1>9
<1>11. a[n] = Explicit(es, files) /\ a[n] \in A
  BY <1>3, <1>12
<1> QED BY <1>3, <1>10, <1>11 DEF Sound, C

\* The second loop leaves what the first one has loaded, and takes no name of a file
\* that an entry points to.
LEMMA DiscoverLoads ==
  ASSUME NEW es, es \in Seq(ToSet(es)), NEW files, OnePath(files)
  PROVE  /\ Sound(Discover(es, files), es, files)
         /\ PluginsAsDeclared(es, files, Discover(es, files))
<1> DEFINE C == Candidates(es, files)
           A == {loaded \in Seq(C) : Distinct(loaded)}
           n == Len(files)
           base == Explicit(es, files)
           PointedTo(f) == \E k \in DOMAIN es : Points(es[k], f)
           \* l is the candidate for its name: none that an entry points to is passed over.
           Right(l) ==
             ForEntry(es, l) \/ \A f \in ToSet(files) :
                                  PointedTo(f) /\ Usable(es, f) => f.name # l.file.name
           Pass(loaded, f, new) ==
             /\ new \in A
             /\ \A name : Taken(loaded, name) => Taken(new, name)
             /\ f.scanned /\ Usable(es, f) => Taken(new, f.name)
             /\ \A i \in DOMAIN new :
                  \/ i \in DOMAIN loaded /\ new[i] = loaded[i]
                  \/ Usable(es, new[i].file) /\ ~Taken(loaded, new[i].file.name)
<1>1. /\ Sound(base, es, files)
      /\ \A i \in DOMAIN base : ForEntry(es, base[i])
      /\ \A f \in ToSet(files) : PointedTo(f) /\ Usable(es, f) => Taken(base, f.name)
  BY ExplicitLoads
<1>2. base \in A
  BY <1>1 DEF Sound
<1>3. /\ files \in Seq(ToSet(files)) /\ DOMAIN files = 1..n /\ n \in Nat
      /\ \A k \in 1..n : files[k] \in ToSet(files)
  BY DEF OnePath
<1>4. ASSUME NEW f \in ToSet(files)
      PROVE  [file |-> f, config |-> StemConfig(es, f.stem)] \in C
  BY DEF Candidates
<1>5. ASSUME NEW f \in ToSet(files), NEW loaded \in A
      PROVE  Pass(loaded, f, Found(loaded, es, f))
  <2> HIDE DEF C
  <2>1. CASE ~f.scanned
    BY <2>1 DEF Found
  <2>2. CASE f.scanned
    <3> DEFINE config == StemConfig(es, f.stem)
    <3>1. Found(loaded, es, f) = Admit(es, loaded, f, config)
      BY <2>2 DEF Found
    <3>2. [file |-> f, config |-> config] \in C
      BY <1>4
    <3> HIDE DEF config
    <3>3. LET new == Admit(es, loaded, f, config) IN
          /\ new \in Seq(C) /\ Distinct(new)
          /\ \A name : Taken(loaded, name) => Taken(new, name)
          /\ Usable(es, f) => Taken(new, f.name)
          /\ \A i \in DOMAIN new :
               \/ i \in DOMAIN loaded /\ new[i] = loaded[i]
               \/ /\ new[i] = [file |-> f, config |-> config]
                  /\ Usable(es, f) /\ ~Taken(loaded, f.name)
      BY <3>2, AdmitDoes
    <3> QED BY <3>1, <3>3
  <2> QED BY <2>1, <2>2
<1>6. PICK a : RunsDiscover(a, A, es, files)
  <2>1. \A loaded \in A, f \in ToSet(files) : Found(loaded, es, f) \in A
    BY <1>5
  <2> HIDE DEF A
  <2> QED BY <1>2, <1>3, <2>1, DiscoverTrace
<1> DEFINE Good(m) ==
      /\ \A i \in DOMAIN a[m] : Usable(es, a[m][i].file) /\ Right(a[m][i])
      /\ \A f \in ToSet(files) : PointedTo(f) /\ Usable(es, f) => Taken(a[m], f.name)
      /\ \A k \in 1..m : files[k].scanned /\ Usable(es, files[k]) => Taken(a[m], files[k].name)
<1> DEFINE S == {m \in Nat : m =< n => Good(m)}
<1>7. /\ a \in [0..n -> A] /\ a[0] = base /\ a[n] = Discover(es, files)
      /\ \A i \in 1..n : a[i] = Found(a[i - 1], es, files[i])
  BY <1>6 DEF RunsDiscover
<1> HIDE DEF n, C, base, A
<1>8. 0 \in S
  BY <1>1, <1>7 DEF Sound
<1>9. ASSUME NEW m \in Nat, m \in S PROVE m + 1 \in S
  <2> SUFFICES ASSUME m + 1 =< n PROVE Good(m + 1)
    OBVIOUS
  <2>1. Good(m)
    BY <1>3, <1>9
  <2>2. m + 1 \in 1..n /\ m \in 0..n /\ (m + 1) - 1 = m
    BY <1>3
  <2>3. /\ a[m] \in A /\ files[m + 1] \in ToSet(files)
        /\ a[m + 1] = Found(a[m], es, files[m + 1])
    BY <1>3, <1>7, <2>2
  <2>4. Pass(a[m], files[m + 1], a[m + 1])
    <3> HIDE DEF Pass
    <3> QED BY <1>5, <2>3
  <2>5. ASSUME NEW i \in DOMAIN a[m + 1]
        PROVE  Usable(es, a[m + 1][i].file) /\ Right(a[m + 1][i])
    <3>1. CASE i \in DOMAIN a[m] /\ a[m + 1][i] = a[m][i]
      <4> HIDE DEF Right, Pass
      <4> QED BY <2>1, <3>1
    <3>2. CASE Usable(es, a[m + 1][i].file) /\ ~Taken(a[m], a[m + 1][i].file.name)
      BY <2>1, <3>2
    <3> QED BY <2>4, <3>1, <3>2
  <2>6. \A k \in 1..(m + 1) : k \in 1..m \/ k = m + 1
    BY <2>2
  <2> QED BY <2>1, <2>4, <2>5, <2>6
<1>10. Good(n)
  <2>1. n \in S
    <3> HIDE DEF S
    <3> QED BY <1>3, <1>8, <1>9, NatSet
  <2> QED BY <1>3, <2>1
<1> DEFINE loaded == a[n]
<1>11. loaded \in Seq(C) /\ Distinct(loaded) /\ loaded = Discover(es, files)
  BY <1>3, <1>7 DEF A
<1>12. Sound(loaded, es, files)
  BY <1>10, <1>11 DEF Sound, C
<1>13. \A i \in DOMAIN loaded : loaded[i].file \in ToSet(files)
  <2>1. \A c \in C : c.file \in ToSet(files)
    BY DEF C, Candidates
  <2>2. \A i \in DOMAIN loaded : loaded[i] \in C
    BY <1>11
  <2> QED BY <2>1, <2>2
<1>14. PluginsAsDeclared(es, files, loaded)
  <2> DEFINE usable == {f \in ToSet(files) : Usable(es, f)}
             pointed == {f \in usable : PointedTo(f)}
  <2>1. {loaded[i].file : i \in DOMAIN loaded} \subseteq usable
    BY <1>10, <1>13
  <2>2. ASSUME NEW f \in usable, f \in pointed \/ f.scanned
        PROVE  \E i \in DOMAIN loaded : loaded[i].file.name = f.name
    <3>1. CASE f \in pointed
      BY <1>10, <3>1 DEF Taken
    <3>2. CASE f.scanned
      <4>1. PICK k \in 1..n : files[k] = f
        BY <1>3 DEF ToSet
      <4> QED BY <1>10, <3>2, <4>1 DEF Taken
    <3> QED BY <2>2, <3>1, <3>2
  <2>3. ASSUME NEW i \in DOMAIN loaded, NEW f \in pointed, f.name = loaded[i].file.name
        PROVE  /\ loaded[i].file \in pointed
               /\ \E k \in DOMAIN es :
                    /\ es[k].enabled /\ es[k].path = loaded[i].file.path
                    /\ es[k].config = loaded[i].config
    <3>1. ForEntry(es, loaded[i])
      BY <1>10, <2>3
    <3> QED BY <1>10, <1>13, <3>1 DEF ForEntry, Points
  <2>4. usable = {f \in ToSet(files) : Loads(f) /\ f.name \notin Disabled(es)}
    BY DEF Usable
  <2>5. pointed = {f \in usable : \E k \in DOMAIN es : es[k].enabled /\ es[k].path = f.path}
    BY DEF Points
  <2> HIDE DEF usable, pointed
  <2> QED BY <1>11, <2>1, <2>2, <2>3, <2>4, <2>5 DEF PluginsAsDeclared, Distinct
<1> QED BY <1>11, <1>12, <1>14

\* What ossia.json declares is a list of entries, and nothing when it is not there.
LEMMA EntriesType ==
  ASSUME NEW documents \in Document
  PROVE  LoadConfig(documents) \in Seq(ToSet(LoadConfig(documents)))
<1>1. \A E : \A s \in Seq(E) : s \in Seq(ToSet(s))
  BY DEF ToSet
<1>2. <<>> \in Seq(ToSet(<<>>))
  OBVIOUS
<1> DEFINE there == {i \in 1..Len(documents) : documents[i].form # "absent"}
           first == SelectInSeq(documents, LAMBDA d : d.form # "absent")
<1>3. first = IF there # {} THEN Min(there) ELSE 0
  BY DEF SelectInSeq
<1>4. CASE first = 0 \/ documents[first].form = "invalid"
  <2>1. LoadConfig(documents) = <<>>
    BY <1>4 DEF LoadConfig
  <2> QED BY <1>2, <2>1
<1>5. CASE ~(first = 0 \/ documents[first].form = "invalid")
  <2>1. documents \in Seq(ToSet(documents)) /\ Len(documents) \in Nat
    BY FilesAssumption
  <2>2. first \in there
    <3>1. there # {} /\ there \in SUBSET (0..Len(documents))
      BY <1>3, <1>5, <2>1
    <3> HIDE DEF there
    <3>2. Min(there) \in there
      BY <2>1, <3>1, MinOf
    <3> QED BY <1>3, <3>1, <3>2
  <2> DEFINE raws == documents[first].entries
             R == ToSet(raws)
             Bare(raw) == Entry(raw.name, None, TRUE, None)
             Full(raw) == Entry(raw.name, raw.path, raw.enabled # "false", raw.config)
             E == {Bare(raw) : raw \in R} \cup {Full(raw) : raw \in R}
             A == Seq(E)
  <2>3. raws \in Seq(R)
    <3>1. documents[first] \in ToSet(documents)
      BY <2>1, <2>2
    <3>2. documents[first].form \notin {"absent", "invalid"}
      BY <1>5, <2>2
    <3> HIDE DEF first
    <3> QED BY <3>1, <3>2, FilesAssumption
  <2>4. LoadConfig(documents) = FoldLeft(ParseEntry, <<>>, raws)
    BY <1>5 DEF LoadConfig
  <2> HIDE DEF raws
  <2>5. ASSUME NEW es \in A, NEW raw \in R PROVE ParseEntry(es, raw) \in A
    <3>1. Bare(raw) \in E /\ Full(raw) \in E
      OBVIOUS
    <3>2. ParseEntry(es, raw) \in {es, Append(es, Bare(raw)), Append(es, Full(raw))}
      <4> DEFINE named == raw.form = "name"
                 object == raw.form = "object" /\ raw.name # ""
      <4>1. CASE named
        BY <4>1 DEF ParseEntry
      <4>2. CASE ~named /\ object
        BY <4>2 DEF ParseEntry
      <4>3. CASE ~named /\ ~object
        BY <4>3 DEF ParseEntry
      <4> QED BY <4>1, <4>2, <4>3
    <3> HIDE DEF E, Bare, Full
    <3> QED BY <3>1, <3>2
  <2>6. FoldLeft(ParseEntry, <<>>, raws) \in A
    <3>1. <<>> \in A
      OBVIOUS
    <3> HIDE DEF A
    <3> QED BY <2>3, <2>5, <3>1, ParseKeeps
  <2> QED BY <1>1, <2>4, <2>6
<1> QED BY <1>4, <1>5

-----------------------------------------------------------------------------
(* What the tools answer.                                                  *)

\* In every state of the services, a tool answers as itself or raises.
Fine(answer) == answer \in AnswerSet /\ Named(answer) /\ (answer.raised => answer = Raised)

LEMMA AnswerFine ==
  ASSUME NEW says \in {"tavily", "duckduckgo", "github", "local", "kb", "memory", "threads",
                       "browser"},
         NEW from \in {"", "page", says}, NEW holds \in BOOLEAN,
         from = "page" => says = "duckduckgo"
  PROVE  Fine(Answer(says, from, holds))
<1> DEFINE answer == [says |-> says, from |-> from, holds |-> holds, raised |-> FALSE]
<1>1. answer \in AnswerSet
  <2>1. from \in {"", "tavily", "duckduckgo", "page", "github", "local", "kb", "memory",
                  "threads", "browser"}
    OBVIOUS
  <2> QED BY <2>1 DEF AnswerSet
<1>2. answer.raised = FALSE /\ answer.says = says /\ answer.from = from
  OBVIOUS
<1>3. Answer(says, from, holds) = answer
  BY DEF Answer
<1> HIDE DEF answer
<1>4. Named(answer)
  BY <1>2 DEF Named
<1> QED BY <1>1, <1>2, <1>3, <1>4 DEF Fine

LEMMA RaisedFine == Fine(Raised) /\ Raised.raised /\ ~Raised.holds
BY DEF Fine, Raised, AnswerSet, Named

LEMMA ToldFine ==
  ASSUME NEW name \in {"github", "local", "memory", "threads", "browser"}, NEW w \in World
  PROVE  Fine(Told(name, w))
<1>1. w.valid \in BOOLEAN
  BY DEF World
<1>2. CASE w.service \in {"up", "empty"}
  BY <1>1, <1>2, AnswerFine DEF Told
<1>3. CASE w.service \notin {"up", "empty"}
  BY <1>1, <1>3, AnswerFine DEF Told
<1> QED BY <1>2, <1>3

LEMMA DdgFine == ASSUME NEW w \in World PROVE Fine(DdgAnswer(w))
BY AnswerFine DEF DdgAnswer

LEMMA ToolFine ==
  ASSUME NEW t \in Tools, NEW w \in World
  PROVE  Fine(AnswerOf(t, w))
<1>1. w.question \in BOOLEAN /\ w.valid \in BOOLEAN
  BY DEF World
<1>2. Fine(DdgAnswer(w)) /\ Fine(Raised)
  BY DdgFine, RaisedFine
<1>3. \A name \in {"github", "local", "memory", "threads", "browser"} : Fine(Told(name, w))
  BY ToldFine
<1>4. /\ Fine(Answer("tavily", "tavily", w.tavily = "up"))
      /\ Fine(Answer("tavily", "tavily", w.tavily # "empty"))
  BY AnswerFine
<1>5. Fine(Answer("local", "local", TRUE)) /\ Fine(Answer("local", "local", w.valid))
  BY <1>1, AnswerFine
<1>6. CASE t = "internet_search"
  <2>1. AnswerOf(t, w) = InternetSearch(w)
    BY <1>6 DEF AnswerOf
  <2> QED BY <1>2, <1>4, <2>1 DEF InternetSearch, TavilyFirst
<1>7. CASE t = "qna_search"
  <2>1. AnswerOf(t, w) = QnaSearch(w)
    BY <1>7 DEF AnswerOf
  <2> QED BY <1>2, <1>4, <2>1 DEF QnaSearch, TavilyFirst
<1>8. CASE t = "fetch_url"
  <2>1. AnswerOf(t, w) = FetchUrl(w)
    BY <1>8 DEF AnswerOf
  <2>2. /\ Fine(Answer("duckduckgo", "", FALSE))
        /\ Fine(Answer("duckduckgo", "page", TRUE)) /\ Fine(Answer("duckduckgo", "", TRUE))
    BY AnswerFine
  <2>3. Fine(PageAnswer(w))
    BY <2>2 DEF PageAnswer
  <2> QED BY <1>2, <1>4, <2>1, <2>2, <2>3 DEF FetchUrl, TavilyFirst
<1>9. CASE t = "fetch_issue"
  <2>1. AnswerOf(t, w) = FetchIssue(w)
    BY <1>9 DEF AnswerOf
  <2>2. Fine(Answer("github", "github", TRUE)) /\ Fine(Answer("github", "", TRUE))
    BY AnswerFine
  <2> QED BY <1>2, <2>1, <2>2 DEF FetchIssue
<1>10. CASE t \in {"create_pr", "search_codebase", "search_memory", "recall_thread_turns",
                   "search_threads", "semantic_recall"}
  <2>1. AnswerOf(t, w) \in {Raised, Told("github", w), Told("local", w), Told("memory", w),
                            Told("threads", w)}
    BY <1>10 DEF AnswerOf, CreatePr, SearchCodebase, SearchMemory, RecallThreadTurns,
                 SearchThreads, SemanticRecall
  <2> QED BY <1>2, <1>3, <2>1
<1>11. CASE t = "add_memory"
  <2>1. AnswerOf(t, w) = AddMemory(w)
    BY <1>11 DEF AnswerOf
  <2>2. [w EXCEPT !.service = "up"] \in World
    BY DEF World
  <2>3. Fine(Told("memory", w)) /\ Fine(Told("memory", [w EXCEPT !.service = "up"]))
    BY <2>2, ToldFine
  <2> QED BY <2>1, <2>3 DEF AddMemory
<1>12. CASE t = "search_knowledge_base"
  <2>1. AnswerOf(t, w) = SearchKnowledgeBase(w)
    BY <1>12 DEF AnswerOf
  <2>2. Fine(Answer("kb", "kb", TRUE))
    BY AnswerFine
  <2> QED BY <1>2, <2>1, <2>2 DEF SearchKnowledgeBase
<1>13. CASE t = "browser_use_task"
  <2>1. AnswerOf(t, w) = BrowserUseTask(w)
    BY <1>13 DEF AnswerOf
  <2>2. Fine(Answer("browser", "", TRUE))
    BY AnswerFine
  <2> QED BY <1>3, <2>1, <2>2 DEF BrowserUseTask
<1>14. CASE t \in {"run_tests", "propose_fix", "grade_response", "send_response",
                   "run_bugfix_pipeline", "run_audit_pipeline", "run_refactor_pipeline"}
  <2>1. AnswerOf(t, w) \in {Raised, Answer("local", "local", w.valid),
                            Answer("local", "local", TRUE)}
    BY <1>14 DEF AnswerOf, RunTests, ProposeFix, GradeResponse, SendResponse, Pipeline
  <2> QED BY <1>2, <1>5, <2>1
<1> QED
  BY <1>6, <1>7, <1>8, <1>9, <1>10, <1>11, <1>12, <1>13, <1>14 DEF Tools, MemoryTools

\* What the knowledge base answers with a snapshot and without.
LEMMA KbFine ==
  ASSUME NEW kept \in BOOLEAN, NEW answer \in KbAnswers[kept]
  PROVE  /\ Fine(answer)
         /\ answer.says = "duckduckgo" => kept
         /\ answer.raised => ~kept
<1>1. PICK w \in World : /\ (w.snapshot # "unread") = kept
                         /\ answer = SearchKnowledgeBase(w)
  BY DEF KbAnswers
<1>2. Fine(answer)
  <2>1. "search_knowledge_base" \in Tools
    BY DEF Tools
  <2>2. AnswerOf("search_knowledge_base", w) = SearchKnowledgeBase(w)
    BY DEF AnswerOf
  <2> QED BY <1>1, <2>1, <2>2, ToolFine
<1>3. CASE w.service = "up" \/ w.snapshot = "hits"
  BY <1>1, <1>2, <1>3 DEF SearchKnowledgeBase, Answer
<1>4. CASE w.service # "up" /\ w.snapshot = "unread"
  BY <1>1, <1>2, <1>4 DEF SearchKnowledgeBase, Raised
<1>5. CASE w.service # "up" /\ w.snapshot = "nothing"
  BY <1>1, <1>2, <1>5 DEF SearchKnowledgeBase, DdgAnswer, Answer
<1>6. w.snapshot \in {"hits", "nothing", "unread"}
  BY DEF World
<1> QED BY <1>2, <1>3, <1>4, <1>5, <1>6

-----------------------------------------------------------------------------
(* What reaches a provider.                                                *)

\* What lies at the seam of two sequences.
LEMMA Seam ==
  ASSUME NEW S, NEW s \in Seq(S), NEW t \in Seq(S), Len(t) = 1
  PROVE  /\ s \o t \in Seq(S)
         /\ Len(s \o t) = Len(s) + 1
         /\ (s \o t)[Len(s) + 1] = t[1]
<1>1. /\ s \o t \in Seq(S) /\ Len(s \o t) = Len(s) + Len(t)
      /\ \A i \in 1..Len(s) + Len(t) :
           (s \o t)[i] = IF i =< Len(s) THEN s[i] ELSE t[i - Len(s)]
  BY ConcatProperties
<1>2. Len(s) \in Nat
  OBVIOUS
<1> QED BY <1>1, <1>2

\* The layer that binds the tools is among those a call passes, eager tools or not.
LEMMA PassesForce ==
  ASSUME flags \in [fallback : BOOLEAN, eager : BOOLEAN, review : BOOLEAN]
  PROVE  "ForceToolChoice" \in Passed
<1> DEFINE Name == {"ModelRetry", "ModelFallback", "ForceToolChoice", "Eager", "Plugin",
                    "CallerContext"}
<1> DEFINE fallback == IF flags.fallback THEN <<"ModelFallback">> ELSE <<>>
<1> DEFINE eager == IF flags.eager THEN <<"Eager">> ELSE <<>>
<1> DEFINE plugin == IF PluginLayer(plugins) THEN <<"Plugin">> ELSE <<>>
<1> DEFINE place == IF flags.fallback THEN 3 ELSE 2
<1>1. fallback \in Seq(Name) /\ eager \in Seq(Name) /\ plugin \in Seq(Name)
  <2>1. <<"ModelFallback">> \in Seq(Name) /\ <<"Eager">> \in Seq(Name)
        /\ <<"Plugin">> \in Seq(Name)
    OBVIOUS
  <2>2. <<>> \in Seq(Name)
    OBVIOUS
  <2> QED BY <2>1, <2>2
<1>2. /\ Len(fallback) = place - 2 /\ \A i \in 1..Len(fallback) : fallback[i] # "Eager"
      /\ Len(eager) = IF flags.eager THEN 1 ELSE 0
      /\ flags.eager => eager[1] = "Eager"
      /\ place \in {2, 3}
  OBVIOUS
<1>3. Layers = <<"ModelRetry">> \o fallback \o <<"ForceToolChoice">> \o eager \o plugin
               \o <<"CallerContext">>
  BY DEF Layers
<1> HIDE DEF fallback, eager, plugin, place
<1>4. Layers \in Seq(Name) /\ place \in 1..Len(Layers) /\ Layers[place] = "ForceToolChoice"
  BY <1>1, <1>2, <1>3
<1>5. \A i \in 1..place : Layers[i] # "Eager"
  BY <1>1, <1>2, <1>3
<1>6. CASE ~flags.eager
  BY <1>4, <1>6 DEF Passed, ToSet
<1>7. CASE flags.eager
  <2>1. place + 1 \in 1..Len(Layers) /\ Layers[place + 1] = "Eager"
    <3> DEFINE front == <<"ModelRetry">> \o fallback \o <<"ForceToolChoice">>
    <3>1. front \in Seq(Name) /\ Len(front) = place
      BY <1>1, <1>2
    <3>2. Layers = front \o eager \o plugin \o <<"CallerContext">>
      BY <1>3
    <3> HIDE DEF front
    <3>3. Len(eager) = 1 /\ eager[1] = "Eager" /\ place \in Nat
      BY <1>2, <1>7
    <3>4. /\ front \o eager \in Seq(Name)
          /\ Len(front \o eager) = Len(front) + 1
          /\ (front \o eager)[Len(front) + 1] = eager[1]
      <4> HIDE DEF Name
      <4> QED BY <1>1, <3>1, <3>3, Seam
    <3>5. Len(front \o eager) = place + 1 /\ (front \o eager)[place + 1] = "Eager"
      BY <3>1, <3>3, <3>4
    <3> QED BY <1>1, <3>2, <3>3, <3>4, <3>5
  <2>2. SelectInSeq(Layers, LAMBDA l : l = "Eager") = place + 1
    <3> DEFINE found == {i \in 1..Len(Layers) : Layers[i] = "Eager"}
    <3>1. /\ place + 1 \in found /\ \A i \in found : place + 1 =< i
          /\ found \in SUBSET (0..Len(Layers)) /\ Len(Layers) \in Nat
      BY <1>2, <1>4, <1>5, <2>1
    <3> HIDE DEF found
    <3>2. Min(found) \in found /\ \A i \in found : Min(found) =< i
      BY <3>1, MinOf
    <3>3. Min(found) = place + 1
      <4>1. place + 1 \in Nat /\ Min(found) \in Nat
        <5>1. place + 1 \in Nat
          BY <1>2
        <5>2. Min(found) \in 0..Len(Layers)
          BY <3>1, <3>2
        <5> QED BY <3>1, <5>1, <5>2
      <4>2. Min(found) =< place + 1 /\ place + 1 =< Min(found)
        BY <3>1, <3>2
      <4> QED BY <4>1, <4>2
    <3> QED BY <3>1, <3>3 DEF SelectInSeq, found
  <2>3. SubSeq(Layers, 1, place + 1)[place] = "ForceToolChoice"
        /\ place \in DOMAIN SubSeq(Layers, 1, place + 1)
    BY <1>4, <2>1
  <2> QED BY <1>7, <2>2, <2>3 DEF Passed, ToSet
<1> QED BY <1>6, <1>7

-----------------------------------------------------------------------------
(* Why the calls go out in that order.                                     *)

\* How many calls a round has made before its current one.
Before == (IF flags.fallback THEN 2 * (attempt - 1) ELSE attempt - 1)
          + (IF request.model = "fallback" THEN 1 ELSE 0)

\* A call in its place: the fallback answers those with an even number.
InPlace(fallback, i, call) ==
  /\ call.model = IF fallback /\ i % 2 = 0 THEN "fallback" ELSE "primary"
  /\ call.bound = 1

Requested ==
  /\ flags \in [fallback : BOOLEAN, eager : BOOLEAN, review : BOOLEAN]
  /\ attempt \in 1..MaxAttempts
  /\ request \in [model : {"primary", "fallback"}, bound : {0}, tools : {TRUE}]
  /\ request.model = "fallback" => flags.fallback

Counted ==
  /\ sent \in Seq(Call)
  /\ at = "call" => Len(sent) = Before
  /\ at = "stream" => Len(sent) = Before + 1
  /\ Len(sent) =< IF flags.fallback THEN 2 * MaxAttempts ELSE MaxAttempts

CallsInv ==
  Requested /\ Counted /\ \A i \in DOMAIN sent : InPlace(flags.fallback, i, sent[i])

\* The invariant says more than the property.
LEMMA CallsInvProviderCalls == CallsInv => ProviderCalls
<1> SUFFICES ASSUME CallsInv PROVE ProviderCalls
  OBVIOUS
<1>1. Len(sent) =< MaxAttempts * (IF flags.fallback THEN 2 ELSE 1)
  <2>1. CASE flags.fallback
    BY <2>1, BoundsAssumption DEF CallsInv, Counted
  <2>2. CASE ~flags.fallback
    BY <2>2, BoundsAssumption DEF CallsInv, Counted
  <2> QED BY <2>1, <2>2
<1> QED BY <1>1 DEF CallsInv, InPlace, ProviderCalls

\* What a request sends: one call of its model, with the tools bound once.
LEMMA ProviderCallBinds ==
  ASSUME Requested
  PROVE  /\ ProviderCall(request) \in Call
         /\ ProviderCall(request).model = request.model
         /\ ProviderCall(request).bound = 1
<1>1. "ForceToolChoice" \in Passed
  BY PassesForce DEF Requested
<1>2. request = [model |-> request.model, bound |-> 0, tools |-> TRUE]
  BY DEF Requested
<1> DEFINE bound == [request EXCEPT !.bound = @ + 1, !.tools = FALSE]
<1>3. bound.model = request.model /\ bound.bound = 1 /\ bound.tools = FALSE
  BY DEF Requested
<1>4. Enforce(request) = bound
  BY <1>1, <1>2 DEF Enforce
<1>5. ("CallerContext" \in Passed) \in BOOLEAN
  OBVIOUS
<1> HIDE DEF bound
<1> QED BY <1>3, <1>4, <1>5 DEF Requested, ProviderCall, Call

\* The first call of a round.
LEMMA CallsInit == Init => CallsInv
<1> SUFFICES ASSUME Init PROVE CallsInv
  OBVIOUS
<1>1. Requested
  BY BoundsAssumption DEF Init, Requested, FreshRequest
<1>2. Counted
  BY BoundsAssumption DEF Init, Counted, Before, FreshRequest
<1> QED BY <1>1, <1>2 DEF Init, CallsInv

\* Every step keeps the count, the order and the binding of the calls.
LEMMA CallsNext == CallsInv /\ [Next]_vars => CallsInv'
<1> SUFFICES ASSUME CallsInv, [Next]_vars PROVE CallsInv'
  OBVIOUS
<1> USE BoundsAssumption
<1> DEFINE Same == UNCHANGED <<flags, request, attempt, sent>>
<1>1. ASSUME Same, at' \notin {"call", "stream"} \/ at' = at PROVE CallsInv'
  BY <1>1 DEF CallsInv, Requested, Counted, Before, InPlace
<1>2. CASE CallModel
  <2> DEFINE n == Len(sent) + 1
  <2>1. /\ sent' = Append(sent, ProviderCall(request)) /\ at = "call" /\ at' = "stream"
        /\ UNCHANGED <<flags, request, attempt>>
    BY <1>2 DEF CallModel, Kept, built
  <2>2. Requested /\ sent \in Seq(Call) /\ Len(sent) = Before
    BY <2>1 DEF CallsInv, Counted
  <2>3. /\ sent' \in Seq(Call) /\ Len(sent') = n /\ DOMAIN sent' = 1..n
        /\ sent'[n] = ProviderCall(request)
        /\ \A i \in DOMAIN sent : sent'[i] = sent[i] /\ i \in 1..Len(sent)
    BY <2>1, <2>2, ProviderCallBinds
  <2>4. Requested'
    BY <2>1, <2>2 DEF Requested
  <2>5. Counted'
    BY <2>1, <2>2, <2>3 DEF Counted, Before, Requested
  <2>6. InPlace(flags.fallback, n, sent'[n])
    <3>1. flags.fallback /\ n % 2 = 0 <=> request.model = "fallback"
      BY <2>2 DEF Before, Requested
    <3>2. request.model \in {"primary", "fallback"}
      BY <2>2 DEF Requested
    <3> QED BY <2>1, <2>2, <2>3, <3>1, <3>2, ProviderCallBinds DEF InPlace
  <2>7. \A i \in DOMAIN sent : InPlace(flags.fallback, i, sent'[i])
    BY <2>3 DEF CallsInv
  <2>8. \A i \in DOMAIN sent' : i = n \/ i \in DOMAIN sent
    BY <2>2, <2>3
  <2> QED BY <2>1, <2>4, <2>5, <2>6, <2>7, <2>8 DEF CallsInv
<1>3. CASE TransientFailure
  <2>1. /\ at = "stream" /\ UNCHANGED <<flags, sent>>
        /\ Requested /\ sent \in Seq(Call) /\ Len(sent) = Before + 1
    BY <1>3 DEF TransientFailure, built, CallsInv, Counted
  <2>2. CASE flags.fallback /\ request.model = "primary"
    <3>1. /\ at' = "call" /\ attempt' = attempt
          /\ request' = [request EXCEPT !.model = "fallback", !.bound = 0]
      BY <1>3, <2>2 DEF TransientFailure
    <3>2. Requested'
      BY <2>1, <2>2, <3>1 DEF Requested
    <3>3. Counted'
      BY <2>1, <2>2, <3>1 DEF CallsInv, Counted, Requested, Before
    <3> QED BY <2>1, <3>2, <3>3 DEF CallsInv, InPlace
  <2>3. CASE ~(flags.fallback /\ request.model = "primary")
    <3>1. Retry
      BY <1>3, <2>3 DEF TransientFailure
    <3>2. request' = [model |-> "primary", bound |-> 0, tools |-> TRUE]
      BY <2>1, <3>1 DEF Retry, Requested
    <3>3. attempt' \in 1..MaxAttempts /\ Requested'
      <4>1. attempt' \in 1..MaxAttempts
        BY <2>1, <3>1 DEF Requested, Retry
      <4> QED BY <2>1, <3>2, <4>1 DEF Requested
    <3>4. Len(sent) = IF flags.fallback THEN 2 * attempt ELSE attempt
      BY <2>1, <2>3 DEF Requested, Before
    <3>5. Counted'
      BY <2>1, <3>1, <3>2, <3>4 DEF CallsInv, Counted, Requested, Before, Retry
    <3> QED BY <2>1, <3>3, <3>5 DEF CallsInv, InPlace
  <2> QED BY <2>2, <2>3
<1>4. CASE FatalFailure
  BY <1>1, <1>4 DEF FatalFailure, built
<1>5. CASE EndStream
  BY <1>1, <1>5 DEF EndStream, built
<1>6. CASE Review
  BY <1>1, <1>6 DEF Review, built
<1>7. CASE NextRound
  <2>1. Requested'
    BY <1>7 DEF NextRound, built, CallsInv, Requested, FreshRequest
  <2>2. Counted'
    BY <1>7 DEF NextRound, built, CallsInv, Requested, Counted, Before, FreshRequest
  <2> QED BY <1>7, <2>1, <2>2 DEF NextRound, CallsInv
<1>8. CASE \E t \in Tool : Seal(t) \/ RunTool(t) \/ Withhold(t)
  <2>1. Same /\ at' = at
    BY <1>8 DEF Seal, RunTool, Withhold, built
  <2> QED BY <1>1, <2>1
<1>10. CASE \E t \in Tool : RaiseTool(t)
  <2>1. Same /\ (at' = at \/ at' \in {"tools", "failed"})
    BY <1>10 DEF RaiseTool, built
  <2> QED BY <1>1, <2>1
<1>9. CASE UNCHANGED vars
  BY <1>1, <1>9 DEF vars, built
<1> QED BY <1>2, <1>3, <1>4, <1>5, <1>6, <1>7, <1>8, <1>9, <1>10 DEF Next

-----------------------------------------------------------------------------
(* What has run.                                                           *)

\* What the agent was built with.
BuiltInv ==
  /\ flags \in [fallback : BOOLEAN, eager : BOOLEAN, review : BOOLEAN]
  /\ Sound(plugins, entries, File)
  /\ PluginsAsDeclared(entries, File, plugins)

RoundTypes ==
  /\ at \in {"call", "stream", "review", "tools", "done", "failed"}
  /\ response \subseteq Tool /\ dispatched \subseteq Tool /\ approved \subseteq Tool
  /\ effects \in [Tool -> Nat] /\ tries \in [Tool -> Nat]
  /\ mem0 \in {"unset", "built", "failed"}
  /\ round \in Nat
  /\ sent \in Seq(Call)

\* How often the streams so far can have run t.
Early(t) == IF Eagerly(t) THEN Len(sent) ELSE 0

\* Where t is in a round, and how often it can have run by then.
Ran(t) ==
  /\ effects[t] =< Early(t) + Attempts(t)
  /\ t \in response \/ at \notin {"tools", "failed"} => effects[t] =< Early(t) + tries[t]
  /\ at = "stream" =>
       Len(sent) > 0 /\ (Eagerly(t) /\ t \notin response => effects[t] < Len(sent))
  /\ at \notin {"tools", "failed"} => tries[t] = 0
  /\ t \in response => tries[t] < Attempts(t)
  /\ tries[t] =< effects[t]
  /\ t \in dispatched => effects[t] >= 1
  /\ effects[t] > 0 /\ t \in Foreign => t \in OwnTools
  /\ at = "tools" /\ t \in response \cap Gated => t \in approved
  /\ effects[t] > 0 /\ t \in Gated => Eagerly(t) \/ t \in approved

RanInv == RoundTypes /\ \A t \in Tool : Ran(t)

\* A call has at least one attempt; send_response, in which nothing raises, no other.
LEMMA AttemptsType ==
  ASSUME NEW t
  PROVE  /\ Attempts(t) \in Nat /\ Attempts(t) >= 1
         /\ t \in EagerDeny \ Foreign => Attempts(t) = 1
<1>1. Attempts(t) \in {1, MaxToolAttempts}
  BY DEF Attempts
<1>2. CASE t = "send_response" /\ t \notin Foreign
  <2>1. t \in Tools \ Foreign
    BY <1>2 DEF Tools
  <2>2. \A w : AnswerOf(t, w) = Answer("local", "local", TRUE)
    BY <1>2 DEF AnswerOf, SendResponse
  <2>3. \A answer \in Answers[t] : answer = Answer("local", "local", TRUE)
    BY <2>1, <2>2 DEF Answers
  <2>4. Answer("local", "local", TRUE) # Raised
    BY DEF Answer, Raised
  <2>5. ~MayRaise(t)
    BY <2>1, <2>3, <2>4 DEF MayRaise
  <2> QED BY <2>5 DEF Attempts
<1>3. CASE t # "send_response"
  <2>1. t \in EagerDeny => t \notin RetryTools
    BY <1>3 DEF EagerDeny, RetryTools
  <2> QED BY <1>1, <2>1, BoundsAssumption DEF Attempts
<1>4. CASE t = "send_response" /\ t \in Foreign
  BY <1>1, <1>4, BoundsAssumption
<1> QED BY <1>2, <1>3, <1>4

\* The agent is the one it was built as.
LEMMA BuiltStays ==
  ASSUME UNCHANGED built
  PROVE  /\ UNCHANGED <<flags, entries, plugins, OwnTools, Gated>>
         /\ \A t : Eagerly(t)' = Eagerly(t) /\ Bound(t)' = Bound(t)
<1>1. UNCHANGED <<flags, entries, plugins>>
  BY DEF built
<1>2. UNCHANGED <<OwnTools, Gated>>
  BY <1>1 DEF OwnTools, PluginTools, Gated
<1> QED BY <1>1, <1>2 DEF Eagerly, Bound

\* Before the first call nothing has run.
LEMMA RanInit == Init => RanInv
<1> SUFFICES ASSUME Init PROVE RanInv
  OBVIOUS
<1>1. Len(sent) = 0 /\ sent \in Seq(Call)
  BY DEF Init
<1>2. RoundTypes
  BY <1>1 DEF Init, RoundTypes
<1>3. ASSUME NEW t \in Tool PROVE Ran(t)
  BY <1>1, AttemptsType DEF Init, Ran, Early
<1> QED BY <1>2, <1>3 DEF RanInv

\* Every step keeps it.
LEMMA RanNext == CallsInv /\ RanInv /\ [Next]_vars => RanInv'
<1> SUFFICES ASSUME CallsInv, RanInv, [Next]_vars PROVE RanInv'
  OBVIOUS
<1>1. RoundTypes /\ (\A t \in Tool : Ran(t)) /\ Len(sent) \in Nat
  BY DEF RanInv, RoundTypes
<1>2. /\ UNCHANGED <<flags, entries, plugins, OwnTools, Gated>>
      /\ \A t : Eagerly(t)' = Eagerly(t) /\ Bound(t)' = Bound(t)
  <2>1. UNCHANGED built
    BY DEF Next, vars, CallModel, TransientFailure, FatalFailure, EndStream, Review, NextRound,
           Seal, RunTool, RaiseTool, Withhold
  <2> QED BY <2>1, BuiltStays
<1>3. CASE CallModel
  <2>1. /\ at = "call" /\ at' = "stream" /\ response' = {} /\ dispatched' = {}
        /\ UNCHANGED <<approved, effects, tries, mem0, round>>
        /\ sent' = Append(sent, ProviderCall(request))
    BY <1>3 DEF CallModel, process
  <2>2. sent' \in Seq(Call) /\ Len(sent') = Len(sent) + 1
    BY <1>1, <2>1, ProviderCallBinds DEF CallsInv, RoundTypes
  <2>3. RoundTypes'
    BY <1>1, <2>1, <2>2 DEF RoundTypes
  <2>4. ASSUME NEW t \in Tool PROVE Ran(t)'
    <3>1. /\ effects[t] \in Nat /\ tries[t] \in Nat /\ Len(sent) \in Nat
          /\ effects'[t] = effects[t] /\ tries'[t] = tries[t]
          /\ Ran(t) /\ Attempts(t) \in Nat /\ Eagerly(t)' = Eagerly(t)
      BY <1>1, <1>2, <2>1, AttemptsType DEF RoundTypes
    <3>2. Early(t)' = IF Eagerly(t) THEN Early(t) + 1 ELSE Early(t)
      BY <2>2, <3>1 DEF Early
    <3>3. Early(t) \in Nat /\ (~Eagerly(t) => Early(t) = 0)
      BY <3>1 DEF Early
    <3> QED BY <1>2, <2>1, <2>2, <3>1, <3>2, <3>3 DEF Ran, Early
  <2> QED BY <2>3, <2>4 DEF RanInv
<1>4. CASE TransientFailure
  <2>1. /\ at = "stream" /\ at' \in {"call", "failed"} /\ response' = {} /\ dispatched' = {}
        /\ UNCHANGED <<sent, approved, effects, tries, mem0, round>>
    BY <1>4 DEF TransientFailure, Retry, process
  <2>2. RoundTypes'
    BY <1>1, <2>1 DEF RoundTypes
  <2>3. ASSUME NEW t \in Tool PROVE Ran(t)'
    BY <1>1, <1>2, <2>1 DEF Ran, Early, RoundTypes
  <2> QED BY <2>2, <2>3 DEF RanInv
<1>5. CASE FatalFailure
  <2>1. /\ at = "stream" /\ at' = "failed"
        /\ UNCHANGED <<response, dispatched, sent, approved, effects, tries, mem0, round>>
    BY <1>5 DEF FatalFailure, process
  <2>2. RoundTypes'
    BY <1>1, <2>1 DEF RoundTypes
  <2>3. ASSUME NEW t \in Tool PROVE Ran(t)'
    BY <1>1, <1>2, <2>1 DEF Ran, Early, RoundTypes
  <2> QED BY <2>2, <2>3 DEF RanInv
<1>6. CASE EndStream
  <2>1. /\ at = "stream" /\ at' \in {"done", "review", "tools"}
        /\ at' = "tools" => response \cap Gated = {}
        /\ UNCHANGED <<response, dispatched, sent, approved, effects, tries, mem0, round>>
    BY <1>6 DEF EndStream, process
  <2>2. RoundTypes'
    BY <1>1, <2>1 DEF RoundTypes
  <2>3. ASSUME NEW t \in Tool PROVE Ran(t)'
    BY <1>1, <1>2, <2>1 DEF Ran, Early, RoundTypes
  <2> QED BY <2>2, <2>3 DEF RanInv
<1>7. CASE Review
  <2>1. /\ at = "review" /\ at' = "tools" /\ approved' \subseteq response \cap Gated
        /\ response' = response \ (Gated \ approved')
        /\ UNCHANGED <<dispatched, sent, effects, tries, mem0, round>>
    BY <1>7 DEF Review, process
  <2>2. RoundTypes'
    BY <1>1, <2>1 DEF RoundTypes
  <2>3. ASSUME NEW t \in Tool PROVE Ran(t)'
    BY <1>1, <1>2, <2>1 DEF Ran, Early, RoundTypes
  <2> QED BY <2>2, <2>3 DEF RanInv
<1>8. CASE NextRound
  <2>1. /\ at' = "call" /\ response = {} /\ response' = {} /\ dispatched' = {}
        /\ approved' = {} /\ sent' = <<>> /\ effects' = [t \in Tool |-> 0]
        /\ tries' = [t \in Tool |-> 0] /\ mem0' = mem0 /\ round' = round + 1
    BY <1>8 DEF NextRound, process
  <2>2. sent' \in Seq(Call) /\ Len(sent') = 0
    BY <2>1
  <2>3. RoundTypes'
    BY <1>1, <2>1, <2>2 DEF RoundTypes
  <2>4. ASSUME NEW t \in Tool PROVE Ran(t)'
    BY <1>2, <2>1, <2>2, AttemptsType DEF Ran, Early
  <2> QED BY <2>3, <2>4 DEF RanInv
<1>9. ASSUME NEW u \in Tool, Seal(u) PROVE RanInv'
  <2>1. /\ at = "stream" /\ u \notin response /\ response' = response \cup {u}
        /\ UNCHANGED <<at, sent, approved, tries, round>>
        /\ dispatched' \in {dispatched, dispatched \cup {u}}
        /\ Eagerly(u) => effects' = [effects EXCEPT ![u] = @ + 1]
        /\ ~Eagerly(u) => effects' = effects /\ dispatched' = dispatched
        /\ mem0' \in {mem0, "built", "failed"}
    BY <1>9 DEF Seal, GetMemory
  <2>2. RoundTypes'
    BY <1>1, <2>1 DEF RoundTypes
  <2>3. Eagerly(u) => u \in OwnTools
    BY DEF Eagerly
  <2>4. ASSUME NEW t \in Tool PROVE Ran(t)'
    <3>1. /\ effects[t] \in Nat /\ tries[t] \in Nat /\ tries'[t] = tries[t]
          /\ Ran(t) /\ Attempts(t) \in Nat /\ Attempts(t) >= 1
      BY <1>1, <2>1, AttemptsType DEF RoundTypes
    <3>2. CASE t = u
      <4>1. effects'[u] = IF Eagerly(u) THEN effects[u] + 1 ELSE effects[u]
        BY <1>1, <2>1 DEF RoundTypes
      <4>2. t \in dispatched' => Eagerly(u) \/ t \in dispatched
        BY <2>1
      <4> QED BY <1>1, <1>2, <2>1, <2>3, <3>1, <3>2, <4>1, <4>2 DEF Ran, Early
    <3>3. CASE t # u
      <4>1. effects'[t] = effects[t] /\ (t \in response' <=> t \in response)
            /\ (t \in dispatched' <=> t \in dispatched)
        BY <1>1, <2>1, <3>3 DEF RoundTypes
      <4> QED BY <1>1, <1>2, <2>1, <3>1, <4>1 DEF Ran, Early
    <3> QED BY <3>2, <3>3
  <2> QED BY <2>2, <2>4 DEF RanInv
<1>10. ASSUME NEW u \in Tool, RunTool(u) PROVE RanInv'
  <2>1. /\ at = "tools" /\ u \in response /\ response' = response \ {u}
        /\ UNCHANGED <<at, sent, approved, dispatched, tries, round>>
        /\ effects' \in {effects, [effects EXCEPT ![u] = @ + 1]}
        /\ ~Bound(u) => effects' = effects
        /\ mem0' \in {mem0, "built", "failed"}
    BY <1>10 DEF RunTool, GetMemory
  <2>2. RoundTypes'
    BY <1>1, <2>1 DEF RoundTypes
  <2>3. ASSUME NEW t \in Tool PROVE Ran(t)'
    <3>1. /\ effects[t] \in Nat /\ tries[t] \in Nat /\ tries'[t] = tries[t]
          /\ Ran(t) /\ Attempts(t) \in Nat /\ Attempts(t) >= 1
      BY <1>1, <2>1, AttemptsType DEF RoundTypes
    <3>2. CASE t = u
      <4>1. effects'[u] \in {effects[u], effects[u] + 1}
        BY <1>1, <2>1 DEF RoundTypes
      <4>2. effects'[u] > effects[u] => Bound(u)
        BY <2>1, <3>1, <3>2, <4>1
      <4> QED BY <1>1, <1>2, <2>1, <3>1, <3>2, <4>1, <4>2 DEF Ran, Early, Bound
    <3>3. CASE t # u
      <4>1. effects'[t] = effects[t] /\ (t \in response' <=> t \in response)
        BY <1>1, <2>1, <3>3 DEF RoundTypes
      <4> QED BY <1>1, <1>2, <2>1, <3>1, <4>1 DEF Ran, Early
    <3> QED BY <3>2, <3>3
  <2> QED BY <2>2, <2>3 DEF RanInv
<1>12. ASSUME NEW u \in Tool, RaiseTool(u) PROVE RanInv'
  <2>1. /\ at = "tools" /\ u \in response /\ Bound(u)
        /\ UNCHANGED <<sent, approved, dispatched, mem0, round>>
        /\ effects' = [effects EXCEPT ![u] = @ + 1]
        /\ tries' = [tries EXCEPT ![u] = @ + 1]
        /\ \/ tries[u] + 1 < Attempts(u) /\ UNCHANGED <<at, response>>
           \/ at' \in {"tools", "failed"} /\ response' = response \ {u}
    BY <1>12 DEF RaiseTool
  <2>2. RoundTypes'
    BY <1>1, <2>1 DEF RoundTypes
  <2>3. ASSUME NEW t \in Tool PROVE Ran(t)'
    <3>1. /\ effects[t] \in Nat /\ tries[t] \in Nat
          /\ Ran(t) /\ Attempts(t) \in Nat /\ Attempts(t) >= 1
      BY <1>1, <2>1, AttemptsType DEF RoundTypes
    <3>2. CASE t = u
      <4>1. effects'[u] = effects[u] + 1 /\ tries'[u] = tries[u] + 1
        BY <1>1, <2>1 DEF RoundTypes
      <4> QED BY <1>1, <1>2, <2>1, <3>1, <3>2, <4>1 DEF Ran, Early, Bound
    <3>3. CASE t # u
      <4>1. effects'[t] = effects[t] /\ tries'[t] = tries[t]
            /\ (t \in response' <=> t \in response)
        BY <1>1, <2>1, <3>3 DEF RoundTypes
      <4> QED BY <1>1, <1>2, <2>1, <3>1, <4>1 DEF Ran, Early
    <3> QED BY <3>2, <3>3
  <2> QED BY <2>2, <2>3 DEF RanInv
<1>13. ASSUME NEW u \in Tool, Withhold(u) PROVE RanInv'
  <2>1. /\ at = "tools" /\ u \in response /\ response' = response \ {u}
        /\ UNCHANGED <<at, sent, approved, dispatched, effects, tries, mem0, round>>
    BY <1>13 DEF Withhold, process
  <2>2. RoundTypes'
    BY <1>1, <2>1 DEF RoundTypes
  <2>3. ASSUME NEW t \in Tool PROVE Ran(t)'
    BY <1>1, <1>2, <2>1 DEF Ran, Early
  <2> QED BY <2>2, <2>3 DEF RanInv
<1>11. CASE UNCHANGED vars
  <2>1. UNCHANGED <<at, response, dispatched, sent, approved, effects, tries, mem0, round>>
    BY <1>11 DEF vars, process
  <2> QED BY <1>1, <1>2, <2>1 DEF RanInv, RoundTypes, Ran, Early
<1> QED
  BY <1>3, <1>4, <1>5, <1>6, <1>7, <1>8, <1>9, <1>10, <1>11,
     <1>12, <1>13 DEF Next

-----------------------------------------------------------------------------
(* What the agent is built with, and what its memory tells.                *)

LEMMA BuiltInit == Init => BuiltInv
<1> SUFFICES ASSUME Init PROVE BuiltInv
  OBVIOUS
<1>1. entries \in Seq(ToSet(entries))
  BY EntriesType DEF Init
<1>2. OnePath(File)
  BY FilesAssumption DEF OnePath
<1> QED BY <1>1, <1>2, DiscoverLoads DEF Init, BuiltInv

LEMMA BuiltNext == BuiltInv /\ [Next]_vars => BuiltInv'
<1> SUFFICES ASSUME BuiltInv, [Next]_vars PROVE BuiltInv'
  OBVIOUS
<1>1. UNCHANGED <<flags, entries, plugins>>
  BY DEF Next, vars, built, CallModel, TransientFailure, FatalFailure, EndStream, Review,
         NextRound, Seal, RunTool, RaiseTool, Withhold
<1>2. UNCHANGED Sound(plugins, entries, File)
  BY <1>1
<1>3. UNCHANGED PluginsAsDeclared(entries, File, plugins)
  BY <1>1
<1> QED BY <1>1, <1>2, <1>3 DEF BuiltInv

\* Every answer is one of a tool's, and is what has become of it.
MemoryInv ==
  /\ answers \subseteq Tools \X AnswerSet
  /\ mem0 \in {"unset", "built", "failed"} /\ kb \in {"unset", "kept"}
  /\ AnswersHonest

\* What a tool may answer after a step, given what the process has by then.
LEMMA AnswerNow ==
  ASSUME NEW t \in Tools, NEW answer \in AnswersNow(t)
  PROVE  /\ Fine(answer)
         /\ t \in MemoryTools /\ answer.holds => mem0' # "failed"
         /\ t = "search_knowledge_base" =>
              (answer.says = "duckduckgo" => kb' = "kept") /\ (answer.raised => kb' # "kept")
<1>0. t \in MemoryTools => t # "search_knowledge_base"
  BY DEF MemoryTools
<1>1. CASE t \in MemoryTools /\ mem0' = "failed"
  <2>1. answer = NoMemory
    <3>1. AnswersNow(t) = {NoMemory}
      BY <1>0, <1>1 DEF AnswersNow
    <3> QED BY <3>1
  <2>2. Fine(NoMemory)
    BY AnswerFine DEF NoMemory
  <2>3. ~NoMemory.holds
    BY DEF NoMemory, Answer
  <2> QED BY <1>0, <1>1, <2>1, <2>2, <2>3, Zenon
<1>2. CASE t = "search_knowledge_base"
  <2> DEFINE kept == kb' = "kept"
  <2>1. answer \in KbAnswers[kept]
    BY <1>0, <1>2 DEF AnswersNow
  <2>2. kept \in BOOLEAN
    OBVIOUS
  <2>3. Fine(answer) /\ (answer.says = "duckduckgo" => kept) /\ (answer.raised => ~kept)
    <3> HIDE DEF kept
    <3> QED BY <2>1, <2>2, KbFine
  <2> QED BY <1>0, <1>2, <2>3
<1>3. CASE ~(t \in MemoryTools /\ mem0' = "failed") /\ t # "search_knowledge_base"
  <2>1. answer \in Answers[t]
    BY <1>3 DEF AnswersNow
  <2>2. PICK w \in World : answer = AnswerOf(t, w)
    BY <2>1 DEF Answers
  <2> QED BY <1>3, <2>2, ToolFine
<1> QED BY <1>1, <1>2, <1>3

\* Whose answer it is: the tool's own, or that of a subagent's tool.
LEMMA Outcome ==
  ASSUME NEW t, NEW pair \in Outcomes(t)
  PROVE  \E u \in Tools : \E answer \in AnswersNow(u) :
           /\ pair = <<u, answer>>
           /\ u \in Delegated \/ (u = t /\ t \notin Foreign)
<1> DEFINE Of(u) == {u} \X AnswersNow(u)
<1>1. \A u : \A p \in Of(u) : \E answer \in AnswersNow(u) : p = <<u, answer>>
  OBVIOUS
<1>2. Delegated \subseteq Tools
  BY DEF Delegated, Tools
<1>3. CASE t = "task"
  <2>1. Outcomes(t) = UNION {Of(u) : u \in Delegated}
    BY <1>3 DEF Outcomes
  <2> HIDE DEF Of
  <2>2. PICK u \in Delegated : pair \in Of(u)
    BY <2>1
  <2> QED BY <1>1, <1>2, <2>2
<1>4. CASE t # "task"
  <2>1. t \in Tools \ Foreign /\ pair \in Of(t)
    BY <1>4 DEF Outcomes
  <2> HIDE DEF Of
  <2> QED BY <1>1, <2>1
<1> QED BY <1>3, <1>4

\* What a tool comes to is told of it truly.
LEMMA NewAnswer ==
  ASSUME NEW t \in Tool, NEW raised \in BOOLEAN, ComesTo(t, raised),
         t \notin Foreign => effects'[t] >= IF raised THEN Attempts(t) ELSE 1,
         mem0' \in {"unset", "built", "failed"}, kb' \in {"unset", "kept"},
         t \in MemoryTools => raised \/ mem0' # "unset"
  PROVE  MemoryInv'
<1>1. CASE answers' = {}
  BY <1>1 DEF MemoryInv, AnswersHonest
<1>2. ASSUME NEW pair \in Outcomes(t), pair[2].raised = raised, answers' = {pair}
      PROVE  MemoryInv'
  <2>0. PICK u \in Tools :
          \E a \in AnswersNow(u) :
            pair = <<u, a>> /\ (u \in Delegated \/ (u = t /\ t \notin Foreign))
    BY Outcome
  <2>1. PICK answer \in AnswersNow(u) :
          pair = <<u, answer>> /\ (u \in Delegated \/ (u = t /\ t \notin Foreign))
    BY <2>0
  <2>2. /\ Fine(answer) /\ answer.raised = raised /\ pair[1] = u /\ pair[2] = answer
        /\ u \in MemoryTools /\ answer.holds => mem0' # "failed"
        /\ u = "search_knowledge_base" =>
             (answer.says = "duckduckgo" => kb' = "kept") /\ (answer.raised => kb' # "kept")
    BY <1>2, <2>1, AnswerNow
  <2>3. answers' \subseteq Tools \X AnswerSet
    BY <1>2, <2>1, <2>2 DEF Fine
  <2>4. u \in Tool \ Delegated => effects'[u] >= IF answer.raised THEN Attempts(u) ELSE 1
    BY <2>1, <2>2
  <2>5. u \in MemoryTools /\ answer.holds => mem0' = "built"
    <3>1. answer.holds => ~raised
      BY <2>2, RaisedFine DEF Fine
    <3>2. u \in MemoryTools => u = t
      BY <2>1 DEF MemoryTools, Delegated
    <3> QED BY <2>2, <3>1, <3>2
  <2>6. Honest(u, answer)'
    BY <2>2, <2>4, <2>5 DEF Honest, Fine
  <2> QED BY <1>2, <2>2, <2>3, <2>6 DEF MemoryInv, AnswersHonest
<1> DEFINE pairs == {pair \in Outcomes(t) : pair[2].raised = raised}
<1>3. answers' \in IF pairs = {} THEN {{}} ELSE {{pair} : pair \in pairs}
  BY DEF ComesTo
<1> QED BY <1>1, <1>2, <1>3

LEMMA MemoryNext == RanInv /\ MemoryInv /\ [Next]_vars => MemoryInv'
<1> SUFFICES ASSUME RanInv, MemoryInv, [Next]_vars PROVE MemoryInv'
  OBVIOUS
<1>1. ASSUME answers' = {}, UNCHANGED <<mem0, kb>> PROVE MemoryInv'
  BY <1>1 DEF MemoryInv, AnswersHonest
<1>2. ASSUME answers' = answers, mem0' \in {mem0, "built", "failed"}, kb' = kb,
             mem0 # "unset" => mem0' = mem0,
             \A t \in Tool : effects'[t] \in Nat /\ effects'[t] >= effects[t]
      PROVE  MemoryInv'
  <2>1. ASSUME NEW pair \in answers PROVE Honest(pair[1], pair[2])'
    <3>1. Honest(pair[1], pair[2])
      BY DEF MemoryInv, AnswersHonest
    <3>2. \A t : Attempts(t) \in Nat
      BY AttemptsType
    <3>3. \A t \in Tool : effects[t] \in Nat
      BY DEF RanInv, RoundTypes
    <3> QED BY <1>2, <3>1, <3>2, <3>3 DEF Honest, MemoryInv
  <2> QED BY <1>2, <2>1 DEF MemoryInv, AnswersHonest
<1>3. CASE CallModel \/ TransientFailure \/ FatalFailure \/ EndStream \/ Review \/ UNCHANGED vars
  <2>1. UNCHANGED <<answers, mem0, kb, effects>>
    BY <1>3 DEF CallModel, TransientFailure, FatalFailure, EndStream, Review, vars, process
  <2> QED BY <1>2, <2>1 DEF RanInv, RoundTypes
<1>4. CASE NextRound
  BY <1>1, <1>4 DEF NextRound, process
<1>5. ASSUME NEW t \in Tool, Withhold(t) PROVE MemoryInv'
  BY <1>1, <1>5 DEF Withhold, process
<1>6. ASSUME NEW t \in Tool, Seal(t) PROVE MemoryInv'
  <2>1. /\ answers' = answers /\ kb' = kb
        /\ mem0' \in {mem0, "built", "failed"} /\ (mem0 # "unset" => mem0' = mem0)
        /\ effects' \in {effects, [effects EXCEPT ![t] = @ + 1]}
    BY <1>6 DEF Seal, GetMemory
  <2> QED BY <1>2, <2>1 DEF RanInv, RoundTypes
<1>7. ASSUME NEW t \in Tool, RunTool(t) PROVE MemoryInv'
  <2>1. /\ t \in response /\ ComesTo(t, FALSE) /\ GetMemory(t) /\ GetSnapshot(t)
        /\ effects' = IF t \in dispatched \/ ~Bound(t) THEN effects
                      ELSE [effects EXCEPT ![t] = @ + 1]
    BY <1>7 DEF RunTool
  <2>2. t \notin Foreign => effects'[t] >= 1
    <3>1. effects \in [Tool -> Nat] /\ (t \in dispatched => effects[t] >= 1)
      BY DEF RanInv, RoundTypes, Ran
    <3>2. t \notin Foreign => Bound(t)
      BY DEF Bound
    <3> QED BY <2>1, <3>1, <3>2
  <2>3. mem0' \in {"unset", "built", "failed"} /\ kb' \in {"unset", "kept"}
    BY <2>1 DEF GetMemory, GetSnapshot, MemoryInv
  <2>4. t \in MemoryTools => mem0' # "unset"
    BY <2>1 DEF GetMemory, MemoryInv
  <2> QED BY <2>1, <2>2, <2>3, <2>4, NewAnswer
<1>8. ASSUME NEW t \in Tool, RaiseTool(t) PROVE MemoryInv'
  <2>1. /\ t \in response /\ effects' = [effects EXCEPT ![t] = @ + 1] /\ mem0' = mem0
        /\ effects \in [Tool -> Nat] /\ tries[t] =< effects[t] /\ tries[t] \in Nat
    BY <1>8 DEF RaiseTool, RanInv, RoundTypes, Ran
  <2>2. CASE tries[t] + 1 < Attempts(t)
    <3>1. UNCHANGED <<answers, kb>>
      BY <1>8, <2>2 DEF RaiseTool
    <3> QED BY <1>2, <2>1, <3>1
  <2>3. CASE ~(tries[t] + 1 < Attempts(t))
    <3>1. ComesTo(t, TRUE) /\ GetSnapshot(t)
      BY <1>8, <2>3 DEF RaiseTool
    <3>2. effects'[t] >= Attempts(t)
      <4>1. effects'[t] = effects[t] + 1 /\ effects[t] \in Nat /\ Attempts(t) \in Nat
        BY <2>1, AttemptsType
      <4> QED BY <2>1, <2>3, <4>1
    <3>3. mem0' \in {"unset", "built", "failed"} /\ kb' \in {"unset", "kept"}
      BY <2>1, <3>1 DEF GetSnapshot, MemoryInv
    <3> QED BY <3>1, <3>2, <3>3, NewAnswer
  <2> QED BY <2>2, <2>3
<1> QED BY <1>3, <1>4, <1>5, <1>6, <1>7, <1>8 DEF Next

-----------------------------------------------------------------------------
(* The theorems.                                                           *)

Inv == CallsInv /\ BuiltInv /\ RanInv /\ MemoryInv

LEMMA Invariance == Spec => []Inv
<1>1. Init => Inv
  <2>1. Init => MemoryInv
    BY DEF Init, MemoryInv, AnswersHonest
  <2> QED BY <2>1, CallsInit, BuiltInit, RanInit DEF Inv
<1>2. Inv /\ [Next]_vars => Inv'
  BY CallsNext, BuiltNext, RanNext, MemoryNext DEF Inv
<1> QED BY <1>1, <1>2, PTL DEF Spec

\* The state of a turn is always well typed, and no plugin is loaded that is not a file.
THEOREM TypeCorrect == Spec => []TypeOK
<1>1. ASSUME Inv PROVE TypeOK
  <2>1. \A i \in DOMAIN plugins : plugins[i].file \in ToSet(File)
    <3>1. \A c \in Candidates(entries, File) : c.file \in ToSet(File)
      BY DEF Candidates
    <3>2. \A i \in DOMAIN plugins : plugins[i] \in Candidates(entries, File)
      BY <1>1 DEF Inv, BuiltInv, Sound
    <3> QED BY <3>1, <3>2
  <2>2. request \in [model : {"primary", "fallback"}, bound : Nat, tools : BOOLEAN]
    <3>1. request = [model |-> request.model, bound |-> 0, tools |-> TRUE]
      BY <1>1 DEF Inv, CallsInv, Requested
    <3>2. request.model \in {"primary", "fallback"}
      BY <1>1 DEF Inv, CallsInv, Requested
    <3>3. \A m \in {"primary", "fallback"} :
            [model |-> m, bound |-> 0, tools |-> TRUE]
              \in [model : {"primary", "fallback"}, bound : Nat, tools : BOOLEAN]
      OBVIOUS
    <3> QED BY <3>1, <3>2, <3>3, Zenon
  <2>3. {response, dispatched, approved} \subseteq SUBSET Tool
    BY <1>1 DEF Inv, RanInv, RoundTypes
  <2> QED BY <1>1, <2>1, <2>2, <2>3 DEF Inv, CallsInv, Requested, Counted, BuiltInv, RanInv,
                                        RoundTypes, MemoryInv, TypeOK
<1> QED BY <1>1, Invariance, PTL

\* In every round of every turn, whatever the plugins, the settings and the number of
\* attempts: the models are asked in turn, within their limit, with the tools bound once
\* (ModelRetryMiddleware, ModelFallbackMiddleware, _ForceToolChoice).
THEOREM CallsCorrect == Spec => []ProviderCalls
<1>1. Inv => ProviderCalls
  BY CallsInvProviderCalls DEF Inv
<1> QED BY <1>1, Invariance, PTL

\* For any documents and any files: of each name that is not switched off one plugin is
\* loaded, from the file an entry points to if there is one (discover_plugins).
THEOREM PluginsCorrect == Spec => []DeclaredPluginsLoaded
<1>1. Inv => DeclaredPluginsLoaded
  BY DEF Inv, BuiltInv, DeclaredPluginsLoaded
<1> QED BY <1>1, Invariance, PTL

\* Whatever fails and is retried, for any number of attempts and whatever tools plugins
\* bring: what sends, opens or starts something waits for the end of the stream and runs
\* once, and any other tool of the agent once for every call of a provider that streamed
\* it and, in the tool step, once more for every attempt RetryToolMiddleware has (one,
\* unless it is on _EXTERNAL_TOOLS and can raise).
THEOREM EffectsCorrect == Spec => []EffectsHeldBack
<1>1. ASSUME Inv PROVE EffectsHeldBack
  <2> SUFFICES ASSUME NEW t \in Tool
               PROVE  /\ t \in Gated /\ effects[t] > 0 =>
                           t \in approved \/ t \in PluginTools(plugins) \ EagerDeny
                      /\ effects[t] > 0 => t \in OwnTools \ EagerDeny \/ at \in {"tools", "failed"}
                      /\ t \in EagerDeny \ Foreign => effects[t] =< 1
                      /\ effects[t] =<
                           Attempts(t) + (IF t \in OwnTools \ EagerDeny THEN Len(sent) ELSE 0)
                      /\ t \in Foreign /\ effects[t] > 0 => t \in OwnTools
    BY <1>1 DEF EffectsHeldBack, DeclaredPluginsLoaded, Inv, BuiltInv
  <2>1. Ran(t) /\ effects[t] \in Nat /\ tries[t] \in Nat /\ Len(sent) \in Nat
    BY <1>1 DEF Inv, RanInv, RoundTypes
  <2>2. Eagerly(t) => t \in OwnTools /\ t \notin EagerDeny
    BY DEF Eagerly, Idempotent
  <2>3. t \in Gated /\ Eagerly(t) => t \in PluginTools(plugins) \ EagerDeny
    <3>1. t \in Gated /\ t \notin EagerDeny => t = "write_file"
      BY DEF Gated, EagerDeny
    <3>2. t = "write_file" /\ t \in OwnTools => t \in PluginTools(plugins)
      BY DEF OwnTools, CoreTools
    <3> QED BY <2>2, <3>1, <3>2
  <2> QED BY <2>1, <2>2, <2>3, AttemptsType DEF Ran, Early
<1> QED BY <1>1, Invariance, PTL

\* In every state of the services, in every order in which they fail and the tools are
\* retried: an answer names the service it comes from, is that of a run of the tool that
\* has come to its end (the last of its attempts, when it raises), and what it tells of the
\* memory and of the knowledge base is what the process has of them (core/tools.py,
\* core/mem0_tools.py, RetryToolMiddleware).
THEOREM AnswersCorrect == Spec => []AnswersHonest
<1>1. Inv => AnswersHonest
  BY DEF Inv, MemoryInv
<1> QED BY <1>1, Invariance, PTL
=============================================================================
