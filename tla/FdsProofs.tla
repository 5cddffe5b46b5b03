----------------------------- MODULE FdsProofs ------------------------------
(***************************************************************************)
(* The reference counts of open files are exact, and open files keep their *)
(* names, for every number of descriptors, open files, processes, inodes,  *)
(* pids and names.                                                         *)
(***************************************************************************)
EXTENDS Fds, TLAPS, FiniteSetTheorems, WellFoundedInduction

-----------------------------------------------------------------------------
(* Counting *)

(* The descriptors of one table that name open file i, among those of S *)
At(fd, i, S) == {f \in S : fd[f] = i}
Count(fd, i) == Cardinality(At(fd, i, Fd))
Is(ofd, i) == IF ofd = i THEN 1 ELSE 0

(* References(i), as a function of the tables *)
RefsIn(tables, i) == {r \in Tables \X Fd : tables[r[1]].fd[r[2]] = i}

(* A non-empty set of naturals has a least element. *)
LEMMA MinIn ==
  ASSUME NEW S \in SUBSET Nat, S # {}
  PROVE  Min(S) \in S
<1>1. PICK m \in S : \A n \in S : ~(<<n, m>> \in OpToRel(<, Nat))
  BY NatLessThanWellFounded, WFMin, Zenon
<1>2. ASSUME NEW n \in S PROVE m <= n
  <2>1. ASSUME n < m PROVE FALSE
    <3>1. <<n, m>> \in Nat \X Nat /\ <<n, m>>[1] = n /\ <<n, m>>[2] = m
      OBVIOUS
    <3>2. <<n, m>>[1] < <<n, m>>[2]
      BY <2>1, <3>1
    <3>3. <<n, m>> \in OpToRel(<, Nat)
      BY <3>1, <3>2, Zenon DEF OpToRel
    <3> QED BY <1>1, <3>3, Zenon
  <2> QED BY <2>1
<1> QED BY <1>2, Zenon DEF Min

LEMMA FdFinite ==
  ASSUME NEW S \in SUBSET Fd, NEW fd, NEW i
  PROVE  /\ IsFiniteSet(At(fd, i, S))
         /\ Cardinality(At(fd, i, S)) \in Nat
         /\ Cardinality(At(fd, i, S)) = 0 <=> At(fd, i, S) = {}
<1>1. IsFiniteSet(Fd)
  BY FS_Interval, FdsAssumption DEF Fd
<1>2. At(fd, i, S) \in SUBSET Fd
  BY DEF At
<1>3. IsFiniteSet(At(fd, i, S))
  BY <1>1, <1>2, FS_Subset
<1> QED BY <1>3, FS_CardinalityType, FS_EmptySet

(* Closing the descriptors of S leaves the others. *)
LEMMA CountClosed ==
  ASSUME NEW fd, NEW S \in SUBSET Fd, NEW i \in Ofds
  PROVE  /\ Count([f \in Fd |-> IF f \in S THEN None ELSE fd[f]], i)
              = Count(fd, i) - Cardinality(At(fd, i, S))
         /\ Cardinality(At(fd, i, S)) <= Count(fd, i)
<1> DEFINE left == At(fd, i, Fd \ S)
<1>1. At([f \in Fd |-> IF f \in S THEN None ELSE fd[f]], i, Fd) = left
  BY DEF At, None, Ofds
<1>2. At(fd, i, Fd) = At(fd, i, S) \cup left /\ At(fd, i, S) \cap left = {}
  BY DEF At
<1>3. /\ IsFiniteSet(At(fd, i, S)) /\ Cardinality(At(fd, i, S)) \in Nat
      /\ IsFiniteSet(left) /\ Cardinality(left) \in Nat
  BY FdFinite
<1> HIDE DEF left
<1>4. Count(fd, i) = Cardinality(At(fd, i, S)) + Cardinality(left) - Cardinality({})
  BY <1>2, <1>3, FS_Union DEF Count
<1> QED BY <1>1, <1>3, <1>4, FS_EmptySet DEF Count

(* Changing one descriptor. *)
LEMMA CountSet ==
  \A f \in Fd : \A i, before, after :
    (\A g \in Fd \ {f} : after[g] = before[g])
      => Count(after, i) = Count(before, i) - Is(before[f], i) + Is(after[f], i)
<1> TAKE f \in Fd
<1> TAKE i, before, after
<1> HAVE \A g \in Fd \ {f} : after[g] = before[g]
<1> DEFINE others == At(before, i, Fd) \ {f}
           A == At(after, i, Fd)
<1>1. IsFiniteSet(At(before, i, Fd)) /\ Cardinality(At(before, i, Fd)) \in Nat
  BY FdFinite
<1>2. /\ IsFiniteSet(others)
      /\ Cardinality(others) = IF before[f] = i THEN Count(before, i) - 1 ELSE Count(before, i)
  <2>1. f \in At(before, i, Fd) <=> before[f] = i
    BY DEF At
  <2> QED BY <1>1, <2>1, FS_RemoveElement DEF Count
<1>3. A = IF after[f] = i THEN others \cup {f} ELSE others
  BY DEF At
<1>4. f \notin others
  OBVIOUS
<1> HIDE DEF others
<1>5. Cardinality(A) = Cardinality(others) + Is(after[f], i)
  <2>1. Cardinality(others) \in Nat
    BY <1>2, FS_CardinalityType
  <2>2. Cardinality(others \cup {f}) = Cardinality(others) + 1
    BY <1>2, <1>4, FS_AddElement, Zenon
  <2> QED BY <1>3, <2>1, <2>2 DEF Is
<1> QED BY <1>1, <1>2, <1>5 DEF Count, Is

(* The references to i are those from table t and those from the others,   *)
(* so a step that changes one table changes their number by what it        *)
(* changes there.                                                          *)
LEMMA RefsSplit ==
  ASSUME NEW tables, NEW t \in Tables, NEW i
  PROVE  LET rest == {r \in (Tables \ {t}) \X Fd : tables[r[1]].fd[r[2]] = i}
         IN  /\ Cardinality(rest) \in Nat
             /\ Count(tables[t].fd, i) \in Nat
             /\ Cardinality(RefsIn(tables, i)) = Cardinality(rest) + Count(tables[t].fd, i)
<1> DEFINE rest == {r \in (Tables \ {t}) \X Fd : tables[r[1]].fd[r[2]] = i}
           A == At(tables[t].fd, i, Fd)
<1>1. IsFiniteSet(Fd) /\ IsFiniteSet(Tables \ {t})
  <2>1. IsFiniteSet(Fd) /\ IsFiniteSet(Tables)
    BY FS_Interval, FdsAssumption DEF Fd, Tables
  <2> QED BY <2>1, FS_RemoveElement
<1>2. IsFiniteSet(rest) /\ Cardinality(rest) \in Nat
  <2>1. IsFiniteSet((Tables \ {t}) \X Fd)
    BY <1>1, FS_Product
  <2>2. rest \in SUBSET ((Tables \ {t}) \X Fd)
    OBVIOUS
  <2> QED BY <2>1, <2>2, FS_Subset, FS_CardinalityType
<1>3. IsFiniteSet(A) /\ Cardinality(A) \in Nat
  BY FdFinite
<1>4. IsFiniteSet({t} \X A) /\ Cardinality({t} \X A) = Cardinality(A)
  <2>1. IsFiniteSet({t}) /\ Cardinality({t}) = 1
    BY FS_Singleton
  <2>2. IsFiniteSet({t} \X A) /\ Cardinality({t} \X A) = Cardinality({t}) * Cardinality(A)
    BY <1>3, <2>1, FS_Product
  <2> HIDE DEF A
  <2> QED BY <1>3, <2>1, <2>2
<1>5. RefsIn(tables, i) = rest \cup ({t} \X A)
  BY DEF RefsIn, At
<1>6. rest \cap ({t} \X A) = {}
  OBVIOUS
<1> HIDE DEF rest, A
<1>7. Cardinality(RefsIn(tables, i)) = Cardinality(rest) + Cardinality(A) - Cardinality({})
  BY <1>2, <1>4, <1>5, <1>6, FS_Union
<1>8. Cardinality(RefsIn(tables, i)) = Cardinality(rest) + Cardinality(A)
  BY <1>2, <1>3, <1>7, FS_EmptySet
<1> QED BY <1>2, <1>3, <1>8 DEF rest, A, Count

LEMMA OneTable ==
  ASSUME NEW before, NEW after, NEW t \in Tables, NEW i,
         \A u \in Tables \ {t} : after[u].fd = before[u].fd
  PROVE  /\ Count(before[t].fd, i) \in Nat /\ Count(after[t].fd, i) \in Nat
         /\ Cardinality(RefsIn(before, i)) \in Nat
         /\ Count(before[t].fd, i) <= Cardinality(RefsIn(before, i))
         /\ Cardinality(RefsIn(after, i))
              = Cardinality(RefsIn(before, i)) - Count(before[t].fd, i) + Count(after[t].fd, i)
<1> DEFINE rest(tables) == {r \in (Tables \ {t}) \X Fd : tables[r[1]].fd[r[2]] = i}
<1>1. rest(after) = rest(before)
  OBVIOUS
<1>2. /\ Cardinality(rest(before)) \in Nat /\ Count(before[t].fd, i) \in Nat
      /\ Cardinality(RefsIn(before, i)) = Cardinality(rest(before)) + Count(before[t].fd, i)
  BY RefsSplit
<1>3. /\ Cardinality(rest(after)) \in Nat /\ Count(after[t].fd, i) \in Nat
      /\ Cardinality(RefsIn(after, i)) = Cardinality(rest(after)) + Count(after[t].fd, i)
  BY RefsSplit
<1> HIDE DEF rest
<1> QED BY <1>1, <1>2, <1>3

-----------------------------------------------------------------------------
(* The helpers on the table of open files *)

File == [used : BOOLEAN, refs : Nat, type : {"CONSOLE", "FILE"}, inode : Nat]
Files == [Ofds -> File]
Descriptors == [Fd -> Ofds \cup {None}]

(* Entries are in use exactly while they have references. *)
Sound(files) == \A i \in Ofds : files[i].used <=> files[i].refs > 0

(* No open file appears, or changes what it stands for. *)
NoneOpened(before, after) ==
  \A i \in Ofds : after[i].used /\ after[i].type = "FILE" =>
    /\ before[i].used /\ before[i].type = "FILE" /\ after[i].inode = before[i].inode

LEMMA AllocOfd ==
  ASSUME NEW files \in Files, NEW type \in {"CONSOLE", "FILE"}, NEW inode \in Nat, Sound(files)
  PROVE  LET r == alloc_ofd(files, type, inode)
             new == [used |-> TRUE, refs |-> 1, type |-> type, inode |-> inode]
         IN  /\ r.files \in Files /\ Sound(r.files) /\ r.ix \in Ofds \cup {None}
             /\ \A i \in Ofds :
                  /\ r.files[i].refs = files[i].refs + Is(r.ix, i)
                  /\ r.files[i] = IF r.ix = i THEN new ELSE files[i]
<1> DEFINE r == alloc_ofd(files, type, inode)
           new == [used |-> TRUE, refs |-> 1, type |-> type, inode |-> inode]
<1>1. \A i \in Ofds : files[i].refs \in Nat
  BY DEF Files, File
<1>2. CASE FreeOfds(files) = {}
  <2>1. r.ix = None /\ r.files = files
    BY <1>2 DEF alloc_ofd
  <2>2. \A i \in Ofds : None # i
    BY DEF None, Ofds
  <2> QED BY <1>1, <2>1, <2>2 DEF Is
<1>3. CASE FreeOfds(files) # {}
  <2>1. Min(FreeOfds(files)) \in FreeOfds(files)
    <3>1. FreeOfds(files) \in SUBSET Nat
      BY FdsAssumption DEF FreeOfds, Ofds
    <3> QED BY <1>3, <3>1, MinIn
  <2> DEFINE k == Min(FreeOfds(files))
  <2>2. k \in Ofds /\ ~files[k].used /\ files[k].refs = 0
    BY <1>1, <2>1 DEF FreeOfds, Sound
  <2>3. r.ix = k /\ r.files = [files EXCEPT ![k] = new]
    BY <1>3 DEF alloc_ofd
  <2>4. new \in File /\ new.refs = 1 /\ new.used
    BY DEF File
  <2> HIDE DEF k, r, new
  <2>5. r.files \in Files
    BY <2>2, <2>3, <2>4 DEF Files
  <2>6. \A i \in Ofds : r.files[i] = IF k = i THEN new ELSE files[i]
    BY <2>2, <2>3 DEF Files
  <2>7. \A i \in Ofds : r.files[i].refs = files[i].refs + Is(k, i)
    BY <1>1, <2>2, <2>4, <2>6 DEF Is
  <2>8. Sound(r.files)
    BY <2>4, <2>6 DEF Sound
  <2> QED BY <2>2, <2>3, <2>5, <2>6, <2>7, <2>8 DEF r, new
<1> QED BY <1>2, <1>3, Zenon

LEMMA PutAll ==
  ASSUME NEW files \in Files, NEW fd, NEW S \in SUBSET Fd, Sound(files),
         \A i \in Ofds : Cardinality(At(fd, i, S)) <= files[i].refs
  PROVE  LET r == put_all(files, fd, S)
         IN  /\ r \in Files /\ Sound(r) /\ NoneOpened(files, r)
             /\ \A i \in Ofds : r[i].refs = files[i].refs - Cardinality(At(fd, i, S))
<1> DEFINE r == put_all(files, fd, S)
<1>1. ASSUME NEW i \in Ofds
      PROVE  /\ r[i] \in File /\ (r[i].used <=> r[i].refs > 0)
             /\ r[i].refs = files[i].refs - Cardinality(At(fd, i, S))
             /\ r[i].used => files[i].used /\ r[i].type = files[i].type
                                           /\ r[i].inode = files[i].inode
  <2> DEFINE n == Cardinality(At(fd, i, S))
  <2>1. n \in Nat /\ n <= files[i].refs
    BY FdFinite
  <2>2. files[i] \in File /\ (files[i].used <=> files[i].refs > 0)
    BY DEF Files, Sound
  <2>3. r[i] = IF n = 0 \/ ~files[i].used THEN files[i]
               ELSE IF files[i].refs = n THEN NoFile ELSE [files[i] EXCEPT !.refs = @ - n]
    BY DEF put_all, At
  <2> HIDE DEF n, r
  <2>4. /\ r[i] \in File /\ (r[i].used <=> r[i].refs > 0)
        /\ r[i].refs = files[i].refs - n
        /\ r[i].used => files[i].used /\ r[i].type = files[i].type
                                      /\ r[i].inode = files[i].inode
    <3>1. CASE n = 0 \/ ~files[i].used
      BY <2>1, <2>2, <2>3, <3>1 DEF File
    <3>2. CASE n # 0 /\ files[i].used /\ files[i].refs = n
      BY <2>1, <2>2, <2>3, <3>2 DEF File, NoFile
    <3>3. CASE n # 0 /\ files[i].used /\ files[i].refs # n
      BY <2>1, <2>2, <2>3, <3>3 DEF File
    <3> QED BY <3>1, <3>2, <3>3
  <2> QED BY <2>4 DEF n
<1>2. r = [i \in Ofds |-> r[i]]
  BY DEF put_all
<1> HIDE DEF r
<1>3. r \in Files
  BY <1>1, <1>2 DEF Files
<1> QED BY <1>1, <1>3 DEF r, Sound, NoneOpened

LEMMA PutOfd ==
  ASSUME NEW files \in Files, NEW i \in Ofds \cup {None}, Sound(files),
         i # None => files[i].refs > 0
  PROVE  LET r == put_ofd(files, i)
         IN  /\ r \in Files /\ Sound(r) /\ NoneOpened(files, r)
             /\ \A j \in Ofds : r[j].refs = files[j].refs - Is(i, j)
             /\ \A j \in Ofds \ {i} : r[j] = files[j]
<1> DEFINE r == put_ofd(files, i)
<1>1. CASE i = None
  <2>1. r = files
    BY <1>1 DEF put_ofd, Ofds, None
  <2>2. i \notin Ofds
    BY <1>1 DEF Ofds, None
  <2> QED BY <2>1, <2>2 DEF NoneOpened, Files, File, Is
<1>2. CASE i \in Ofds
  <2>1. files[i] \in File /\ files[i].used /\ files[i].refs > 0
    BY <1>2 DEF Files, Sound, None, Ofds
  <2>2. r = [files EXCEPT ![i] = IF files[i].refs = 1 THEN NoFile
                                 ELSE [files[i] EXCEPT !.refs = @ - 1]]
    BY <1>2, <2>1, Zenon DEF put_ofd
  <2> DEFINE new == IF files[i].refs = 1 THEN NoFile ELSE [files[i] EXCEPT !.refs = @ - 1]
  <2>3. /\ new \in File /\ new.refs = files[i].refs - 1
        /\ new.used <=> new.refs > 0
        /\ new.used => new.type = files[i].type /\ new.inode = files[i].inode
    BY <2>1 DEF File, NoFile
  <2> HIDE DEF new
  <2>4. r = [files EXCEPT ![i] = new]
    BY <2>2 DEF new
  <2> HIDE DEF r
  <2>5. r[i] = new /\ \A j \in Ofds \ {i} : r[j] = files[j]
    BY <1>2, <2>4 DEF Files
  <2>6. r \in Files
    BY <1>2, <2>3, <2>4 DEF Files
  <2>7. \A j \in Ofds : files[j].refs \in Nat
    BY DEF Files, File
  <2> QED BY <1>2, <2>1, <2>3, <2>5, <2>6, <2>7 DEF r, Sound, NoneOpened, Is
<1> QED BY <1>1, <1>2

LEMMA ConsolesCounted ==
  ASSUME NEW fd, NEW i \in Ofds, \A f \in Fd \ 0 .. 2 : fd[f] = None
  PROVE  Count(fd, i) = Is(fd[0], i) + Is(fd[1], i)
                          + Is(fd[2], i)
<1> DEFINE fd2 == [f \in Fd |-> IF f = 2 THEN None ELSE fd[f]]
           fd1 == [f \in Fd |-> IF f \in 1 .. 2 THEN None ELSE fd[f]]
           fd0 == [f \in Fd |-> None]
<1>1. 0 \in Fd /\ 1 \in Fd /\ 2 \in Fd
  BY FdsAssumption DEF Fd
<1>2. Count(fd0, i) = 0
  <2>1. At(fd0, i, Fd) = {}
    BY DEF At, None, Ofds
  <2> QED BY <2>1, FS_EmptySet DEF Count
<1>3a. \A f \in Fd \ {2} : fd[f] = fd2[f]
  OBVIOUS
<1>3b. \A f \in Fd \ {1} : fd2[f] = fd1[f]
  BY DEF Fd
<1>3c. \A f \in Fd \ {0} : fd1[f] = fd0[f]
  BY DEF Fd
<1>4. /\ fd2[2] = None /\ fd1[1] = None /\ fd0[0] = None
      /\ fd2[1] = fd[1] /\ fd1[0] = fd[0]
  BY <1>1
<1>5. None # i
  BY DEF None, Ofds
<1> HIDE DEF fd0, fd1, fd2
<1>6. Count(fd, i) = Count(fd2, i) - Is(fd2[2], i) + Is(fd[2], i)
  BY <1>1, <1>3a, CountSet
<1>7. Count(fd2, i) = Count(fd1, i) - Is(fd1[1], i) + Is(fd2[1], i)
  BY <1>1, <1>3b, CountSet
<1>8. Count(fd1, i) = Count(fd0, i) - Is(fd0[0], i) + Is(fd1[0], i)
  BY <1>1, <1>3c, CountSet
<1> QED BY <1>2, <1>4, <1>5, <1>6, <1>7, <1>8 DEF Is

(* process_init's three consoles are new entries with one descriptor each, *)
(* or, when one cannot be had, none of them is left.                       *)
LEMMA Consoles ==
  ASSUME NEW files \in Files, Sound(files)
  PROVE  LET c == ConsoleFiles(files)
         IN  /\ c.files \in Files /\ Sound(c.files) /\ NoneOpened(files, c.files)
             /\ c.fd \in Descriptors
             /\ \A i \in Ofds : c.files[i].refs
                                  = files[i].refs + (IF c.ok THEN Count(c.fd, i) ELSE 0)
<1> DEFINE in == alloc_ofd(files, "CONSOLE", 0)
           out == alloc_ofd(in.files, "CONSOLE", 0)
           err == alloc_ofd(out.files, "CONSOLE", 0)
           new == [used |-> TRUE, refs |-> 1, type |-> "CONSOLE", inode |-> 0]
           ok == None \notin {in.ix, out.ix, err.ix}
           fd == [f \in Fd |-> CASE f = 0 -> in.ix [] f = 1 -> out.ix [] f = 2 -> err.ix
                                 [] OTHER -> None]
           back == put_ofd(put_ofd(put_ofd(err.files, in.ix), out.ix), err.ix)
           c == ConsoleFiles(files)
<1>0. c.ok = ok /\ c.fd = fd /\ c.files = IF ok THEN err.files ELSE back
  BY DEF ConsoleFiles
<1> HIDE DEF c
<1>1. /\ in.files \in Files /\ Sound(in.files) /\ in.ix \in Ofds \cup {None}
      /\ \A i \in Ofds : /\ in.files[i].refs = files[i].refs + Is(in.ix, i)
                         /\ in.files[i] = IF in.ix = i THEN new ELSE files[i]
  BY AllocOfd
<1> HIDE DEF in
<1>2. /\ out.files \in Files /\ Sound(out.files) /\ out.ix \in Ofds \cup {None}
      /\ \A i \in Ofds : /\ out.files[i].refs = in.files[i].refs + Is(out.ix, i)
                         /\ out.files[i] = IF out.ix = i THEN new ELSE in.files[i]
  BY <1>1, AllocOfd
<1> HIDE DEF out
<1>3. /\ err.files \in Files /\ Sound(err.files) /\ err.ix \in Ofds \cup {None}
      /\ \A i \in Ofds : /\ err.files[i].refs = out.files[i].refs + Is(err.ix, i)
                         /\ err.files[i] = IF err.ix = i THEN new ELSE out.files[i]
  BY <1>2, AllocOfd
<1> HIDE DEF err
<1>4. /\ fd \in Descriptors
      /\ \A i \in Ofds : Count(fd, i) = Is(in.ix, i)
           + Is(out.ix, i) + Is(err.ix, i)
  <2>1. fd \in Descriptors
    BY <1>1, <1>2, <1>3 DEF Descriptors
  <2>2. 0 \in Fd /\ 1 \in Fd /\ 2 \in Fd
    BY FdsAssumption DEF Fd
  <2>3. /\ fd[0] = in.ix /\ fd[1] = out.ix /\ fd[2] = err.ix
        /\ \A f \in Fd \ 0 .. 2 : fd[f] = None
    BY <2>2
  <2> HIDE DEF fd
  <2> QED BY <2>1, <2>3, ConsolesCounted
<1> HIDE DEF fd
<1>6. \A i \in Ofds : files[i].refs \in Nat
  BY DEF Files, File
<1>7. \A i \in Ofds :
        /\ err.files[i].refs = files[i].refs + Is(in.ix, i)
             + Is(out.ix, i) + Is(err.ix, i)
        /\ err.files[i] = files[i] \/ err.files[i] = new
  BY <1>1, <1>2, <1>3, <1>6
<1>8. NoneOpened(files, err.files)
  BY <1>7 DEF NoneOpened
<1> HIDE DEF new
<1>9. CASE ok
  <2>1. \A i \in Ofds : err.files[i].refs = files[i].refs + Count(fd, i)
    BY <1>4, <1>6, <1>7 DEF Is
  <2>2. c.ok /\ c.fd = fd /\ c.files = err.files
    BY <1>0, <1>9, Zenon
  <2>3. /\ c.files \in Files /\ Sound(c.files) /\ NoneOpened(files, c.files)
        /\ c.fd \in Descriptors
        /\ \A i \in Ofds : c.files[i].refs = files[i].refs + (IF c.ok THEN Count(c.fd, i) ELSE 0)
    BY <1>3, <1>4, <1>8, <2>1, <2>2
  <2> QED BY <2>3 DEF c
<1>10. CASE ~ok
  <2> DEFINE one == put_ofd(err.files, in.ix)
             two == put_ofd(one, out.ix)
  <2>0. /\ in.ix \in Ofds \cup {None} /\ out.ix \in Ofds \cup {None}
        /\ err.ix \in Ofds \cup {None}
        /\ None \notin Ofds
    BY <1>1, <1>2, <1>3 DEF None, Ofds
  <2>1. /\ one \in Files /\ Sound(one) /\ NoneOpened(err.files, one)
        /\ \A j \in Ofds : one[j].refs = err.files[j].refs - Is(in.ix, j)
    <3>1. in.ix # None => err.files[in.ix].refs > 0
      BY <1>6, <1>7, <2>0 DEF Is
    <3> QED BY <1>3, <2>0, <3>1, PutOfd
  <2> HIDE DEF one
  <2>2. /\ two \in Files /\ Sound(two) /\ NoneOpened(one, two)
        /\ \A j \in Ofds : two[j].refs = one[j].refs - Is(out.ix, j)
    <3>1. out.ix # None => one[out.ix].refs > 0
      BY <1>6, <1>7, <2>0, <2>1 DEF Is
    <3> QED BY <2>0, <2>1, <3>1, PutOfd
  <2> HIDE DEF two
  <2>3. /\ back \in Files /\ Sound(back) /\ NoneOpened(two, back)
        /\ \A j \in Ofds : back[j].refs = two[j].refs - Is(err.ix, j)
    <3>1. err.ix # None => two[err.ix].refs > 0
      BY <1>6, <1>7, <2>0, <2>1, <2>2 DEF Is
    <3>2. put_ofd(two, err.ix) = back
      BY DEF two, one
    <3> QED BY <2>0, <2>2, <3>1, <3>2, PutOfd
  <2> HIDE DEF back
  <2>4. NoneOpened(files, back)
    BY <1>8, <2>1, <2>2, <2>3 DEF NoneOpened
  <2>5. \A j \in Ofds : back[j].refs = files[j].refs + 0
    BY <1>6, <1>7, <2>1, <2>2, <2>3 DEF Is
  <2>6. ~c.ok /\ c.fd = fd /\ c.files = back
    BY <1>0, <1>10, Zenon DEF back
  <2>7. /\ c.files \in Files /\ Sound(c.files) /\ NoneOpened(files, c.files)
        /\ c.fd \in Descriptors
        /\ \A i \in Ofds : c.files[i].refs = files[i].refs + (IF c.ok THEN Count(c.fd, i) ELSE 0)
    BY <1>4, <2>3, <2>4, <2>5, <2>6
  <2> QED BY <2>7 DEF c
<1> QED BY <1>9, <1>10

-----------------------------------------------------------------------------
(* The invariant *)

Table == [used : BOOLEAN, pid : Pids \cup {None}, fd : Descriptors, cloexec : SUBSET Fd]
NoFds == [f \in Fd |-> None]

(* Exactness is inductive only with the fact that free tables hold no      *)
(* descriptor: fork and process_init overwrite one without closing it.     *)
Counted ==
  /\ open_files \in Files
  /\ process_fds \in [Tables -> Table]
  /\ \A t \in Tables : ~process_fds[t].used => process_fds[t].fd = NoFds
  /\ RefsExact

Linked ==
  /\ inode_of \in [Names -> Inodes \cup {None}]
  /\ OpenFilesLinked

(* A table holds no more references to a file than the file counts. *)
LEMMA Held ==
  ASSUME Counted, NEW t \in Tables, NEW i \in Ofds
  PROVE  /\ open_files[i].refs \in Nat /\ Sound(open_files)
         /\ Count(process_fds[t].fd, i) \in Nat
         /\ Count(process_fds[t].fd, i) <= open_files[i].refs
         /\ \A f \in Fd : process_fds[t].fd[f] = i => open_files[i].refs > 0
<1>1. open_files[i].refs \in Nat /\ Sound(open_files)
  BY DEF Counted, Files, File, RefsExact, Sound
<1>2. open_files[i].refs = Cardinality(RefsIn(process_fds, i))
  BY DEF Counted, RefsExact, References, RefsIn
<1>3. /\ Count(process_fds[t].fd, i) \in Nat
      /\ Count(process_fds[t].fd, i) <= open_files[i].refs
  <2>1. \A u \in Tables \ {t} : process_fds[u].fd = process_fds[u].fd
    OBVIOUS
  <2>2. /\ Count(process_fds[t].fd, i) \in Nat
        /\ Count(process_fds[t].fd, i) <= Cardinality(RefsIn(process_fds, i))
    BY <2>1, OneTable, Zenon
  <2> QED BY <1>2, <2>2
<1>4. ASSUME NEW f \in Fd, process_fds[t].fd[f] = i
      PROVE  Count(process_fds[t].fd, i) # 0
  <2>1. f \in At(process_fds[t].fd, i, Fd)
    BY <1>4 DEF At
  <2>2. Count(process_fds[t].fd, i) = 0 <=> At(process_fds[t].fd, i, Fd) = {}
    BY FdFinite DEF Count
  <2> QED BY <2>1, <2>2
<1> QED BY <1>1, <1>3, <1>4

LEMMA NoFdsCount ==
  ASSUME NEW i \in Ofds
  PROVE  Count(NoFds, i) = 0 /\ NoFds \in Descriptors
<1>1. At(NoFds, i, Fd) = {}
  BY DEF At, NoFds, None, Ofds
<1> QED BY <1>1, FS_EmptySet DEF Count, NoFds, Descriptors

LEMMA TableReplaced ==
  \A t \in Tables : \A i, before, after :
    (\A u \in Tables \ {t} : after[u].fd = before[u].fd)
      => Cardinality(RefsIn(after, i)) = Cardinality(RefsIn(before, i))
           - Count(before[t].fd, i) + Count(after[t].fd, i)
BY OneTable

(* A step that replaces table t, and counts what it replaces. *)
LEMMA TableStep ==
  ASSUME Counted, NEW t \in Tables, NEW table \in Table, ~table.used => table.fd = NoFds,
         open_files' \in Files, Sound(open_files)',
         process_fds' = [process_fds EXCEPT ![t] = table],
         \A i \in Ofds : open_files'[i].refs = open_files[i].refs
                           - Count(process_fds[t].fd, i) + Count(table.fd, i)
  PROVE  Counted'
<1>1. process_fds' \in [Tables -> Table]
  BY DEF Counted
<1>2. process_fds'[t] = table /\ \A u \in Tables \ {t} : process_fds'[u] = process_fds[u]
  BY DEF Counted
<1>3. \A u \in Tables : ~process_fds'[u].used => process_fds'[u].fd = NoFds
  BY <1>2 DEF Counted
<1>4. ASSUME NEW i \in Ofds
      PROVE  open_files'[i].refs = Cardinality(RefsIn(process_fds', i))
  <2>1. open_files[i].refs = Cardinality(RefsIn(process_fds, i))
    BY DEF Counted, RefsExact, References, RefsIn
  <2>2. \A u \in Tables \ {t} : process_fds'[u].fd = process_fds[u].fd
    BY <1>2
  <2>3. \A after : (\A u \in Tables \ {t} : after[u].fd = process_fds[u].fd)
          => Cardinality(RefsIn(after, i)) = Cardinality(RefsIn(process_fds, i))
               - Count(process_fds[t].fd, i) + Count(after[t].fd, i)
    BY TableReplaced
  <2>4. Cardinality(RefsIn(process_fds', i)) = Cardinality(RefsIn(process_fds, i))
          - Count(process_fds[t].fd, i) + Count(process_fds'[t].fd, i)
    BY <2>2, <2>3, Zenon
  <2> QED BY <1>2, <2>1, <2>4
<1>5. RefsExact'
  BY <1>4 DEF RefsExact, References, RefsIn, Sound
<1> QED BY <1>1, <1>3, <1>5 DEF Counted, NoFds

(* A step that changes no table, and no count. *)
LEMMA NoTableStep ==
  ASSUME Counted, open_files' \in Files, Sound(open_files)', process_fds' = process_fds,
         \A i \in Ofds : open_files'[i].refs = open_files[i].refs
  PROVE  Counted'
BY DEF Counted, RefsExact, References, Sound, NoFds

LEMMA FindProcess ==
  ASSUME Counted, NEW p, HasTable(p)
  PROVE  /\ find_process(p) \in Tables
         /\ process_fds[find_process(p)] \in Table /\ process_fds[find_process(p)].used
BY DEF HasTable, find_process, UsedTables, Counted

LEMMA FreeTable ==
  ASSUME Counted, UsedTables # Tables
  PROVE  LET t == Min(Tables \ UsedTables)
         IN  /\ t \in Tables /\ process_fds[t].fd = NoFds
<1>1. Tables \ UsedTables \in SUBSET Nat /\ Tables \ UsedTables # {}
  BY FdsAssumption DEF UsedTables, Tables
<1>2. Min(Tables \ UsedTables) \in Tables \ UsedTables
  BY <1>1, MinIn
<1> QED BY <1>2 DEF UsedTables, Counted

-----------------------------------------------------------------------------
(* Each operation keeps the counts, and only open brings open files.       *)

LEMMA InitStep ==
  ASSUME Counted, NEW p \in Pids, minifs_process_init(p)
  PROVE  Counted' /\ NoneOpened(open_files, open_files')
<1> DEFINE c == ConsoleFiles(open_files)
           t == Min(Tables \ UsedTables)
           table == [used |-> TRUE, pid |-> p, fd |-> c.fd, cloexec |-> {}]
<1>1. open_files \in Files /\ Sound(open_files) /\ \A i \in Ofds : open_files[i].refs \in Nat
  BY DEF Counted, RefsExact, Sound, Files, File
<1>2. /\ c.files \in Files /\ Sound(c.files) /\ NoneOpened(open_files, c.files)
      /\ c.fd \in Descriptors
      /\ \A i \in Ofds : c.files[i].refs
                           = open_files[i].refs + (IF c.ok THEN Count(c.fd, i) ELSE 0)
  BY <1>1, Consoles
<1>3. t \in Tables /\ process_fds[t].fd = NoFds
  BY FreeTable DEF minifs_process_init
<1>4. /\ open_files' = c.files
      /\ process_fds' = IF c.ok THEN [process_fds EXCEPT ![t] = table] ELSE process_fds
  BY DEF minifs_process_init
<1> HIDE DEF c, t
<1>5. CASE c.ok
  <2>1. table \in Table /\ table.used /\ table.fd = c.fd
    BY <1>2 DEF Table
  <2>2. \A i \in Ofds : Count(c.fd, i) \in Nat
    BY FdFinite DEF Count
  <2>3. \A i \in Ofds : open_files'[i].refs = open_files[i].refs
                          - Count(process_fds[t].fd, i) + Count(table.fd, i)
    BY <1>1, <1>2, <1>3, <1>4, <1>5, <2>1, <2>2, NoFdsCount
  <2>4. process_fds' = [process_fds EXCEPT ![t] = table]
    BY <1>4, <1>5
  <2> HIDE DEF table
  <2>5. Counted'
    BY <1>2, <1>3, <1>4, <2>1, <2>3, <2>4, TableStep, Zenon
  <2> QED BY <1>2, <1>4, <2>5
<1>6. CASE ~c.ok
  <2>1. Counted'
    BY <1>1, <1>2, <1>4, <1>6, NoTableStep
  <2> QED BY <1>2, <1>4, <2>1
<1> QED BY <1>5, <1>6

LEMMA ForkStep ==
  ASSUME Counted, NEW p \in Pids, NEW child \in Pids, minifs_process_fork(p, child)
  PROVE  Counted' /\ NoneOpened(open_files, open_files')
<1> DEFINE c == ConsoleFiles(open_files)
           t == Min(Tables \ UsedTables)
           parent == process_fds[find_process(p)]
           table == [parent EXCEPT !.pid = child]
           back == put_all(c.files, c.fd, Fd)
           shared == Share(back, parent.fd)
<1>1. open_files \in Files /\ Sound(open_files) /\ \A i \in Ofds : open_files[i].refs \in Nat
  BY DEF Counted, RefsExact, Sound, Files, File
<1>2. /\ c.files \in Files /\ Sound(c.files) /\ NoneOpened(open_files, c.files)
      /\ \A i \in Ofds : c.files[i].refs
                           = open_files[i].refs + (IF c.ok THEN Count(c.fd, i) ELSE 0)
  BY <1>1, Consoles
<1>3. t \in Tables /\ process_fds[t].fd = NoFds
  BY FreeTable DEF minifs_process_fork
<1>4. find_process(p) \in Tables /\ parent \in Table /\ parent.used
  BY FindProcess DEF minifs_process_fork
<1>5. IF c.ok THEN /\ open_files' = shared
                   /\ process_fds' = [process_fds EXCEPT ![t] = table]
              ELSE open_files' = c.files /\ process_fds' = process_fds
  BY DEF minifs_process_fork
<1> HIDE DEF c, t
<1>6. CASE c.ok
  <2>1. \A i \in Ofds : Cardinality(At(c.fd, i, Fd)) \in Nat
    BY FdFinite
  <2>2. \A i \in Ofds : Cardinality(At(c.fd, i, Fd)) <= c.files[i].refs
    BY <1>1, <1>2, <1>6, <2>1 DEF Count
  <2>3. /\ back \in Files /\ Sound(back) /\ NoneOpened(c.files, back)
        /\ \A i \in Ofds : back[i].refs = c.files[i].refs - Cardinality(At(c.fd, i, Fd))
    BY <1>2, <2>2, PutAll
  <2>4. \A i \in Ofds : back[i].refs = open_files[i].refs
    BY <1>1, <1>2, <1>6, <2>1, <2>3 DEF Count
  <2>5. \A i \in Ofds : /\ Count(parent.fd, i) \in Nat
                        /\ Count(parent.fd, i) <= open_files[i].refs
    BY <1>4, Held
  <2> HIDE DEF back, parent
  <2>6. shared = [i \in Ofds |-> [back[i] EXCEPT !.refs = @ + Count(parent.fd, i)]]
    BY DEF Share, Count, At
  <2> HIDE DEF shared
  <2>7. ASSUME NEW i \in Ofds
        PROVE  /\ shared[i] \in File /\ (shared[i].used <=> shared[i].refs > 0)
               /\ shared[i].refs = open_files[i].refs + Count(parent.fd, i)
               /\ shared[i].used = back[i].used /\ shared[i].type = back[i].type
               /\ shared[i].inode = back[i].inode
    <3>1. back[i] \in File /\ (back[i].used <=> back[i].refs > 0)
      BY <2>3 DEF Files, Sound
    <3>2. shared[i] = [back[i] EXCEPT !.refs = back[i].refs + Count(parent.fd, i)]
      BY <2>6, <3>1 DEF File
    <3> QED BY <1>1, <2>4, <2>5, <3>1, <3>2 DEF File
  <2>8. shared \in Files /\ Sound(shared) /\ NoneOpened(open_files, shared)
    <3>1. shared \in Files
      BY <2>6, <2>7 DEF Files
    <3>2. NoneOpened(open_files, shared)
      BY <1>2, <2>3, <2>7 DEF NoneOpened
    <3> QED BY <2>7, <3>1, <3>2 DEF Sound
  <2>9. table \in Table /\ table.used /\ table.fd = parent.fd
    BY <1>4 DEF Table
  <2>10. \A i \in Ofds : open_files'[i].refs = open_files[i].refs
                           - Count(process_fds[t].fd, i) + Count(table.fd, i)
    BY <1>1, <1>3, <1>5, <1>6, <2>5, <2>7, <2>9, NoFdsCount
  <2>11. open_files' = shared /\ process_fds' = [process_fds EXCEPT ![t] = table]
    BY <1>5, <1>6
  <2> HIDE DEF table
  <2>12. Counted'
    BY <1>3, <2>8, <2>9, <2>10, <2>11, TableStep, Zenon
  <2> QED BY <2>8, <2>11, <2>12
<1>7. CASE ~c.ok
  <2>1. Counted'
    BY <1>1, <1>2, <1>5, <1>7, NoTableStep
  <2> QED BY <1>2, <1>5, <1>7, <2>1
<1> QED BY <1>6, <1>7

LEMMA CloseAllStep ==
  ASSUME Counted, NEW p, minifs_close_all(p)
  PROVE  Counted' /\ NoneOpened(open_files, open_files')
<1> DEFINE t == find_process(p)
           fd == process_fds[t].fd
<1>1. open_files \in Files /\ Sound(open_files) /\ \A i \in Ofds : open_files[i].refs \in Nat
  BY DEF Counted, RefsExact, Sound, Files, File
<1>2. t \in Tables
  BY FindProcess DEF minifs_close_all
<1>3. \A i \in Ofds : Count(fd, i) \in Nat /\ Count(fd, i) <= open_files[i].refs
  BY <1>2, Held
<1>4. /\ open_files' = put_all(open_files, fd, Fd)
      /\ process_fds' = [process_fds EXCEPT ![t] = NoTable]
  BY DEF minifs_close_all
<1> HIDE DEF t, fd
<1>5. /\ open_files' \in Files /\ Sound(open_files)' /\ NoneOpened(open_files, open_files')
      /\ \A i \in Ofds : open_files'[i].refs = open_files[i].refs - Count(fd, i)
  BY <1>1, <1>3, <1>4, PutAll DEF Count
<1>6. NoTable \in Table /\ NoTable.fd = NoFds
  BY DEF NoTable, Table, NoFds, Descriptors
<1>7. \A i \in Ofds : open_files'[i].refs = open_files[i].refs
                        - Count(process_fds[t].fd, i) + Count(NoTable.fd, i)
  BY <1>1, <1>3, <1>5, <1>6, NoFdsCount DEF fd
<1> QED BY <1>2, <1>4, <1>5, <1>6, <1>7, TableStep, Zenon

LEMMA CloseExecStep ==
  ASSUME Counted, NEW p, minifs_close_exec_fds(p)
  PROVE  Counted' /\ NoneOpened(open_files, open_files')
<1> DEFINE t == find_process(p)
           fd == process_fds[t].fd
           closed == process_fds[t].cloexec
           kept == [f \in Fd |-> IF f \in closed THEN None ELSE fd[f]]
           table == [process_fds[t] EXCEPT !.fd = kept, !.cloexec = {}]
<1>1. open_files \in Files /\ Sound(open_files) /\ \A i \in Ofds : open_files[i].refs \in Nat
  BY DEF Counted, RefsExact, Sound, Files, File
<1>2. t \in Tables /\ process_fds[t] \in Table /\ process_fds[t].used
  BY FindProcess DEF minifs_close_exec_fds
<1>3. \A i \in Ofds : Count(fd, i) \in Nat /\ Count(fd, i) <= open_files[i].refs
  BY <1>2, Held
<1>4. closed \in SUBSET Fd /\ fd \in Descriptors
  BY <1>2 DEF Table
<1>5. /\ open_files' = put_all(open_files, fd, closed)
      /\ process_fds' = [process_fds EXCEPT ![t] = table]
  BY <1>2, Zenon DEF minifs_close_exec_fds, Counted, Table
<1>6. \A i \in Ofds : /\ Count(kept, i) = Count(fd, i) - Cardinality(At(fd, i, closed))
                      /\ Cardinality(At(fd, i, closed)) <= Count(fd, i)
                      /\ Cardinality(At(fd, i, closed)) \in Nat
  BY <1>4, CountClosed, FdFinite, Zenon
<1>7. table \in Table /\ table.used /\ table.fd = kept
  BY <1>2, <1>4, Zenon DEF Table, Descriptors
<1> HIDE DEF t, fd, closed, kept, table
<1>8. \A i \in Ofds : Cardinality(At(fd, i, closed)) <= open_files[i].refs
  BY <1>1, <1>3, <1>6
<1>9. /\ open_files' \in Files /\ Sound(open_files)' /\ NoneOpened(open_files, open_files')
      /\ \A i \in Ofds : open_files'[i].refs = open_files[i].refs - Cardinality(At(fd, i, closed))
  BY <1>1, <1>4, <1>5, <1>8, PutAll
<1>10. \A i \in Ofds : open_files'[i].refs = open_files[i].refs
                         - Count(process_fds[t].fd, i) + Count(table.fd, i)
  BY <1>1, <1>3, <1>6, <1>7, <1>9 DEF fd
<1> QED BY <1>2, <1>5, <1>7, <1>9, <1>10, TableStep, Zenon

LEMMA SetCloexecStep ==
  ASSUME Counted, NEW p, NEW f \in Fd, NEW on, minifs_set_cloexec(p, f, on)
  PROVE  Counted' /\ NoneOpened(open_files, open_files')
<1> DEFINE t == find_process(p)
           table == [process_fds[t] EXCEPT !.cloexec = IF on THEN @ \cup {f} ELSE @ \ {f}]
<1>1. open_files \in Files /\ Sound(open_files) /\ \A i \in Ofds : open_files[i].refs \in Nat
  BY DEF Counted, RefsExact, Sound, Files, File
<1>2. t \in Tables /\ process_fds[t] \in Table /\ process_fds[t].used
  BY FindProcess DEF minifs_set_cloexec
<1>3. open_files' = open_files /\ process_fds' = [process_fds EXCEPT ![t] = table]
  BY <1>2 DEF minifs_set_cloexec, Counted, Table
<1>4. table \in Table /\ table.used /\ table.fd = process_fds[t].fd
  BY <1>2 DEF Table
<1>5. \A i \in Ofds : Count(process_fds[t].fd, i) \in Nat
  BY <1>2, Held
<1> HIDE DEF t, table
<1>6. \A i \in Ofds : open_files'[i].refs = open_files[i].refs
                        - Count(process_fds[t].fd, i) + Count(table.fd, i)
  BY <1>1, <1>3, <1>4, <1>5
<1>7. Counted'
  BY <1>1, <1>2, <1>3, <1>4, <1>6, TableStep, Zenon
<1> QED BY <1>3, <1>7 DEF NoneOpened

LEMMA CloseStep ==
  ASSUME Counted, NEW p, NEW f \in Fd, minifs_close(p, f)
  PROVE  Counted' /\ NoneOpened(open_files, open_files')
<1> DEFINE t == find_process(p)
           fd == process_fds[t].fd
           table == [process_fds[t] EXCEPT !.fd[f] = None, !.cloexec = @ \ {f}]
<1>1. open_files \in Files /\ Sound(open_files) /\ \A i \in Ofds : open_files[i].refs \in Nat
  BY DEF Counted, RefsExact, Sound, Files, File
<1>2. t \in Tables /\ process_fds[t] \in Table /\ process_fds[t].used /\ fd \in Descriptors
  BY FindProcess DEF minifs_close, Table
<1>3. /\ open_files' = put_ofd(open_files, fd[f])
      /\ process_fds' = [process_fds EXCEPT ![t] = table]
  BY <1>2, Zenon DEF minifs_close, Counted, Table
<1>4. fd[f] \in Ofds /\ open_files[fd[f]].refs > 0
  <2>1. fd[f] \in Ofds
    BY <1>2 DEF minifs_close, Descriptors
  <2> QED BY <1>2, <2>1, Held
<1>5. /\ table \in Table /\ table.used /\ table.fd[f] = None
      /\ \A g \in Fd \ {f} : table.fd[g] = fd[g]
  BY <1>2, Zenon DEF Table, Descriptors
<1>6. \A i \in Ofds : Count(fd, i) \in Nat
  BY <1>2, Held
<1> HIDE DEF t, fd, table
<1>7. \A i \in Ofds : Count(table.fd, i) = Count(fd, i) - Is(fd[f], i)
  <2>0. ASSUME NEW i \in Ofds
        PROVE  \A after : (\A g \in Fd \ {f} : after[g] = fd[g])
                 => Count(after, i) = Count(fd, i) - Is(fd[f], i) + Is(after[f], i)
    BY CountSet
  <2>1. \A i \in Ofds : Count(table.fd, i) = Count(fd, i) - Is(fd[f], i) + Is(table.fd[f], i)
    BY <1>5, <2>0
  <2>2. \A i \in Ofds : Is(table.fd[f], i) = 0
    BY <1>5 DEF Is, None, Ofds
  <2> QED BY <1>6, <2>1, <2>2 DEF Is
<1>8. /\ open_files' \in Files /\ Sound(open_files)' /\ NoneOpened(open_files, open_files')
      /\ \A i \in Ofds : open_files'[i].refs = open_files[i].refs - Is(fd[f], i)
  BY <1>1, <1>3, <1>4, PutOfd
<1>9. \A i \in Ofds : open_files'[i].refs = open_files[i].refs
                        - Count(process_fds[t].fd, i) + Count(table.fd, i)
  BY <1>1, <1>6, <1>7, <1>8 DEF fd, Is
<1> QED BY <1>2, <1>3, <1>5, <1>8, <1>9, TableStep, Zenon

LEMMA Dup2Step ==
  ASSUME Counted, NEW p, NEW old \in Fd, NEW new \in Fd, minifs_dup2(p, old, new)
  PROVE  Counted' /\ NoneOpened(open_files, open_files')
<1> DEFINE t == find_process(p)
           fd == process_fds[t].fd
           o == fd[old]
           table == [process_fds[t] EXCEPT !.fd[new] = o, !.cloexec = @ \ {new}]
           back == put_ofd(open_files, fd[new])
<1>1. open_files \in Files /\ Sound(open_files) /\ \A i \in Ofds : open_files[i].refs \in Nat
  BY DEF Counted, RefsExact, Sound, Files, File
<1>2. t \in Tables /\ process_fds[t] \in Table /\ process_fds[t].used /\ fd \in Descriptors
  BY FindProcess DEF minifs_dup2, Table
<1>3. /\ open_files' = [back EXCEPT ![o].refs = @ + 1]
      /\ process_fds' = [process_fds EXCEPT ![t] = table]
  BY <1>2, Zenon DEF minifs_dup2, Counted, Table
<1>4. o \in Ofds /\ old # new
  BY <1>2 DEF minifs_dup2, Descriptors
<1>5. /\ table \in Table /\ table.used /\ table.fd[new] = o
      /\ \A g \in Fd \ {new} : table.fd[g] = fd[g]
  BY <1>2, <1>4, Zenon DEF Table, Descriptors
<1>6. \A i \in Ofds : /\ Count(fd, i) \in Nat /\ Count(fd, i) <= open_files[i].refs
                      /\ \A f \in Fd : fd[f] = i => open_files[i].refs > 0
  BY <1>2, Held
<1>7. \A i \in Ofds : Count(table.fd, i) = Count(fd, i) - Is(fd[new], i) + Is(o, i)
  <2> HIDE DEF t, fd, table, o
  <2>0. ASSUME NEW i \in Ofds
        PROVE  \A after : (\A g \in Fd \ {new} : after[g] = fd[g])
                 => Count(after, i) = Count(fd, i) - Is(fd[new], i) + Is(after[new], i)
    BY CountSet
  <2>1. \A i \in Ofds : Count(table.fd, i) = Count(fd, i) - Is(fd[new], i) + Is(table.fd[new], i)
    BY <1>5, <2>0
  <2> QED BY <1>5, <2>1
<1>8. fd[new] \in Ofds \cup {None}
  BY <1>2 DEF Descriptors
<1> HIDE DEF t, fd, table
<1>9. /\ back \in Files /\ Sound(back) /\ NoneOpened(open_files, back)
      /\ \A i \in Ofds : back[i].refs = open_files[i].refs - Is(fd[new], i)
  BY <1>1, <1>6, <1>8, PutOfd
(* What old names is still open: if new named it too, it had two.          *)
<1>10. back[o].refs > 0
  <2>2. CASE fd[new] = o
    <3>1. old \in At(fd, o, Fd) /\ new \in At(fd, o, Fd)
      BY <2>2 DEF At
    <3>2. IsFiniteSet(At(fd, o, Fd))
      BY FdFinite
    <3>3. Cardinality(At(fd, o, Fd)) # 1
      BY <1>4, <3>1, <3>2, FS_Singleton
    <3>4. Cardinality(At(fd, o, Fd)) # 0
      BY <3>1, FdFinite
    <3>5. Count(fd, o) > 1
      BY <1>4, <1>6, <3>3, <3>4 DEF Count
    <3> QED BY <1>1, <1>4, <1>6, <1>9, <2>2, <3>5 DEF Is
  <2>3. CASE fd[new] # o
    <3>1. open_files[o].refs > 0
      BY <1>4, <1>6
    <3> QED BY <1>1, <1>4, <1>9, <2>3, <3>1 DEF Is
  <2> QED BY <2>2, <2>3
<1> HIDE DEF back, o
<1>11. ASSUME NEW i \in Ofds
       PROVE  /\ open_files'[i] \in File
              /\ open_files'[i].refs = back[i].refs + Is(o, i)
              /\ open_files'[i].used = back[i].used /\ open_files'[i].type = back[i].type
              /\ open_files'[i].inode = back[i].inode
              /\ open_files'[i].used <=> open_files'[i].refs > 0
  <2>1. back[i] \in File /\ (back[i].used <=> back[i].refs > 0)
    BY <1>9 DEF Files, Sound
  <2>2. open_files'[i] = IF i = o THEN [back[i] EXCEPT !.refs = back[i].refs + 1] ELSE back[i]
    BY <1>3, <1>9 DEF Files, File
  <2>3. CASE i = o
    BY <1>10, <2>1, <2>2, <2>3 DEF File, Is
  <2>4. CASE i # o
    BY <2>1, <2>2, <2>4 DEF File, Is
  <2> QED BY <2>3, <2>4
<1>12. open_files' \in Files /\ Sound(open_files)' /\ NoneOpened(open_files, open_files')
  <2>1. open_files' = [i \in Ofds |-> open_files'[i]]
    BY <1>3, <1>9, Zenon DEF Files
  <2>2. open_files' \in Files
    BY <1>11, <2>1 DEF Files
  <2>3. NoneOpened(open_files, open_files')
    BY <1>9, <1>11 DEF NoneOpened
  <2> QED BY <1>11, <2>2, <2>3 DEF Sound
<1>13. \A i \in Ofds : open_files'[i].refs = open_files[i].refs
                         - Count(process_fds[t].fd, i) + Count(table.fd, i)
  <2>1. \A i \in Ofds : Is(o, i) \in Nat /\ Is(fd[new], i) \in Nat
    BY DEF Is
  <2>2. ASSUME NEW i \in Ofds
        PROVE  open_files'[i].refs = open_files[i].refs - Count(fd, i) + Count(table.fd, i)
    <3>1. open_files'[i].refs = open_files[i].refs - Is(fd[new], i) + Is(o, i)
      BY <1>9, <1>11
    <3>2. Count(table.fd, i) = Count(fd, i) - Is(fd[new], i) + Is(o, i)
      BY <1>7
    <3>3. open_files[i].refs \in Nat /\ Count(fd, i) \in Nat
      BY <1>1, <1>6
    <3> QED BY <2>1, <3>1, <3>2, <3>3
  <2> QED BY <2>2 DEF fd
<1> QED BY <1>2, <1>3, <1>5, <1>12, <1>13, TableStep, Zenon

LEMMA OpenStep ==
  ASSUME Counted, inode_of \in [Names -> Inodes \cup {None}],
         NEW p, NEW n \in Names, NEW create, minifs_open(p, n, create)
  PROVE  /\ Counted'
         /\ \E number \in Inodes :
              /\ inode_of[n] # None => number = inode_of[n]
              /\ inode_of[n] = None => \A m \in Names : inode_of[m] # number
              /\ inode_of' = [inode_of EXCEPT ![n] = number]
              /\ \A i \in Ofds : open_files'[i].used /\ open_files'[i].type = "FILE" =>
                   \/ open_files'[i].inode = number
                   \/ /\ open_files[i].used /\ open_files[i].type = "FILE"
                      /\ open_files'[i].inode = open_files[i].inode
<1> DEFINE t == find_process(p)
           fd == process_fds[t].fd
           number == IF inode_of[n] # None THEN inode_of[n] ELSE Min(FreeInodes)
           r == alloc_ofd(open_files, "FILE", number)
           new == [used |-> TRUE, refs |-> 1, type |-> "FILE", inode |-> number]
           f == Min(FreeFds(process_fds[t]))
           table == [process_fds[t] EXCEPT !.fd[f] = r.ix, !.cloexec = @ \ {f}]
<1>1. open_files \in Files /\ Sound(open_files) /\ \A i \in Ofds : open_files[i].refs \in Nat
  BY DEF Counted, RefsExact, Sound, Files, File
<1>2. t \in Tables /\ process_fds[t] \in Table /\ process_fds[t].used /\ fd \in Descriptors
  BY FindProcess DEF minifs_open, Table
<1>3. /\ number \in Inodes /\ number \in Nat
      /\ inode_of[n] # None => number = inode_of[n]
      /\ inode_of[n] = None => \A m \in Names : inode_of[m] # number
  <2>1. Inodes \in SUBSET Nat
    BY FdsAssumption DEF Inodes
  <2>2. CASE inode_of[n] # None
    BY <2>1, <2>2, Zenon
  <2>3. CASE inode_of[n] = None
    <3>1. FreeInodes \in SUBSET Nat /\ FreeInodes # {}
      BY <2>1, <2>3, Zenon DEF minifs_open, CanOpen, FreeInodes
    <3>2. Min(FreeInodes) \in FreeInodes
      BY <3>1, MinIn
    <3> QED BY <2>1, <2>3, <3>2, Zenon DEF FreeInodes
  <2> QED BY <2>2, <2>3
<1>4. /\ inode_of' = [inode_of EXCEPT ![n] = number]
      /\ IF r.ix = None THEN open_files' = open_files /\ process_fds' = process_fds
         ELSE IF FreeFds(process_fds[t]) = {}
         THEN open_files' = put_ofd(r.files, r.ix) /\ process_fds' = process_fds
         ELSE /\ open_files' = r.files
              /\ process_fds' = [process_fds EXCEPT ![t] = table]
  BY <1>2 DEF minifs_open, install_fd, Counted
<1> HIDE DEF number
<1>5. /\ r.files \in Files /\ Sound(r.files) /\ r.ix \in Ofds \cup {None}
      /\ \A i \in Ofds : /\ r.files[i].refs = open_files[i].refs + Is(r.ix, i)
                         /\ r.files[i] = IF r.ix = i THEN new ELSE open_files[i]
  BY <1>1, <1>3, AllocOfd
<1> HIDE DEF r, t
<1>5a. \A i \in Ofds : r.files[i].used /\ r.files[i].type = "FILE" =>
       \/ r.files[i].inode = number
       \/ /\ open_files[i].used /\ open_files[i].type = "FILE"
          /\ r.files[i].inode = open_files[i].inode
  <2>1. ASSUME NEW i \in Ofds PROVE r.files[i] = open_files[i] \/ r.files[i] = new
    BY <1>5, Zenon
  <2>2. new.inode = number
    OBVIOUS
  <2> HIDE DEF new
  <2> QED BY <2>1, <2>2
<1>6. CASE r.ix = None
  <2>1. open_files' = open_files /\ process_fds' = process_fds
    BY <1>4, <1>6
  <2>2. Counted'
    BY <1>1, <2>1, NoTableStep
  <2> QED BY <1>3, <1>4, <2>1, <2>2, Zenon
<1>7. CASE r.ix # None /\ FreeFds(process_fds[t]) = {}
  <2>1. open_files' = put_ofd(r.files, r.ix) /\ process_fds' = process_fds
    BY <1>4, <1>7
  <2>2. r.files[r.ix].refs > 0
    BY <1>5, <1>7
  <2>3. /\ open_files' \in Files /\ Sound(open_files)' /\ NoneOpened(r.files, open_files')
        /\ \A i \in Ofds : open_files'[i].refs = r.files[i].refs - Is(r.ix, i)
    BY <1>5, <2>1, <2>2, PutOfd
  <2>4. \A i \in Ofds : open_files'[i].refs = open_files[i].refs
    <3>1. ASSUME NEW i \in Ofds PROVE open_files'[i].refs = open_files[i].refs
      <4>1. r.files[i].refs = open_files[i].refs + Is(r.ix, i)
        BY <1>5
      <4>2. open_files'[i].refs = r.files[i].refs - Is(r.ix, i)
        BY <2>3
      <4>3. open_files[i].refs \in Nat /\ Is(r.ix, i) \in Nat
        BY <1>1 DEF Is
      <4> QED BY <4>1, <4>2, <4>3
    <3> QED BY <3>1
  <2>5. Counted'
    BY <2>1, <2>3, <2>4, NoTableStep
  <2>6. \A i \in Ofds : open_files'[i].used /\ open_files'[i].type = "FILE" =>
          \/ open_files'[i].inode = number
          \/ /\ open_files[i].used /\ open_files[i].type = "FILE"
             /\ open_files'[i].inode = open_files[i].inode
    BY <1>5a, <2>3 DEF NoneOpened
  <2> QED BY <1>3, <1>4, <2>5, <2>6, Zenon
<1>8. CASE r.ix # None /\ FreeFds(process_fds[t]) # {}
  <2>1. f \in Fd /\ fd[f] = None
    <3>1. FreeFds(process_fds[t]) \in SUBSET Nat
      BY FdsAssumption DEF FreeFds, Fd
    <3>2. f \in FreeFds(process_fds[t])
      BY <1>8, <3>1, MinIn
    <3> QED BY <3>2 DEF FreeFds
  <2>2. open_files' = r.files /\ process_fds' = [process_fds EXCEPT ![t] = table]
    BY <1>4, <1>8
  <2> HIDE DEF f
  <2>3. /\ table \in Table /\ table.used /\ table.fd[f] = r.ix
        /\ \A g \in Fd \ {f} : table.fd[g] = fd[g]
    BY <1>2, <1>5, <1>8, <2>1, Zenon DEF Table, Descriptors
  <2>4. \A i \in Ofds : Count(fd, i) \in Nat
    BY <1>2, Held
  <2> HIDE DEF fd, table
  <2>5. \A i \in Ofds : Count(table.fd, i) = Count(fd, i) + Is(r.ix, i)
    <3>0. ASSUME NEW i \in Ofds
          PROVE  \A after : (\A g \in Fd \ {f} : after[g] = fd[g])
                   => Count(after, i) = Count(fd, i) - Is(fd[f], i) + Is(after[f], i)
      BY <2>1, CountSet
    <3>1. \A i \in Ofds : Count(table.fd, i) = Count(fd, i) - Is(fd[f], i) + Is(table.fd[f], i)
      BY <2>3, <3>0
    <3>2. \A i \in Ofds : Is(fd[f], i) = 0
      BY <2>1 DEF Is, None, Ofds
    <3> QED BY <2>3, <2>4, <3>1, <3>2 DEF Is
  <2>6. \A i \in Ofds : open_files'[i].refs = open_files[i].refs
                          - Count(process_fds[t].fd, i) + Count(table.fd, i)
    <3>1. ASSUME NEW i \in Ofds
          PROVE  open_files'[i].refs = open_files[i].refs - Count(fd, i) + Count(table.fd, i)
      <4>1. open_files'[i].refs = open_files[i].refs + Is(r.ix, i)
        BY <1>5, <2>2
      <4>2. /\ open_files[i].refs \in Nat /\ Is(r.ix, i) \in Nat
            /\ Count(fd, i) \in Nat /\ Count(table.fd, i) = Count(fd, i) + Is(r.ix, i)
        BY <1>1, <2>4, <2>5 DEF Is
      <4> QED BY <4>1, <4>2
    <3> QED BY <3>1 DEF fd
  <2>7. Counted'
    BY <1>2, <1>5, <2>2, <2>3, <2>6, TableStep, Zenon
  <2>8. \A i \in Ofds : open_files'[i].used /\ open_files'[i].type = "FILE" =>
          \/ open_files'[i].inode = number
          \/ /\ open_files[i].used /\ open_files[i].type = "FILE"
             /\ open_files'[i].inode = open_files[i].inode
    BY <1>5a, <2>2
  <2> QED BY <1>3, <1>4, <2>7, <2>8, Zenon
<1> QED BY <1>6, <1>7, <1>8

LEMMA CountedStutter ==
  Counted /\ UNCHANGED <<open_files, process_fds>> => Counted'
BY DEF Counted, RefsExact, References

(* Every step keeps the counts. *)
LEMMA CountedNext ==
  ASSUME Counted, inode_of \in [Names -> Inodes \cup {None}], [Next]_vars
  PROVE  Counted'
<1>1. CASE UNCHANGED vars
  BY <1>1, CountedStutter DEF vars
<1>2. ASSUME NEW p \in Pids, NEW n \in Names, minifs_unlink(p, n)
      PROVE  Counted'
  BY <1>2, CountedStutter DEF minifs_unlink
<1> QED
  BY <1>1, <1>2, InitStep, ForkStep, CloseAllStep, CloseExecStep, SetCloexecStep, CloseStep,
     Dup2Step, OpenStep, Zenon DEF Next

(* Every step keeps the names of open files. *)
LEMMA LinkedNext ==
  ASSUME Counted, Linked, [Next]_vars
  PROVE  Linked'
<1>1. ASSUME inode_of' = inode_of, NoneOpened(open_files, open_files')
      PROVE  Linked'
  BY <1>1 DEF Linked, OpenFilesLinked, NoneOpened
<1>2. CASE UNCHANGED vars
  BY <1>2, <1>1 DEF vars, NoneOpened
<1>3. ASSUME NEW p \in Pids, NEW n \in Names, minifs_unlink(p, n)
      PROVE  Linked'
  BY <1>3 DEF minifs_unlink, inode_is_open, Linked, OpenFilesLinked
<1>4. ASSUME NEW p \in Pids, NEW n \in Names, NEW create, minifs_open(p, n, create)
      PROVE  Linked'
  <2>1. PICK number \in Inodes :
          /\ inode_of[n] # None => number = inode_of[n]
          /\ inode_of[n] = None => \A m \in Names : inode_of[m] # number
          /\ inode_of' = [inode_of EXCEPT ![n] = number]
          /\ \A i \in Ofds : open_files'[i].used /\ open_files'[i].type = "FILE" =>
               \/ open_files'[i].inode = number
               \/ /\ open_files[i].used /\ open_files[i].type = "FILE"
                  /\ open_files'[i].inode = open_files[i].inode
    BY <1>4, OpenStep DEF Linked
  <2>2. /\ inode_of' \in [Names -> Inodes \cup {None}] /\ inode_of'[n] = number
        /\ \A m \in Names \ {n} : inode_of'[m] = inode_of[m]
        /\ \A m \in Names : inode_of[m] # None => inode_of'[m] = inode_of[m]
    BY <2>1 DEF Linked
  <2>3. ASSUME NEW i \in Ofds, open_files'[i].used, open_files'[i].type = "FILE"
        PROVE  \E m \in Names : inode_of'[m] = open_files'[i].inode
    <3>1. CASE open_files'[i].inode = number
      BY <2>2, <3>1
    <3>2. CASE /\ open_files[i].used /\ open_files[i].type = "FILE"
               /\ open_files'[i].inode = open_files[i].inode
      <4>1. PICK m \in Names : inode_of[m] = open_files[i].inode
        BY <3>2 DEF Linked, OpenFilesLinked
      <4>2. inode_of[m] # None
        BY <4>1 DEF Counted, Files, File, None
      <4> QED BY <2>2, <3>2, <4>1, <4>2
    <3> QED BY <2>1, <2>3, <3>1, <3>2
  <2>4. ASSUME NEW m \in Names, NEW k \in Names, inode_of'[m] # None, inode_of'[m] = inode_of'[k]
        PROVE  m = k
    BY <2>1, <2>2, <2>4 DEF Linked, OpenFilesLinked
  <2> QED BY <2>2, <2>3, <2>4 DEF Linked, OpenFilesLinked
<1>5. ASSUME NEW p \in Pids
      PROVE  /\ minifs_process_init(p) => Linked'
             /\ \A c \in Pids : minifs_process_fork(p, c) => Linked'
             /\ minifs_close_all(p) => Linked'
             /\ minifs_close_exec_fds(p) => Linked'
             /\ \A f \in Fd : minifs_close(p, f) => Linked'
             /\ \A f \in Fd, on \in BOOLEAN : minifs_set_cloexec(p, f, on) => Linked'
             /\ \A f, new \in Fd : minifs_dup2(p, f, new) => Linked'
  <2>1. minifs_process_init(p) => Linked'
    BY <1>1, InitStep DEF minifs_process_init
  <2>2. \A c \in Pids : minifs_process_fork(p, c) => Linked'
    BY <1>1, ForkStep DEF minifs_process_fork
  <2>3. minifs_close_all(p) => Linked'
    BY <1>1, CloseAllStep, Zenon DEF minifs_close_all
  <2>4. minifs_close_exec_fds(p) => Linked'
    BY <1>1, CloseExecStep DEF minifs_close_exec_fds
  <2>5. \A f \in Fd : minifs_close(p, f) => Linked'
    BY <1>1, CloseStep, Zenon DEF minifs_close
  <2>6. \A f \in Fd, on \in BOOLEAN : minifs_set_cloexec(p, f, on) => Linked'
    BY <1>1, SetCloexecStep, Zenon DEF minifs_set_cloexec
  <2>7. \A f, new \in Fd : minifs_dup2(p, f, new) => Linked'
    BY <1>1, Dup2Step, Zenon DEF minifs_dup2
  <2> QED BY <2>1, <2>2, <2>3, <2>4, <2>5, <2>6, <2>7
<1> QED BY <1>2, <1>3, <1>4, <1>5 DEF Next

-----------------------------------------------------------------------------
LEMMA InitInvariant ==
  Init => Counted /\ Linked
<1> SUFFICES ASSUME Init PROVE Counted /\ Linked
  OBVIOUS
<1>1. open_files \in Files /\ Sound(open_files) /\ \A i \in Ofds : open_files[i].refs = 0
  BY DEF Init, NoFile, Files, File, Sound
<1>2. /\ process_fds \in [Tables -> Table]
      /\ \A t \in Tables : process_fds[t].fd = NoFds
  BY DEF Init, NoTable, Table, Descriptors, NoFds
<1>3. ASSUME NEW i \in Ofds
      PROVE  Cardinality(References(i)) = 0
  <2>1. References(i) = {}
    BY <1>2 DEF References, NoFds, None, Ofds
  <2> QED BY <2>1, FS_EmptySet
<1>4. Linked
  BY DEF Init, Linked, OpenFilesLinked, NoFile
<1> QED BY <1>1, <1>2, <1>3, <1>4 DEF Counted, RefsExact, Sound

LEMMA FdsInvariant ==
  Spec => [](Counted /\ Linked)
<1>1. Counted /\ Linked /\ [Next]_vars => (Counted /\ Linked)'
  BY CountedNext, LinkedNext DEF Linked
<1> QED BY InitInvariant, <1>1, PTL DEF Spec

(* The reference counts of open_files are exact whatever processes do:     *)
(* init, fork, exec, exit, open, close, dup2 and unlink of                 *)
(* os/kernel/minifs.c keep refs equal to the number of descriptors that    *)
(* name the entry.                                                         *)
THEOREM ExactReferences ==
  Spec => []RefsExact
BY FdsInvariant, PTL DEF Counted

(* An open file keeps its name and its inode number: unlink refuses it and *)
(* open gives out no number a name has.                                    *)
THEOREM OpenFilesKeepNames ==
  Spec => []OpenFilesLinked
BY FdsInvariant, PTL DEF Linked
=============================================================================
