---------------------- MODULE ReleaseQualification_proofs ----------------------
(***************************************************************************)
(* What rebinding and qualification guarantee, for every history of the    *)
(* two branches, every inventory, all records about a source and every     *)
(* number of attempts of the original run.                                 *)
(***************************************************************************)
EXTENDS ReleaseQualification, SequenceTheorems, WellFoundedInduction, TLAPS

-----------------------------------------------------------------------------
(* Ancestry.  A history is sound when parents are older than their child;  *)
(* the ancestors of its commits are then well defined, and later commits   *)
(* do not change them.                                                     *)

PastOf(g) ==
    LET past[c \in 1..Len(g)] == {c} \cup UNION {past[p] : p \in g[c].parents} IN past

Unfolds(g, f) == f = [c \in 1..Len(g) |-> {c} \cup UNION {f[p] : p \in g[c].parents}]

Sound(g) == \A c \in 1..Len(g) : g[c].parents \subseteq 1..(c - 1)

Reaches(g, f) ==
    \A c \in 1..Len(g) :
        /\ c \in f[c] /\ f[c] \subseteq 1..c
        /\ \A d \in f[c] : f[d] \subseteq f[c]

Historic(g) == Sound(g) /\ Unfolds(g, PastOf(g)) /\ Reaches(g, PastOf(g))

LEMMA LeastElement ==
    ASSUME NEW P, P \subseteq Nat, P # {}
    PROVE  \E m \in P : \A k \in P : m <= k
<1>1. PICK x \in P : TRUE
  OBVIOUS
<1>2. PICK m \in P : \A y \in P : ~ (<<y, m>> \in OpToRel(<, Nat))
  BY <1>1, NatLessThanWellFounded, WFMin
<1>3. \A k \in P : m <= k
  <2>1. TAKE k \in P
  <2>2. ~ (k < m)
    BY <1>2, <2>1 DEF OpToRel
  <2> QED
    BY <2>2
<1> QED
  BY <1>3

\* The most recent of some commits.
Latest(S) == CHOOSE c \in S : \A d \in S : d <= c

LEMMA LatestIs ==
    ASSUME NEW S, S \subseteq Nat, NEW x \in S, \A d \in S : d <= x
    PROVE  Latest(S) = x
<1>1. \A c \in S : (\A d \in S : d <= c) => c = x
  OBVIOUS
<1> QED
  BY <1>1 DEF Latest

LEMMA LatestExists ==
    ASSUME NEW n \in Nat, NEW S, S \subseteq 1..n, S # {}
    PROVE  Latest(S) \in S /\ \A d \in S : d <= Latest(S)
<1> DEFINE Over == {m \in Nat : \A d \in S : d <= m}
<1>1. n \in Over
  OBVIOUS
<1>2. PICK m \in Over : \A k \in Over : m <= k
  BY <1>1, LeastElement
<1>3. m \in S
  <2>1. SUFFICES ASSUME m \notin S PROVE FALSE
    OBVIOUS
  <2>2. \A d \in S : d <= m - 1
    BY <2>1
  <2>3. m - 1 \in Nat
    <3>1. PICK d \in S : TRUE
      OBVIOUS
    <3> QED
      BY <3>1, <2>2
  <2>4. m - 1 \in Over
    BY <2>2, <2>3
  <2> QED
    BY <2>4, <1>2
<1> QED
  BY <1>3 DEF Latest

LEMMA Unfolding ==
    ASSUME NEW g, NEW f, Unfolds(g, f)
    PROVE  Unfolds(g, PastOf(g))
<1>1. PastOf(g) = CHOOSE h : Unfolds(g, h)
  BY Zenon DEF PastOf, Unfolds
<1> QED
  BY <1>1, Zenon

LEMMA SameAncestors ==
    ASSUME NEW S, NEW g \in Seq(S), NEW h \in Seq(S), Sound(g), Len(g) <= Len(h),
           \A c \in 1..Len(g) : h[c] = g[c],
           NEW f, Unfolds(g, f), NEW e, Unfolds(h, e)
    PROVE  \A c \in 1..Len(g) : e[c] = f[c]
<1> DEFINE Bad == {c \in 1..Len(g) : e[c] # f[c]}
<1>1. SUFFICES ASSUME Bad # {} PROVE FALSE
  OBVIOUS
<1>2. PICK c \in Bad : \A k \in Bad : c <= k
  <2>1. Bad \subseteq Nat
    OBVIOUS
  <2> QED
    BY <1>1, <2>1, LeastElement
<1>3. c \in 1..Len(g) /\ c \in 1..Len(h)
  OBVIOUS
<1>4. \A p \in g[c].parents : e[p] = f[p]
  <2>1. \A p \in g[c].parents : p \in 1..Len(g) /\ p < c
    BY <1>3 DEF Sound
  <2> QED
    BY <2>1, <1>2
<1>5. f[c] = {c} \cup UNION {f[p] : p \in g[c].parents}
  BY <1>3 DEF Unfolds
<1>6. e[c] = {c} \cup UNION {e[p] : p \in g[c].parents}
  BY <1>3 DEF Unfolds
<1>7. {e[p] : p \in g[c].parents} = {f[p] : p \in g[c].parents}
  BY <1>4
<1> QED
  BY <1>5, <1>6, <1>7

LEMMA FirstCommit ==
    ASSUME NEW r, r.parents = {}
    PROVE  Historic(<<r>>)
<1> DEFINE f == [c \in 1..1 |-> {c}]
<1>1. Len(<<r>>) = 1 /\ <<r>>[1] = r
  OBVIOUS
<1>2. Unfolds(<<r>>, f)
  <2>1. ASSUME NEW c \in 1..1 PROVE {c} \cup UNION {f[p] : p \in <<r>>[c].parents} = {c}
    <3>1. <<r>>[c].parents = {}
      BY <1>1
    <3> HIDE DEF f
    <3>2. UNION {f[p] : p \in <<r>>[c].parents} = {}
      BY <3>1
    <3> QED
      BY <3>2
  <2> QED
    BY <2>1, <1>1 DEF Unfolds
<1>3. Unfolds(<<r>>, PastOf(<<r>>))
  BY <1>2, Unfolding
<1>4. PastOf(<<r>>)[1] = {1} \cup UNION {PastOf(<<r>>)[p] : p \in r.parents}
  BY <1>3, <1>1 DEF Unfolds
<1>5. PastOf(<<r>>)[1] = {1}
  BY <1>4
<1>6. Sound(<<r>>)
  BY <1>1 DEF Sound
<1>7. Reaches(<<r>>, PastOf(<<r>>))
  <2>1. \A c \in 1..Len(<<r>>) : c = 1
    BY <1>1
  <2> QED
    BY <2>1, <1>5 DEF Reaches
<1> QED
  BY <1>3, <1>6, <1>7 DEF Historic

LEMMA NextCommit ==
    ASSUME NEW S, NEW g \in Seq(S), Historic(g), NEW r \in S, r.parents \subseteq 1..Len(g)
    PROVE  /\ Historic(Append(g, r))
           /\ \A c \in 1..Len(g) : PastOf(Append(g, r))[c] = PastOf(g)[c]
           /\ r.parents \subseteq PastOf(Append(g, r))[Len(g) + 1]
<1> DEFINE h == Append(g, r)
           n == Len(g)
           f == PastOf(g)
           k == [c \in 1..(n + 1) |->
                    IF c <= n THEN f[c] ELSE {c} \cup UNION {f[p] : p \in r.parents}]
<1>1. h \in Seq(S) /\ n \in Nat /\ Len(h) = n + 1 /\ h[n + 1] = r /\ \A c \in 1..n : h[c] = g[c]
  OBVIOUS
<1>2. Sound(g) /\ Unfolds(g, f) /\ Reaches(g, f)
  BY DEF Historic
<1> HIDE DEF h, n, f
<1>n. n \in Nat /\ \A c \in 1..(n + 1) : c \in 1..n \/ c = n + 1
  BY <1>1
<1>p. r.parents \subseteq 1..n
  BY DEF n
<1>w. \A c \in 1..n : g[c].parents \subseteq 1..n
  BY <1>1, <1>2 DEF Sound, n
<1>u. \A c \in 1..n : f[c] = {c} \cup UNION {f[p] : p \in g[c].parents}
  BY <1>2 DEF Unfolds, n
<1>3. Sound(h)
  <2> SUFFICES ASSUME NEW c \in 1..Len(h) PROVE h[c].parents \subseteq 1..(c - 1)
    BY DEF Sound
  <2>1. CASE c \in 1..n
    BY <2>1, <1>1, <1>2 DEF Sound, n
  <2>2. CASE c = n + 1
    BY <2>2, <1>1, <1>p
  <2> QED
    BY <2>1, <2>2, <1>1
<1>4. \A c \in 1..(n + 1) : k[c] = {c} \cup UNION {k[p] : p \in h[c].parents}
  <2> TAKE c \in 1..(n + 1)
  <2>a. \A p \in 1..n : k[p] = f[p]
    BY <1>1
  <2>1. CASE c \in 1..n
    <3>1. {k[p] : p \in h[c].parents} = {f[p] : p \in g[c].parents}
      BY <2>1, <2>a, <1>1, <1>w
    <3> QED
      BY <3>1, <2>1, <2>a, <1>u
  <2>2. CASE c = n + 1
    <3>1. {k[p] : p \in h[c].parents} = {f[p] : p \in r.parents}
      BY <2>2, <2>a, <1>1, <1>p
    <3>2. k[c] = {c} \cup UNION {f[p] : p \in r.parents}
      BY <2>2, <1>1
    <3> QED
      BY <3>1, <3>2
  <2> QED
    BY <2>1, <2>2, <1>n
<1>5. Unfolds(h, k)
  <2>1. k = [c \in 1..(n + 1) |-> k[c]]
    OBVIOUS
  <2> HIDE DEF k
  <2>2. [c \in 1..(n + 1) |-> k[c]] = [c \in 1..(n + 1) |-> {c} \cup UNION {k[p] : p \in h[c].parents}]
    BY <1>4
  <2> QED
    BY <2>1, <2>2, <1>1 DEF Unfolds
<1>6. Unfolds(h, PastOf(h))
  BY <1>5, Unfolding
<1> DEFINE e == PastOf(h)
<1>7. \A c \in 1..n : e[c] = f[c]
  <2>1. n <= Len(h) /\ \A c \in 1..Len(g) : h[c] = g[c]
    BY <1>1 DEF n
  <2> HIDE DEF e
  <2>2. Unfolds(h, e)
    BY <1>6 DEF e
  <2> QED
    BY <2>1, <2>2, <1>1, <1>2, SameAncestors DEF n
<1> HIDE DEF e
<1>8. e[n + 1] = {n + 1} \cup UNION {e[p] : p \in r.parents}
  <2>1. e = [c \in 1..Len(h) |-> {c} \cup UNION {e[p] : p \in h[c].parents}]
    BY <1>6, Zenon DEF Unfolds, e
  <2>2. n + 1 \in 1..Len(h)
    BY <1>1
  <2>3. e[n + 1] = {n + 1} \cup UNION {e[p] : p \in h[n + 1].parents}
    BY <2>1, <2>2
  <2> QED
    BY <2>3, <1>1
<1>v. \A c \in 1..n : c \in f[c] /\ f[c] \subseteq 1..c /\ \A d \in f[c] : f[d] \subseteq f[c]
  BY <1>2 DEF Reaches, n
<1>9. \A p \in r.parents : e[p] = f[p] /\ p \in e[p] /\ e[p] \subseteq 1..n /\ e[p] \subseteq e[n + 1]
  BY <1>7, <1>8, <1>p, <1>v, <1>1
<1>10. Reaches(h, e)
  <2> SUFFICES ASSUME NEW c \in 1..Len(h)
               PROVE  c \in e[c] /\ e[c] \subseteq 1..c /\ \A d \in e[c] : e[d] \subseteq e[c]
    BY DEF Reaches
  <2>1. CASE c \in 1..n
    <3>1. e[c] = f[c] /\ f[c] \subseteq 1..n
      BY <2>1, <1>7, <1>v, <1>1
    <3> QED
      BY <3>1, <2>1, <1>7, <1>v, <1>1
  <2>2. CASE c = n + 1
    <3>1. c \in e[c]
      BY <2>2, <1>8
    <3>2. e[c] \subseteq 1..c
      BY <2>2, <1>8, <1>9, <1>1
    <3>3. ASSUME NEW d \in e[c] PROVE e[d] \subseteq e[c]
      <4>1. CASE d = n + 1
        BY <4>1, <2>2
      <4>2. CASE d # n + 1
        <5>1. PICK p \in r.parents : d \in e[p]
          BY <4>2, <2>2, <3>3, <1>8
        <5>2. d \in f[p] /\ d \in 1..n /\ p \in 1..n
          BY <5>1, <1>9, <1>p
        <5>3. f[d] \subseteq f[p]
          BY <5>2, <1>v
        <5> QED
          BY <5>2, <5>3, <2>2, <1>7, <1>9
      <4> QED
        BY <4>1, <4>2
    <3> QED
      BY <3>1, <3>2, <3>3
  <2> QED
    BY <2>1, <2>2, <1>1
<1>11. r.parents \subseteq e[n + 1]
  BY <1>9
<1>12. Historic(h)
  BY <1>3, <1>6, <1>10 DEF Historic, e
<1> QED
  BY <1>7, <1>11, <1>12 DEF e, f, n, h

(* The repository.                                                         *)

Inventory ==
    [anchor : Nat, policy : Nat, enforce : BOOLEAN,
     blobs : UNION {[paths -> Blobs \cup {None}] : paths \in SUBSET Paths}]

CommitRecord ==
    [parents : SUBSET Nat, files : [Paths -> Blobs \cup {None}], seed : SUBSET Paths,
     inventory : Inventory \cup {None, Malformed}, another : BOOLEAN]

RepositoryType ==
    /\ commits \in Seq(CommitRecord)
    /\ tip \in [Branches -> Nat \cup {None}]
    /\ tip["main"] \in Commits /\ tip["support"] \in Commits \cup {None}
    /\ proposal \in Inventory \cup {None}
    /\ proposal # None => proposal.anchor \in Commits

RepositoryInv == RepositoryType /\ Historic(commits)

\* A branch only moves to a descendant, and commits are immutable.
Developed ==
    /\ Len(commits) <= Len(commits')
    /\ \A c \in Commits : commits'[c] = commits[c] /\ Past'[c] = Past[c]
    /\ \A b \in Branches : tip[b] \in Commits => tip'[b] \in Commits' /\ tip[b] \in Past'[tip'[b]]

LEMMA PastIs == Past = PastOf(commits)
  BY Zenon DEF Past, PastOf, Commits

LEMMA PastNextIs == Past' = PastOf(commits')
  BY Zenon DEF Past, PastOf, Commits

LEMMA Ancestry ==
    ASSUME RepositoryInv
    PROVE  \A c \in Commits :
              c \in Past[c] /\ Past[c] \subseteq Commits /\ Past[c] \subseteq 1..c
              /\ \A d \in Past[c] : Past[d] \subseteq Past[c]
<1>1. \A c \in 1..Len(commits) :
         c \in PastOf(commits)[c] /\ PastOf(commits)[c] \subseteq 1..c
         /\ \A d \in PastOf(commits)[c] : PastOf(commits)[d] \subseteq PastOf(commits)[c]
  BY DEF RepositoryInv, Historic, Reaches
<1>2. Len(commits) \in Nat
  BY DEF RepositoryInv, RepositoryType
<1> QED
  BY <1>1, <1>2, PastIs DEF Commits

LEMMA Committing ==
    ASSUME RepositoryInv, NEW b \in Branches, NEW c \in CommitRecord, MakeCommit(b, c),
           c.parents \subseteq Commits, tip[b] \in c.parents
    PROVE  RepositoryInv' /\ Developed
<1>1. commits \in Seq(CommitRecord) /\ Historic(commits) /\ c.parents \subseteq 1..Len(commits)
  BY DEF RepositoryInv, RepositoryType, Commits
<1>2. commits' = Append(commits, c) /\ tip' = [tip EXCEPT ![b] = Len(commits) + 1] /\ proposal' = proposal
  BY DEF MakeCommit
<1>3. /\ Historic(commits')
      /\ \A d \in 1..Len(commits) : Past'[d] = Past[d]
      /\ c.parents \subseteq Past'[Len(commits) + 1]
  BY <1>1, <1>2, NextCommit, PastIs, PastNextIs
<1>4. /\ commits' \in Seq(CommitRecord) /\ Len(commits) \in Nat /\ Len(commits') = Len(commits) + 1
      /\ \A d \in 1..Len(commits) : commits'[d] = commits[d]
  BY <1>1, <1>2
<1>5. Commits \subseteq Commits' /\ Len(commits) + 1 \in Commits'
  BY <1>4 DEF Commits
<1>6. RepositoryType'
  BY <1>2, <1>4, <1>5 DEF RepositoryInv, RepositoryType, Branches
<1>7. \A d \in Branches : tip[d] \in Commits => tip'[d] \in Commits' /\ tip[d] \in Past'[tip'[d]]
  <2> TAKE d \in Branches
  <2> HAVE tip[d] \in Commits
  <2>0. tip \in [Branches -> Nat \cup {None}]
    BY DEF RepositoryInv, RepositoryType
  <2>1. CASE d = b
    BY <2>0, <2>1, <1>2, <1>3, <1>5
  <2>2. CASE d # b
    <3>1. tip'[d] = tip[d]
      BY <2>0, <2>2, <1>2
    <3>2. tip[d] \in Past[tip[d]]
      BY Ancestry
    <3>3. tip'[d] \in Commits'
      BY <3>1, <1>5
    <3> QED
      BY <3>1, <3>2, <3>3, <1>3 DEF Commits
  <2> QED
    BY <2>1, <2>2
<1> QED
  BY <1>3, <1>4, <1>6, <1>7 DEF RepositoryInv, Developed, Commits

LEMMA OnIs ==
    ASSUME RepositoryInv, NEW m \in Commits, NEW ps \in SUBSET Nat
    PROVE  /\ commits[m] \in CommitRecord
           /\ On(m, ps) \in CommitRecord /\ On(m, ps).parents = ps
           /\ On(m, ps).inventory = commits[m].inventory
<1>1. commits[m] \in CommitRecord
  BY DEF RepositoryInv, RepositoryType, Commits
<1> QED
  BY <1>1 DEF On, CommitRecord

LEMMA EditedIs ==
    ASSUME RepositoryInv, NEW i \in Inventory
    PROVE  Edited(i) \subseteq Inventory
<1> SUFFICES ASSUME NEW e \in Edited(i) PROVE e \in Inventory
  OBVIOUS
<1>n. Commits \subseteq Nat
  BY DEF Commits, RepositoryInv, RepositoryType
<1>1. CASE e = [i EXCEPT !.enforce = ~@]
  BY <1>1 DEF Inventory
<1>2. ASSUME NEW c \in Commits, e = [i EXCEPT !.anchor = c] PROVE e \in Inventory
  BY <1>2, <1>n DEF Inventory
<1>3. ASSUME NEW path \in Covers(i), NEW blob \in Blobs, e = [i EXCEPT !.blobs[path] = blob]
      PROVE  e \in Inventory
  <2>1. PICK paths \in SUBSET Paths : i.blobs \in [paths -> Blobs \cup {None}]
    BY DEF Inventory
  <2>2. [i.blobs EXCEPT ![path] = blob] \in [paths -> Blobs \cup {None}]
    BY <2>1 DEF Covers
  <2> QED
    BY <1>3, <2>2 DEF Inventory
<1> QED
  BY <1>1, <1>2, <1>3 DEF Edited

LEMMA TakenBlobs ==
    ASSUME RepositoryInv, NEW m \in Commits, NEW paths \in SUBSET Paths
    PROVE  [path \in paths |-> Blob(m, path)] \in [paths -> Blobs \cup {None}]
<1>1. commits[m].files \in [Paths -> Blobs \cup {None}]
  <2>1. commits[m] \in CommitRecord
    BY DEF RepositoryInv, RepositoryType, Commits
  <2> QED
    BY <2>1 DEF CommitRecord
<1> QED
  BY <1>1 DEF Blob

LEMMA RefreshedIs ==
    ASSUME RepositoryInv, NEW i \in Inventory
    PROVE  Refreshed(i) \subseteq Inventory
<1> SUFFICES ASSUME NEW e \in Refreshed(i) PROVE e \in Inventory
  OBVIOUS
<1>1. tip["main"] \in Commits /\ Commits \subseteq Nat
  BY DEF Commits, RepositoryInv, RepositoryType
<1>2. PICK paths \in SUBSET Paths :
         e = [i EXCEPT !.policy = tip["main"], !.blobs = [path \in paths |-> Blob(tip["main"], path)]]
  BY DEF Refreshed
<1>3. [path \in paths |-> Blob(tip["main"], path)] \in [paths -> Blobs \cup {None}]
  BY <1>1, TakenBlobs
<1> QED
  BY <1>1, <1>2, <1>3 DEF Inventory

LEMMA MainDevelops == RepositoryInv /\ ChangeMain => RepositoryInv' /\ Developed
<1> SUFFICES ASSUME RepositoryInv, ChangeMain PROVE RepositoryInv' /\ Developed
  OBVIOUS
<1> DEFINE m == tip["main"]
           c == On(m, {m})
<1>1. m \in Commits /\ m \in Nat /\ proposal \in Inventory \cup {None}
  BY DEF Commits, RepositoryInv, RepositoryType
<1>2. c \in CommitRecord /\ c.parents = {m}
  BY <1>1, OnIs
<1> HIDE DEF c, m
<1>3. ASSUME NEW d \in CommitRecord, d.parents = {m}, MakeCommit("main", d)
      PROVE  RepositoryInv' /\ Developed
  BY <1>1, <1>3, Committing DEF Branches, m
<1>4. ASSUME NEW i \in Inventory \cup {None, Malformed}, MakeCommit("main", [c EXCEPT !.inventory = i])
      PROVE  RepositoryInv' /\ Developed
  <2>1. [c EXCEPT !.inventory = i] \in CommitRecord /\ [c EXCEPT !.inventory = i].parents = {m}
    BY <1>2 DEF CommitRecord
  <2> QED
    BY <2>1, <1>3, <1>4
<1>5. ASSUME NEW path \in Paths, NEW blob \in Blobs \cup {None},
             MakeCommit("main", [c EXCEPT !.files[path] = blob])
      PROVE  RepositoryInv' /\ Developed
  <2>1. /\ [c EXCEPT !.files[path] = blob] \in CommitRecord
        /\ [c EXCEPT !.files[path] = blob].parents = {m}
    BY <1>2 DEF CommitRecord
  <2> QED
    BY <2>1, <1>3, <1>5
<1>6. ASSUME NEW paths \in SUBSET Paths, MakeCommit("main", [c EXCEPT !.seed = paths])
      PROVE  RepositoryInv' /\ Developed
  <2>1. [c EXCEPT !.seed = paths] \in CommitRecord /\ [c EXCEPT !.seed = paths].parents = {m}
    BY <1>2 DEF CommitRecord
  <2> QED
    BY <2>1, <1>3, <1>6
<1>7. ASSUME MakeCommit("main", [c EXCEPT !.another = ~@]) PROVE RepositoryInv' /\ Developed
  <2>1. [c EXCEPT !.another = ~@] \in CommitRecord /\ [c EXCEPT !.another = ~@].parents = {m}
    BY <1>2 DEF CommitRecord
  <2> QED
    BY <2>1, <1>3, <1>7
<1>8. ASSUME WellFormed(c.inventory), NEW i \in Refreshed(c.inventory) \cup Edited(c.inventory),
             MakeCommit("main", [c EXCEPT !.inventory = i])
      PROVE  RepositoryInv' /\ Developed
  <2>1. c.inventory \in Inventory
    BY <1>2, <1>8 DEF CommitRecord, WellFormed
  <2>2. i \in Inventory
    BY <2>1, <1>8, EditedIs, RefreshedIs
  <2> QED
    BY <2>2, <1>4, <1>8
<1>9. \A i \in {proposal, None, Malformed} : i \in Inventory \cup {None, Malformed}
  BY <1>1
<1> QED
  BY <1>4, <1>5, <1>6, <1>7, <1>8, <1>9, Zenon DEF ChangeMain, c, m

LEMMA SupportDevelops == RepositoryInv /\ ChangeSupport => RepositoryInv' /\ Developed
<1> SUFFICES ASSUME RepositoryInv, ChangeSupport PROVE RepositoryInv' /\ Developed
  OBVIOUS
<1> DEFINE t == tip["support"]
           m == commits[tip["main"]]
           c == On(t, {t})
<1>1. t \in Commits /\ t \in Nat /\ tip["main"] \in Commits
  BY DEF Commits, RepositoryInv, RepositoryType, ChangeSupport
<1>2. c \in CommitRecord /\ c.parents = {t} /\ m \in CommitRecord
  BY <1>1, OnIs
<1>3. PICK taken \in SUBSET Paths :
        \E i \in {c.inventory, m.inventory}
                   \cup (IF WellFormed(m.inventory) THEN Edited(m.inventory) ELSE {}) :
           MakeCommit("support",
              [c EXCEPT !.files = [path \in Paths |-> IF path \in taken THEN m.files[path] ELSE @[path]],
                        !.inventory = i])
  BY Zenon DEF ChangeSupport
<1>4. PICK i \in {c.inventory, m.inventory}
                   \cup (IF WellFormed(m.inventory) THEN Edited(m.inventory) ELSE {}) :
           MakeCommit("support",
              [c EXCEPT !.files = [path \in Paths |-> IF path \in taken THEN m.files[path] ELSE @[path]],
                        !.inventory = i])
  BY <1>3
<1> HIDE DEF t, m, c
<1>5. i \in Inventory \cup {None, Malformed}
  <2>1. CASE i \in {c.inventory, m.inventory}
    BY <2>1, <1>2 DEF CommitRecord
  <2>2. CASE WellFormed(m.inventory) /\ i \in Edited(m.inventory)
    <3>1. m.inventory \in Inventory
      BY <1>2, <2>2 DEF CommitRecord, WellFormed
    <3> QED
      BY <3>1, <2>2, EditedIs
  <2> QED
    BY <1>4, <2>1, <2>2
<1> DEFINE fs == [path \in Paths |-> IF path \in taken THEN m.files[path] ELSE c.files[path]]
           d == [c EXCEPT !.files = fs, !.inventory = i]
<1>6. fs \in [Paths -> Blobs \cup {None}]
  <2>1. c.files \in [Paths -> Blobs \cup {None}] /\ m.files \in [Paths -> Blobs \cup {None}]
    BY <1>2 DEF CommitRecord
  <2> QED
    BY <2>1
<1>7. MakeCommit("support", d)
  BY <1>4
<1> HIDE DEF fs
<1>8. d \in CommitRecord /\ d.parents = {t}
  BY <1>2, <1>5, <1>6 DEF CommitRecord
<1> HIDE DEF d
<1> QED
  BY <1>1, <1>7, <1>8, Committing DEF Branches, t

LEMMA MergeDevelops ==
    ASSUME RepositoryInv, NEW into \in Branches, NEW from \in Branches, Merge(into, from)
    PROVE  RepositoryInv' /\ Developed
<1>1. tip[into] \in Commits /\ tip[from] \in Commits /\ Commits \subseteq Nat
  BY DEF Commits, RepositoryInv, RepositoryType, Merge, Branches
<1>2. /\ On(tip[into], {tip[into], tip[from]}) \in CommitRecord
      /\ On(tip[into], {tip[into], tip[from]}).parents = {tip[into], tip[from]}
  BY <1>1, OnIs
<1>3. MakeCommit(into, On(tip[into], {tip[into], tip[from]}))
  BY DEF Merge
<1> QED
  BY <1>1, <1>2, <1>3, Committing

LEMMA OpeningDevelops == RepositoryInv /\ OpenSupport => RepositoryInv' /\ Developed
<1> SUFFICES ASSUME RepositoryInv, OpenSupport PROVE RepositoryInv' /\ Developed
  OBVIOUS
<1>1. commits' = commits /\ proposal' = proposal /\ tip' = [tip EXCEPT !["support"] = proposal.anchor]
  BY DEF OpenSupport
<1>2. proposal.anchor \in Commits /\ Commits \subseteq Nat /\ tip["support"] \notin Commits
  BY QualificationAssumption DEF OpenSupport, RepositoryInv, RepositoryType, Commits
<1>3. RepositoryType'
  BY <1>1, <1>2 DEF RepositoryInv, RepositoryType, Branches, Commits
<1>4. Past' = Past
  BY <1>1, PastIs, PastNextIs
<1>5. \A b \in Branches : tip[b] \in Commits => tip'[b] \in Commits' /\ tip[b] \in Past'[tip'[b]]
  <2>1. tip'["main"] = tip["main"] /\ tip["main"] \in Past[tip["main"]]
    BY <1>1, Ancestry DEF RepositoryInv, RepositoryType, Branches
  <2>2. tip'["main"] \in Commits'
    BY <1>3 DEF RepositoryType
  <2> QED
    BY <2>1, <2>2, <1>2, <1>4 DEF Branches
<1>6. Len(commits) \in Nat
  BY DEF RepositoryInv, RepositoryType
<1> QED
  BY <1>1, <1>3, <1>4, <1>5, <1>6 DEF RepositoryInv, Developed
(* Commands.  Every request but ProposeAgain leaves the world alone.       *)

Arguments ==
    [op : Operations \cup {"rebind", "start", "none"}, line : Branches, source : Nat, attempt : Nat,
     fresh : BOOLEAN]

Proposing == {"propose", "propose_again"}

CommandInv ==
    /\ command \in Arguments
    /\ pc # "idle" => policy \in Commits /\ output = << >>
    /\ pc = "idle" \/ pc \in Proposing \/ command.source \in Commits
    /\ pc = "propose_again" => base \in Commits

\* Binding what is fresh needs main, the source and the line to have been as
\* they are when it is concluded.
BindingInv ==
    /\ pc = "fetch_again" /\ command.fresh /\ command.line = "support" =>
          base = command.source /\ Loads(policy, command.source, TRUE)
    /\ \A b \in bound :
          /\ tip["support"] \in Commits
          /\ b.main \in Past[tip["main"]] /\ b.source \in Past[tip["support"]]
          /\ Loads(b.main, b.source, TRUE)

\* What a qualification has learned of the records when it gets to a request.
Binding == {"verify_base", "verify_base_again", "verify_main"}

Vouched == Classify(evidence) = "release" /\ RegistryAgrees(evidence)

RecordsInv ==
    /\ evidence \in Evidence
    /\ pc = "registry" => Classify(evidence) = "release"
    /\ pc \in Binding => Vouched
    /\ \A i \in DOMAIN output : output[i].state = "release" => Vouched

\* What a recovery has learned of the original run.
Examined == {"classify", "registry"} \cup Binding

RunInv ==
    /\ original \in WorkflowRun
    /\ command.op = "recover" /\ command.line = "main" /\ pc \in {"current", "artifacts"} \cup Examined
       => Completed(command.attempt)
    /\ command.op = "recover" /\ command.line = "main" /\ pc \in Examined
       => \A n \in 1..command.attempt : n \notin original.left

QualificationInv ==
    RepositoryInv /\ CommandInv /\ BindingInv /\ RecordsInv /\ RunInv

LEMMA InitInv == Init => QualificationInv
<1> SUFFICES ASSUME Init PROVE QualificationInv
  OBVIOUS
<1>0. commits = <<Root>> /\ tip = [main |-> 1, support |-> None] /\ proposal = None
  BY DEF Init
<1>1. Root \in CommitRecord /\ Root.parents = {}
  BY QualificationAssumption DEF Root, CommitRecord
<1>2. /\ Len(commits) = 1 /\ commits \in Seq(CommitRecord)
      /\ tip["main"] = 1 /\ tip["support"] = None
      /\ tip \in [Branches -> Nat \cup {None}]
  BY <1>0, <1>1 DEF Branches
<1>3. RepositoryInv
  BY <1>0, <1>1, <1>2, FirstCommit DEF RepositoryInv, RepositoryType, Commits
<1>4. CommandInv
  BY DEF Init, CommandInv, Nobody, Arguments, Branches
<1>5. BindingInv
  BY DEF Init, BindingInv
<1>6. RecordsInv /\ RunInv
  BY DEF Init, RecordsInv, RunInv, Binding, Examined
<1> QED
  BY <1>3, <1>4, <1>5, <1>6 DEF QualificationInv

-----------------------------------------------------------------------------
\* The starts of commands, and their requests.
Starts ==
    \/ \E o \in Operations, line \in Branches, c \in Commits, n \in 1..MaxAttempts : Qualify(o, line, c, n)
    \/ \E line \in Branches, c \in Commits, fresh \in BOOLEAN : Rebind(line, c, fresh)
    \/ StartSupport

Requests ==
    \/ Load
    \/ ReadBase("base", "base_again") \/ ReadBaseAgain("base_again", "main_again") \/ ReadMainAgain
    \/ ReadWorkflow \/ ReadAttempt \/ ReadCurrent \/ ReadArtifacts
    \/ ReadPulls \/ ReadRegistry
    \/ ReadBase("verify_base", "verify_base_again") \/ ReadBaseAgain("verify_base_again", "verify_main")
    \/ Conclude
    \/ Fetch \/ FetchAgain
    \/ (\E anchor \in Commits : Propose(anchor))

OtherRun == Rerun \/ Upload \/ Complete

LEMMA Steps == Next => Starts \/ Requests \/ ProposeAgain \/ Interrupt \/ Maintain \/ OtherRun
  BY Zenon DEF Next, Starts, Step, Requests, OtherRun

LEMMA RequestsLeaveWorld == Requests => UNCHANGED world
  BY DEF Requests, Load, ReadBase, ReadBaseAgain, ReadMainAgain, ReadWorkflow, ReadAttempt, ReadCurrent,
         ReadArtifacts, ReadPulls, ReadRegistry, Conclude, Fetch, FetchAgain, Propose, Continue, ContinueWith

LEMMA MaintainDevelops == RepositoryInv /\ Maintain => RepositoryInv' /\ Developed
  BY MainDevelops, SupportDevelops, MergeDevelops, OpeningDevelops DEF Maintain, Branches

LEMMA MaintainLeavesRest ==
    Maintain => UNCHANGED <<original, evidence, command, pc, policy, base, output, bound>>
  BY DEF Maintain, ChangeMain, OpenSupport, ChangeSupport, Merge, MakeCommit

LEMMA StillDevelops ==
    ASSUME RepositoryInv, UNCHANGED <<commits, tip, proposal>>
    PROVE  RepositoryInv' /\ Developed
<1>1. Past' = Past
  BY PastIs, PastNextIs
<1>2. Len(commits) \in Nat
  BY DEF RepositoryInv, RepositoryType
<1>3. \A b \in Branches : tip[b] \in Commits => tip[b] \in Past[tip[b]]
  BY Ancestry
<1> QED
  BY <1>1, <1>2, <1>3 DEF RepositoryInv, RepositoryType, Developed, Commits

LEMMA ProposalKept == RepositoryInv /\ CommandInv /\ ProposeAgain => RepositoryInv' /\ Developed
<1> SUFFICES ASSUME RepositoryInv, CommandInv, ProposeAgain PROVE RepositoryInv' /\ Developed
  OBVIOUS
<1>1. UNCHANGED <<commits, tip>> /\ base \in Commits /\ policy \in Commits /\ Commits \subseteq Nat
  BY DEF ProposeAgain, repository, CommandInv, RepositoryInv, RepositoryType, Commits
<1>2. SeedInventory(base, policy) \in Inventory /\ SeedInventory(base, policy).anchor = base
  <2>1. commits[policy].seed \in SUBSET Paths
    <3>1. commits[policy] \in CommitRecord
      BY <1>1, OnIs
    <3> QED
      BY <3>1 DEF CommitRecord
  <2>2. [path \in commits[policy].seed |-> Blob(policy, path)] \in [commits[policy].seed -> Blobs \cup {None}]
    BY <1>1, <2>1, TakenBlobs
  <2> QED
    BY <1>1, <2>1, <2>2 DEF SeedInventory, Inventory
<1>3. Past' = Past
  BY <1>1, PastIs, PastNextIs
<1>4. proposal' = SeedInventory(base, policy) \/ proposal' = proposal
  BY DEF ProposeAgain
<1>5. proposal' \in Inventory \cup {None} /\ (proposal' # None => proposal'.anchor \in Commits)
  <2>1. CASE proposal' = SeedInventory(base, policy)
    BY <1>1, <1>2, <2>1
  <2>2. CASE proposal' = proposal
    BY <2>2 DEF RepositoryInv, RepositoryType
  <2> QED
    BY <1>4, <2>1, <2>2
<1>6. Len(commits) \in Nat
  BY DEF RepositoryInv, RepositoryType
<1>7. \A b \in Branches : tip[b] \in Commits => tip[b] \in Past[tip[b]]
  BY Ancestry
<1> QED
  BY <1>1, <1>3, <1>5, <1>6, <1>7 DEF RepositoryInv, RepositoryType, Developed, Commits

LEMMA RepositoryNext ==
    RepositoryInv /\ CommandInv /\ [Next]_vars => RepositoryInv' /\ Developed
<1> SUFFICES ASSUME RepositoryInv, CommandInv, [Next]_vars PROVE RepositoryInv' /\ Developed
  OBVIOUS
<1>1. CASE UNCHANGED vars
  BY <1>1, StillDevelops DEF vars, world
<1>2. CASE Starts
  BY <1>2, StillDevelops DEF Starts, Qualify, Rebind, StartSupport, Start, world
<1>3. CASE Requests
  BY <1>3, StillDevelops, RequestsLeaveWorld DEF world
<1>4. CASE ProposeAgain
  BY <1>4, ProposalKept
<1>5. CASE Interrupt
  BY <1>5, StillDevelops DEF Interrupt, world
<1>6. CASE Maintain
  BY <1>6, MaintainDevelops
<1>7. CASE OtherRun
  BY <1>7, StillDevelops DEF OtherRun, Rerun, Upload, Complete, OriginalRun, repository
<1> QED
  BY <1>1, <1>2, <1>3, <1>4, <1>5, <1>6, <1>7, Steps

LEMMA CommitsStay ==
    ASSUME RepositoryInv, RepositoryInv', Developed
    PROVE  Commits \subseteq Commits' /\ Commits' \subseteq Nat
  BY DEF RepositoryInv, RepositoryType, Developed, Commits

LEMMA CommandNext ==
    ASSUME RepositoryInv, RepositoryInv', Developed, CommandInv, [Next]_vars
    PROVE  CommandInv'
<1>0. Commits \subseteq Commits' /\ Commits \subseteq Nat /\ tip["main"] \in Commits
  BY CommitsStay DEF RepositoryInv, RepositoryType
<1>e. ASSUME End PROVE CommandInv'
  <2>1. Nobody \in Arguments
    BY DEF Nobody, Arguments, Branches
  <2> QED
    BY <1>e, <2>1 DEF End, CommandInv, Arguments, Proposing
<1>1. CASE UNCHANGED vars
  BY <1>0, <1>1 DEF vars, CommandInv
<1>2. ASSUME NEW o \in Operations \cup {"rebind", "start"}, NEW line \in Branches, NEW src \in Nat,
             NEW n \in Nat, NEW fresh \in BOOLEAN, Start(o, line, src, n, fresh),
             o = "start" \/ src \in Commits
      PROVE  CommandInv'
  <2>1. command' \in Arguments /\ policy' \in Commits' /\ output' = << >>
    BY <1>0, <1>2 DEF Start, Arguments
  <2>2. pc' \in {"fetch", "propose", "load"} /\ (o = "start" => pc' = "propose")
    BY <1>2 DEF Start
  <2>3. command'.source = src
    BY <1>2 DEF Start
  <2> QED
    BY <1>0, <1>2, <2>1, <2>2, <2>3 DEF CommandInv, Proposing
<1>3. ASSUME NEW here, NEW there, NEW passes, NEW b, ContinueWith(here, there, passes, b),
             here # "idle", there = "idle" \/ output' = output,
             there \notin Proposing \/ b \in Commits,
             here \in Proposing => there = "propose_again"
      PROVE  CommandInv'
  <2>1. CASE passes /\ there # "idle"
    <3>1. pc = here /\ pc' = there /\ base' = b /\ UNCHANGED <<command, policy>> /\ output' = output
      BY <1>3, <2>1 DEF ContinueWith
    <3> QED
      BY <1>0, <1>3, <3>1 DEF CommandInv, Proposing
  <2>2. CASE ~(passes /\ there # "idle")
    BY <1>3, <1>e, <2>2 DEF ContinueWith
  <2> QED
    BY <2>1, <2>2
<1>4. CASE Starts
  <2>1. MaxAttempts \in Nat
    BY QualificationAssumption
  <2>2. ASSUME NEW o \in Operations, NEW line \in Branches, NEW c \in Commits, NEW n \in 1..MaxAttempts,
               Qualify(o, line, c, n)
        PROVE  CommandInv'
    <3>1. n \in Nat /\ c \in Nat
      BY <1>0, <2>1
    <3>2. PICK fresh \in BOOLEAN : fresh = (o # "recover")
      OBVIOUS
    <3>3. Start(o, line, c, n, fresh)
      BY <2>2, <3>2, Zenon DEF Qualify
    <3> QED
      BY <1>2, <3>1, <3>3
  <2>3. ASSUME NEW line \in Branches, NEW c \in Commits, NEW fresh \in BOOLEAN, Rebind(line, c, fresh)
        PROVE  CommandInv'
    BY <1>0, <1>2, <2>3 DEF Rebind
  <2>4. CASE StartSupport
    BY <1>2, <2>4 DEF StartSupport, Branches
  <2> QED
    BY <1>4, <2>2, <2>3, <2>4 DEF Starts
<1>5. CASE Requests
  <2>1. CASE Load
    BY <2>1, <1>3 DEF Load, Continue, Proposing
  <2>2. CASE ReadBase("base", "base_again")
    BY <2>2, <1>3 DEF ReadBase, Proposing
  <2>3. CASE ReadBaseAgain("base_again", "main_again")
    BY <2>3, <1>3 DEF ReadBaseAgain, Continue, Proposing
  <2>4. CASE ReadMainAgain
    <3>1. (IF command.op = "recover" /\ command.line = "main" THEN "workflow" ELSE "classify") \in {"workflow", "classify"}
      OBVIOUS
    <3> QED
      BY <2>4, <3>1, <1>3 DEF ReadMainAgain, Continue, Proposing
  <2>5. CASE ReadWorkflow \/ ReadAttempt \/ ReadCurrent \/ ReadArtifacts
    BY <2>5, <1>3 DEF ReadWorkflow, ReadAttempt, ReadCurrent, ReadArtifacts, Continue, Proposing
  <2>6. CASE ReadPulls
    <3> DEFINE class == IF command.op = "validate" THEN "ordinary" ELSE Classify(evidence)
               ends == class = "ordinary" /\ command.op \in {"auto", "validate"}
    <3>1. /\ Continue("classify", IF ends THEN "idle" ELSE "registry", ends \/ class = "release")
          /\ output' = IF ends THEN Outputs(NoAction, "ordinary") ELSE output
      BY <2>6, Zenon DEF ReadPulls
    <3> HIDE DEF class, ends
    <3> QED
      BY <3>1, <1>3 DEF Continue, Proposing
  <2>7. CASE ReadRegistry
    BY <2>7, <1>3 DEF ReadRegistry, Continue, Proposing
  <2>8. CASE ReadBase("verify_base", "verify_base_again") \/ ReadBaseAgain("verify_base_again", "verify_main")
    BY <2>8, <1>3 DEF ReadBase, ReadBaseAgain, Continue, Proposing
  <2>9. CASE Conclude
    BY <2>9, <1>3 DEF Conclude, Continue, Proposing
  <2>10. CASE Fetch
    BY <2>10, <1>3 DEF Fetch, Proposing
  <2>11. CASE FetchAgain
    BY <2>11, <1>3 DEF FetchAgain, Continue, Proposing
  <2>12. CASE \E anchor \in Commits : Propose(anchor)
    BY <2>12, <1>3 DEF Propose, Proposing
  <2> QED
    BY <1>5, <2>1, <2>2, <2>3, <2>4, <2>5, <2>6, <2>7, <2>8, <2>9, <2>10, <2>11, <2>12, Zenon DEF Requests
<1>6. CASE ProposeAgain \/ Interrupt
  BY <1>6, <1>e DEF ProposeAgain, Interrupt
<1>7. CASE Maintain
  BY <1>0, <1>7, MaintainLeavesRest DEF CommandInv
<1>8. CASE OtherRun
  BY <1>0, <1>8 DEF OtherRun, Rerun, Upload, Complete, OriginalRun, repository, CommandInv
<1> QED
  BY <1>1, <1>4, <1>5, <1>6, <1>7, <1>8, Steps
(* Bindings.  What has been loaded stays loadable: the commits it is       *)
(* computed from are immutable, and so is their ancestry.                  *)

LEMMA ChainStays ==
    ASSUME RepositoryInv, Developed, NEW main \in Commits, NEW src \in Commits, NEW r,
           HistoricalChain(main, src, r)
    PROVE  HistoricalChain(main, src, r)'
<1>1. r.policy \in Past[main] /\ r.policy \in Commits
  BY Ancestry DEF HistoricalChain, Ancestor
<1>2. /\ commits'[r.policy] = commits[r.policy] /\ commits'[src] = commits[src]
      /\ Past'[main] = Past[main]
  BY <1>1 DEF Developed
<1> QED
  BY <1>1, <1>2 DEF HistoricalChain, Ancestor, WellFormed, Covers, Seeds, Blob

LEMMA LoadsStay ==
    ASSUME RepositoryInv, Developed, NEW main \in Commits, NEW src \in Commits, NEW fresh \in BOOLEAN,
           Loads(main, src, fresh)
    PROVE  Loads(main, src, fresh)'
<1>1. /\ commits'[main] = commits[main] /\ commits'[src] = commits[src]
      /\ Past'[main] = Past[main] /\ Past'[src] = Past[src]
  BY DEF Developed
<1>2. MergeBase(src, main)' = MergeBase(src, main)
  BY <1>1, Zenon DEF MergeBase
<1>3. HistoricalChain(main, src, commits[src].inventory)
  BY DEF Loads
<1>4. PICK r : r = commits[src].inventory
  OBVIOUS
<1>5. HistoricalChain(main, src, r)'
  BY <1>3, <1>4, ChainStays
<1>6. HistoricalChain(main, src, commits[src].inventory)'
  BY <1>1, <1>4, <1>5, Zenon DEF HistoricalChain, Seeds, Blob, WellFormed, Covers, Ancestor
<1> QED
  BY <1>1, <1>2, <1>6 DEF Loads, Ancestor, WellFormed, Covers, Blob

LEMMA AncestryNext ==
    ASSUME RepositoryInv'
    PROVE  \A c \in Commits' : \A d \in Past'[c] : Past'[d] \subseteq Past'[c]
<1>1. \A c \in 1..Len(commits') :
         \A d \in PastOf(commits')[c] : PastOf(commits')[d] \subseteq PastOf(commits')[c]
  BY DEF RepositoryInv, Historic, Reaches
<1> QED
  BY <1>1, PastNextIs DEF Commits

LEMMA BindingNext ==
    ASSUME RepositoryInv, RepositoryInv', Developed, CommandInv, BindingInv, [Next]_vars
    PROVE  BindingInv'
<1> DEFINE Ready == pc = "fetch_again" /\ command.fresh /\ command.line = "support"
<1>0. Commits \subseteq Commits' /\ Commits \subseteq Nat /\ tip["main"] \in Commits
  BY CommitsStay DEF RepositoryInv, RepositoryType
\* Old bindings stay what they are.
<1>1. ASSUME NEW b \in bound
      PROVE  /\ tip'["support"] \in Commits'
             /\ b.main \in Past'[tip'["main"]] /\ b.source \in Past'[tip'["support"]]
             /\ Loads(b.main, b.source, TRUE)'
  <2>1. /\ tip["support"] \in Commits /\ b.main \in Past[tip["main"]] /\ b.source \in Past[tip["support"]]
        /\ Loads(b.main, b.source, TRUE)
    BY DEF BindingInv
  <2>2. b.main \in Commits /\ b.source \in Commits
    BY <1>0, <2>1, Ancestry
  <2>3. ASSUME NEW line \in Branches, tip[line] \in Commits, NEW c \in Past[tip[line]]
        PROVE  tip'[line] \in Commits' /\ c \in Past'[tip'[line]]
    <3>1. tip[line] \in Past'[tip'[line]] /\ Past'[tip[line]] = Past[tip[line]]
      BY <2>3 DEF Developed
    <3>2. tip'[line] \in Commits'
      BY <2>3 DEF Developed
    <3>3. Past'[tip[line]] \subseteq Past'[tip'[line]]
      BY <3>1, <3>2, AncestryNext
    <3> QED
      BY <3>1, <3>2, <3>3
  <2> QED
    BY <1>0, <2>1, <2>2, <2>3, LoadsStay DEF Branches
<1>2. CASE ~Ready' /\ bound' = bound
  BY <1>1, <1>2 DEF BindingInv
<1>3. CASE Fetch
  <2>1. bound' = bound
    BY <1>3 DEF Fetch
  <2>2. CASE Ready'
    <3>1. /\ pc = "fetch" /\ tip["main"] = policy /\ Bindable(policy, command.source)
          /\ command.fresh => tip[command.line] = command.source
          /\ base' = tip[command.line] /\ UNCHANGED <<command, policy>> /\ UNCHANGED world
      BY <1>3, <2>2 DEF Fetch, ContinueWith, End
    <3>2. command.fresh /\ command.line = "support" /\ policy \in Commits /\ command.source \in Commits
      BY <2>2, <3>1 DEF CommandInv, Proposing
    <3>3. Loads(policy, command.source, TRUE)
      BY <3>1, <3>2 DEF Bindable
    <3>4. Loads(policy, command.source, TRUE)'
      <4>1. PICK m, c : m = policy /\ c = command.source
        OBVIOUS
      <4>2. Loads(m, c, TRUE)'
        BY <3>2, <3>3, <4>1, LoadsStay
      <4> QED
        BY <3>1, <4>1, <4>2
    <3> QED
      BY <1>1, <2>1, <3>1, <3>2, <3>4 DEF BindingInv
  <2> QED
    BY <1>2, <2>1, <2>2
<1>4. CASE FetchAgain
  <2>1. ~Ready' /\ UNCHANGED world
    BY <1>4 DEF FetchAgain, Continue, ContinueWith, End
  <2>2. ASSUME tip["main"] = policy, tip[command.line] = base, Ready
        PROVE  LET b == [source |-> command.source, main |-> policy] IN
               /\ tip["support"] \in Commits
               /\ b.main \in Past[tip["main"]] /\ b.source \in Past[tip["support"]]
               /\ Loads(b.main, b.source, TRUE)
    <3>1. base = command.source /\ Loads(policy, command.source, TRUE)
      BY <2>2 DEF BindingInv
    <3>2. command.source \in Commits /\ policy \in Commits
      BY <2>2 DEF CommandInv, Proposing
    <3>3. command.source \in Past[command.source] /\ policy \in Past[policy]
      BY <3>2, Ancestry
    <3> QED
      BY <2>2, <3>1, <3>2, <3>3
  <2>3. bound' = bound
        \/ /\ bound' = bound \cup {[source |-> command.source, main |-> policy]}
           /\ tip["main"] = policy /\ tip[command.line] = base /\ Ready
    BY <1>4 DEF FetchAgain, Continue, ContinueWith
  <2>4. UNCHANGED <<commits, tip>> /\ Past' = Past
    BY <2>1, PastIs, PastNextIs DEF world
  <2>5. ASSUME NEW b \in bound'
        PROVE  /\ tip'["support"] \in Commits'
               /\ b.main \in Past'[tip'["main"]] /\ b.source \in Past'[tip'["support"]]
               /\ Loads(b.main, b.source, TRUE)'
    <3>1. CASE b \in bound
      BY <1>1, <3>1
    <3>2. CASE b \notin bound
      <4>1. b = [source |-> command.source, main |-> policy]
            /\ tip["main"] = policy /\ tip[command.line] = base /\ Ready
        BY <2>3, <3>2
      <4>2. /\ tip["support"] \in Commits
            /\ b.main \in Past[tip["main"]] /\ b.source \in Past[tip["support"]]
            /\ Loads(b.main, b.source, TRUE)
        BY <2>2, <4>1
      <4>3. b.main \in Commits /\ b.source \in Commits
        BY <1>0, <4>2, Ancestry
      <4> QED
        BY <1>0, <2>4, <4>2, <4>3, LoadsStay
    <3> QED
      BY <3>1, <3>2
  <2> QED
    BY <2>1, <2>5 DEF BindingInv
\* All others do not get to the last request of a rebinding from another one.
<1>5. ASSUME UNCHANGED <<command, pc, policy, base, bound>> PROVE BindingInv'
  <2>1. CASE Ready
    <3>1. base = command.source /\ Loads(policy, command.source, TRUE)
      BY <2>1 DEF BindingInv
    <3>2. policy \in Commits /\ command.source \in Commits
      BY <2>1 DEF CommandInv, Proposing
    <3>3. PICK m, c : m = policy /\ c = command.source
      OBVIOUS
    <3>4. Loads(m, c, TRUE)'
      BY <3>1, <3>2, <3>3, LoadsStay
    <3>5. Loads(policy, command.source, TRUE)'
      BY <1>5, <3>3, <3>4
    <3> QED
      BY <1>1, <1>5, <3>1, <3>5 DEF BindingInv
  <2>2. CASE ~Ready
    BY <1>2, <1>5, <2>2
  <2> QED
    BY <2>1, <2>2
<1>6. CASE Starts
  <2>1. pc' # "fetch_again" /\ bound' = bound
    BY <1>6 DEF Starts, Qualify, Rebind, StartSupport, Start
  <2> QED
    BY <1>2, <2>1
<1>7. CASE Requests /\ ~Fetch /\ ~FetchAgain
  <2>1. pc' # "fetch_again" /\ bound' = bound
    BY <1>7 DEF Requests, Load, ReadBase, ReadBaseAgain, ReadMainAgain, ReadWorkflow, ReadAttempt, ReadCurrent,
         ReadArtifacts, ReadPulls, ReadRegistry, Conclude, Propose, Continue, ContinueWith, End
  <2> QED
    BY <1>2, <2>1
<1>8. CASE ProposeAgain \/ Interrupt
  <2>1. pc' # "fetch_again" /\ bound' = bound
    BY <1>8 DEF ProposeAgain, Interrupt, End
  <2> QED
    BY <1>2, <2>1
<1>9. CASE UNCHANGED vars
  BY <1>5, <1>9 DEF vars
<1>10. CASE Maintain
  BY <1>5, <1>10, MaintainLeavesRest
<1>11. CASE OtherRun
  BY <1>5, <1>11 DEF OtherRun, Rerun, Upload, Complete, OriginalRun
<1> QED
  BY <1>3, <1>4, <1>6, <1>7, <1>8, <1>9, <1>10, <1>11, Steps
(* The records about the source do not change; the original run does.      *)

LEMMA EvidenceStays == [Next]_vars => evidence' = evidence
<1>1. Requests => evidence' = evidence
  BY RequestsLeaveWorld DEF world
<1>2. Maintain => evidence' = evidence
  BY MaintainLeavesRest
<1>3. Starts \/ Interrupt \/ UNCHANGED vars => evidence' = evidence
  BY DEF Starts, Qualify, Rebind, StartSupport, Start, Interrupt, vars, world
<1>4. ProposeAgain \/ OtherRun => evidence' = evidence
  BY DEF ProposeAgain, OtherRun, Rerun, Upload, Complete, OriginalRun
<1> QED
  BY <1>1, <1>2, <1>3, <1>4, Steps

LEMMA RecordsNext ==
    ASSUME CommandInv, RecordsInv, [Next]_vars
    PROVE  RecordsInv'
<1>0. evidence' = evidence
  BY EvidenceStays
<1>v. Vouched' <=> Vouched
  BY <1>0 DEF Vouched
<1>a. evidence' \in Evidence /\ (Classify(evidence)' = "release" <=> Classify(evidence) = "release")
  BY <1>0 DEF RecordsInv
<1>1. CASE UNCHANGED <<pc, output>>
  BY <1>1, <1>v, <1>a DEF RecordsInv
<1>2. ASSUME pc' \notin {"registry"} \cup Binding, output' = output PROVE RecordsInv'
  BY <1>2, <1>v, <1>a DEF RecordsInv
<1>3. CASE output' = << >> /\ pc' \notin {"registry"} \cup Binding
  BY <1>3, <1>v, <1>a DEF RecordsInv
<1>4. CASE Starts
  BY <1>4, <1>3 DEF Starts, Qualify, Rebind, StartSupport, Start, Binding
<1>5. CASE ReadPulls
  <2> DEFINE class == IF command.op = "validate" THEN "ordinary" ELSE Classify(evidence)
             ends == class = "ordinary" /\ command.op \in {"auto", "validate"}
  <2>1. /\ Continue("classify", IF ends THEN "idle" ELSE "registry", ends \/ class = "release")
        /\ output' = IF ends THEN Outputs(NoAction, "ordinary") ELSE output
    BY <1>5, Zenon DEF ReadPulls
  <2>2. output = << >>
    BY <2>1 DEF Continue, ContinueWith, CommandInv
  <2>3. CASE ends
    <3>1. pc' = "idle" /\ output' = Append(output, [publish |-> FALSE, finalize |-> FALSE, state |-> "ordinary"])
      BY <2>1, <2>3 DEF Continue, ContinueWith, End, Outputs, NoAction
    <3>2. output' = <<[publish |-> FALSE, finalize |-> FALSE, state |-> "ordinary"]>>
      BY <2>2, <3>1
    <3>3. \A i \in DOMAIN output' : output'[i].state # "release"
      BY <3>2
    <3> QED
      BY <3>1, <3>3, <1>a DEF RecordsInv, Binding
  <2>4. CASE ~ends /\ class = "release"
    <3>1. Classify(evidence) = "release" /\ output' = output /\ pc' = "registry"
      BY <2>1, <2>4 DEF Continue, ContinueWith
    <3> QED
      BY <3>1, <1>v, <1>a DEF RecordsInv, Binding
  <2>5. CASE ~ends /\ class # "release"
    BY <2>1, <2>5, <1>2 DEF Continue, ContinueWith, End, Binding
  <2> QED
    BY <2>3, <2>4, <2>5
<1>6. CASE ReadRegistry
  <2>1. CASE pc' = "verify_base"
    <3>1. pc = "registry" /\ RegistryAgrees(evidence) /\ output' = output
      BY <1>6, <2>1 DEF ReadRegistry, Continue, ContinueWith, End
    <3>2. Vouched
      BY <3>1 DEF RecordsInv, Vouched
    <3> QED
      BY <2>1, <3>1, <3>2, <1>v, <1>a DEF RecordsInv, Binding
  <2>2. CASE pc' # "verify_base"
    BY <1>6, <2>2, <1>2 DEF ReadRegistry, Continue, ContinueWith, End, Binding
  <2> QED
    BY <2>1, <2>2
<1>7. CASE ReadBase("verify_base", "verify_base_again") \/ ReadBaseAgain("verify_base_again", "verify_main")
  <2>1. Vouched /\ output' = output /\ pc' # "registry"
    BY <1>7 DEF ReadBase, ReadBaseAgain, Continue, ContinueWith, End, RecordsInv, Binding
  <2> QED
    BY <2>1, <1>v, <1>a DEF RecordsInv
<1>8. CASE Conclude
  <2>1. Vouched /\ pc' = "idle"
    BY <1>8 DEF Conclude, Continue, ContinueWith, End, RecordsInv, Binding
  <2> QED
    BY <2>1, <1>v, <1>a DEF RecordsInv, Binding
<1>9. CASE Load \/ ReadBase("base", "base_again") \/ ReadBaseAgain("base_again", "main_again") \/ ReadMainAgain
           \/ ReadWorkflow \/ ReadAttempt \/ ReadCurrent \/ ReadArtifacts
           \/ Fetch \/ FetchAgain \/ \E anchor \in Commits : Propose(anchor)
  <2>1. pc' \notin {"registry"} \cup Binding /\ output' = output
    BY <1>9 DEF Load, ReadBase, ReadBaseAgain, ReadMainAgain, ReadWorkflow, ReadAttempt, ReadCurrent,
         ReadArtifacts, Fetch, FetchAgain, Propose, Continue, ContinueWith, End, Binding
  <2> QED
    BY <2>1, <1>2
<1>10. CASE ProposeAgain \/ Interrupt
  BY <1>10, <1>2 DEF ProposeAgain, Interrupt, End, Binding
<1>11. CASE Maintain
  BY <1>1, <1>11, MaintainLeavesRest
<1>12. CASE OtherRun \/ UNCHANGED vars
  BY <1>1, <1>12 DEF OtherRun, Rerun, Upload, Complete, OriginalRun, vars
<1>13. Requests => \/ ReadPulls \/ ReadRegistry \/ Conclude
                   \/ ReadBase("verify_base", "verify_base_again") \/ ReadBaseAgain("verify_base_again", "verify_main")
                   \/ Load \/ ReadBase("base", "base_again") \/ ReadBaseAgain("base_again", "main_again")
                   \/ ReadMainAgain \/ ReadWorkflow \/ ReadAttempt \/ ReadCurrent \/ ReadArtifacts
                   \/ Fetch \/ FetchAgain \/ \E anchor \in Commits : Propose(anchor)
  BY Zenon DEF Requests
<1> QED
  BY <1>4, <1>5, <1>6, <1>7, <1>8, <1>9, <1>10, <1>11, <1>12, <1>13, Steps, Zenon

LEMMA RunNext ==
    ASSUME CommandInv, RunInv, [Next]_vars
    PROVE  RunInv'
<1> DEFINE Recovers == command.op = "recover" /\ command.line = "main"
           Ended == {"current", "artifacts"} \cup Examined
<1>0. MaxAttempts \in Nat /\ original \in WorkflowRun /\ original.attempt \in 1..MaxAttempts
      /\ command.attempt \in Nat
  BY QualificationAssumption DEF RunInv, WorkflowRun, CommandInv, Arguments
<1>1. ASSUME original' = original, UNCHANGED <<command, pc>> PROVE RunInv'
  BY <1>1 DEF RunInv, Completed
<1>2. ASSUME original' = original, pc' \notin Ended PROVE RunInv'
  BY <1>2 DEF RunInv, Examined
\* A request is sent by a command that has sent the one before.
<1>3. ASSUME NEW here, NEW there, NEW passes, Continue(here, there, passes),
             there \in Ended /\ passes /\ Recovers => Completed(command.attempt),
             there \in Examined /\ passes /\ Recovers => \A n \in 1..command.attempt : n \notin original.left
      PROVE  RunInv'
  <2>1. original' = original
    BY <1>3 DEF Continue, ContinueWith, world
  <2>2. CASE passes /\ there # "idle"
    <3>1. pc' = there /\ command' = command
      BY <1>3, <2>2 DEF Continue, ContinueWith
    <3> QED
      BY <1>0, <1>3, <2>1, <2>2, <3>1 DEF RunInv, Completed
  <2>3. CASE ~(passes /\ there # "idle")
    BY <1>2, <1>3, <2>1, <2>3 DEF Continue, ContinueWith, End, Examined, Binding
  <2> QED
    BY <2>2, <2>3
<1>4. CASE UNCHANGED vars
  BY <1>1, <1>4 DEF vars, world
<1>5. CASE Starts
  <2>1. original' = original /\ pc' \in {"fetch", "propose", "load"}
    BY <1>5 DEF Starts, Qualify, Rebind, StartSupport, Start, world
  <2> QED
    BY <1>2, <2>1 DEF Examined, Binding
<1>6. CASE Interrupt \/ ProposeAgain
  BY <1>2, <1>6 DEF Interrupt, ProposeAgain, End, Examined, Binding, world
<1>7. CASE Maintain
  BY <1>1, <1>7, MaintainLeavesRest
<1>8. CASE Load \/ ReadBase("base", "base_again") \/ ReadBaseAgain("base_again", "main_again") \/ ReadWorkflow
           \/ Fetch \/ FetchAgain \/ \E anchor \in Commits : Propose(anchor)
  <2>1. original' = original /\ pc' \notin Ended
    BY <1>8 DEF Load, ReadBase, ReadBaseAgain, ReadWorkflow, Fetch, FetchAgain, Propose, Continue, ContinueWith,
         End, Examined, Binding, world
  <2> QED
    BY <1>2, <2>1
<1>9. CASE ReadMainAgain
  <2>1. PICK there : there = IF Recovers THEN "workflow" ELSE "classify"
    OBVIOUS
  <2>2. Continue("main_again", there, tip["main"] = policy)
    BY <1>9, <2>1 DEF ReadMainAgain
  <2>3. Recovers => there \notin Ended
    BY <2>1 DEF Examined, Binding
  <2> QED
    BY <1>3, <2>2, <2>3
<1>10. CASE ReadAttempt
  <2>1. Continue("attempt", "current", Completed(command.attempt))
    BY <1>10 DEF ReadAttempt
  <2>2. "current" \notin Examined
    BY DEF Examined, Binding
  <2>3. PICK passes \in BOOLEAN : passes = Completed(command.attempt)
    BY Zenon DEF Completed
  <2> QED
    BY <1>3, <2>1, <2>2
<1>11. CASE ReadCurrent
  <2>1. Continue("current", "artifacts", original.attempt = command.attempt /\ original.done)
    BY <1>11 DEF ReadCurrent
  <2>2. "artifacts" \notin Examined
    BY DEF Examined, Binding
  <2>3. original.attempt = command.attempt /\ original.done => Completed(command.attempt)
    BY DEF Completed
  <2> QED
    BY <1>3, <2>1, <2>2, <2>3
<1>12. CASE ReadArtifacts
  <2>1. Continue("artifacts", "classify", original.left = {}) /\ pc = "artifacts"
    BY <1>12 DEF ReadArtifacts, Continue, ContinueWith
  <2>2. Recovers => Completed(command.attempt)
    BY <2>1 DEF RunInv
  <2> QED
    BY <1>3, <2>1, <2>2
\* Later requests find what earlier ones have left.
<1>13. ASSUME pc \in Examined, NEW here, NEW there, NEW passes, Continue(here, there, passes) PROVE RunInv'
  BY <1>3, <1>13 DEF RunInv
<1>14. CASE ReadPulls
  <2> DEFINE class == IF command.op = "validate" THEN "ordinary" ELSE Classify(evidence)
             ends == class = "ordinary" /\ command.op \in {"auto", "validate"}
  <2>1. Continue("classify", IF ends THEN "idle" ELSE "registry", ends \/ class = "release")
    BY <1>14, Zenon DEF ReadPulls
  <2>2. pc \in Examined
    BY <2>1 DEF Continue, ContinueWith, Examined
  <2> HIDE DEF ends, class
  <2> QED
    BY <1>13, <2>1, <2>2
<1>15. CASE ReadRegistry
  BY <1>13, <1>15 DEF ReadRegistry, Continue, ContinueWith, Examined
<1>16. ASSUME NEW b, ContinueWith("verify_base", "verify_base_again", b, tip[command.line]) PROVE RunInv'
  <2>1. CASE pc' = "verify_base_again"
    <3>1. pc \in Examined /\ command' = command /\ original' = original
      BY <1>16, <2>1 DEF ContinueWith, End, Examined, Binding, world
    <3> QED
      BY <3>1 DEF RunInv, Completed, Examined
  <2>2. CASE pc' # "verify_base_again"
    BY <1>2, <1>16, <2>2 DEF ContinueWith, End, Examined, Binding, world
  <2> QED
    BY <2>1, <2>2
<1>17. CASE ReadBase("verify_base", "verify_base_again")
  BY <1>16, <1>17 DEF ReadBase
<1>18. CASE ReadBaseAgain("verify_base_again", "verify_main") \/ Conclude
  <2>1. pc \in Examined /\ \E here, there, passes : Continue(here, there, passes)
    BY <1>18 DEF ReadBaseAgain, Conclude, Continue, ContinueWith, Examined, Binding
  <2> QED
    BY <1>13, <2>1
\* A further attempt does not disturb what an earlier one has ended with.
<1>19. CASE OtherRun
  <2>1. UNCHANGED <<command, pc>>
    BY <1>19 DEF OtherRun, Rerun, Upload, Complete, OriginalRun
  <2>2. ASSUME Rerun PROVE RunInv'
    <3>1. original' = [original EXCEPT !.attempt = @ + 1, !.done = FALSE] /\ original.attempt < MaxAttempts
      BY <2>2 DEF Rerun, OriginalRun
    <3>2. original' \in WorkflowRun /\ original'.attempt = original.attempt + 1 /\ original'.left = original.left
      <4>1. original.attempt + 1 \in 1..MaxAttempts
        BY <1>0, <3>1
      <4>2. PICK n \in 1..MaxAttempts : n = original.attempt + 1
        BY <4>1
      <4>3. original' = [original EXCEPT !.attempt = n, !.done = FALSE]
        BY <3>1, <4>2
      <4> QED
        BY <1>0, <4>2, <4>3 DEF WorkflowRun
    <3>3. Completed(command.attempt) => Completed(command.attempt)'
      BY <1>0, <2>1, <3>2 DEF Completed
    <3> QED
      BY <2>1, <3>2, <3>3 DEF RunInv
  <2>3. ASSUME Upload PROVE RunInv'
    <3>1. original' = [original EXCEPT !.left = @ \cup {original.attempt}] /\ ~original.done
      BY <2>3 DEF Upload, OriginalRun
    <3>2. /\ original' \in WorkflowRun /\ original'.attempt = original.attempt
          /\ original'.done = original.done /\ original'.left = original.left \cup {original.attempt}
      <4>1. original.left \cup {original.attempt} \in SUBSET (1..MaxAttempts)
        BY <1>0 DEF WorkflowRun
      <4>2. PICK ls \in SUBSET (1..MaxAttempts) : ls = original.left \cup {original.attempt}
        BY <4>1
      <4>3. original' = [original EXCEPT !.left = ls]
        BY <3>1, <4>2
      <4> QED
        BY <1>0, <4>2, <4>3 DEF WorkflowRun
    <3>3. Completed(command.attempt) => Completed(command.attempt)' /\ original.attempt \notin 1..command.attempt
      BY <1>0, <2>1, <3>1, <3>2 DEF Completed
    <3>4. Recovers /\ pc \in Examined => Completed(command.attempt)
      BY DEF RunInv
    <3> QED
      BY <2>1, <3>2, <3>3, <3>4 DEF RunInv
  <2>4. ASSUME Complete PROVE RunInv'
    <3>1. original' = [original EXCEPT !.done = TRUE] /\ ~original.done
      BY <2>4 DEF Complete, OriginalRun
    <3>2. original' \in WorkflowRun /\ original'.attempt = original.attempt /\ original'.left = original.left
      BY <1>0, <3>1 DEF WorkflowRun
    <3>3. Completed(command.attempt) => Completed(command.attempt)'
      BY <1>0, <2>1, <3>1, <3>2 DEF Completed
    <3> QED
      BY <2>1, <3>2, <3>3 DEF RunInv
  <2> QED
    BY <1>19, <2>2, <2>3, <2>4 DEF OtherRun
<1>20. Requests => \/ ReadPulls \/ ReadRegistry \/ Conclude
                   \/ ReadBase("verify_base", "verify_base_again") \/ ReadBaseAgain("verify_base_again", "verify_main")
                   \/ Load \/ ReadBase("base", "base_again") \/ ReadBaseAgain("base_again", "main_again")
                   \/ ReadMainAgain \/ ReadWorkflow \/ ReadAttempt \/ ReadCurrent \/ ReadArtifacts
                   \/ Fetch \/ FetchAgain \/ \E anchor \in Commits : Propose(anchor)
  BY Zenon DEF Requests
<1> QED
  BY <1>4, <1>5, <1>6, <1>7, <1>8, <1>9, <1>10, <1>11, <1>12, <1>14, <1>15, <1>17, <1>18, <1>19, <1>20, Steps, Zenon
(* The invariant, and what follows from it.                                *)

\* The conjunction is inductive.
THEOREM InvHolds == Spec => []QualificationInv
<1>1. Init => QualificationInv
  BY InitInv
<1>2. QualificationInv /\ [Next]_vars => QualificationInv'
  <2> SUFFICES ASSUME QualificationInv, [Next]_vars PROVE QualificationInv'
    OBVIOUS
  <2>1. RepositoryInv' /\ Developed
    BY RepositoryNext DEF QualificationInv
  <2>2. CommandInv' /\ BindingInv'
    BY <2>1, CommandNext, BindingNext DEF QualificationInv
  <2>3. RecordsInv' /\ RunInv'
    BY RecordsNext, RunNext DEF QualificationInv
  <2> QED
    BY <2>1, <2>2, <2>3 DEF QualificationInv
<1> QED
  BY <1>1, <1>2, PTL DEF Spec

\* What Loads says of a fresh source and the main it is compared with.
CarriesPolicy(main, src) ==
    LET active == commits[main].inventory
        recorded == commits[src].inventory
    IN  /\ WellFormed(active)
        /\ active.enforce => \A path \in Covers(active) : Blob(src, path) = Blob(main, path)
        /\ \A path \in Covers(recorded) : \E c \in Past[main] : Blob(src, path) = Blob(c, path)

LEMMA LoadedCarriesPolicy ==
    ASSUME NEW main, NEW src, Loads(main, src, TRUE) PROVE CarriesPolicy(main, src)
<1> DEFINE active == commits[main].inventory
           recorded == commits[src].inventory
<1>1. /\ WellFormed(active) /\ HistoricalChain(main, src, recorded)
      /\ active.enforce => /\ Covers(recorded) = Covers(active)
                           /\ \A path \in Covers(recorded) : Blob(main, path) = recorded.blobs[path]
  BY DEF Loads
<1>2. /\ recorded.policy \in Past[main]
      /\ \A path \in Covers(recorded) :
            Blob(src, path) = recorded.blobs[path] /\ Blob(recorded.policy, path) = recorded.blobs[path]
  BY <1>1 DEF HistoricalChain, Ancestor
<1> QED
  BY <1>1, <1>2 DEF CarriesPolicy

\* A step that binds a source as fresh finds both branches where it read them.
LEMMA BindingCarriesPolicy ==
    ASSUME BindingInv, Next, NEW b \in bound' \ bound
    PROVE  b.source = tip["support"] /\ CarriesPolicy(tip["main"], b.source)
<1>1. FetchAgain
  <2>1. bound' # bound
    OBVIOUS
  <2>2. CASE Starts
    BY <2>1, <2>2 DEF Starts, Qualify, Rebind, StartSupport, Start
  <2>3. CASE Requests /\ ~FetchAgain
    BY <2>1, <2>3 DEF Requests, Load, ReadBase, ReadBaseAgain, ReadMainAgain, ReadWorkflow, ReadAttempt,
         ReadCurrent, ReadArtifacts, ReadPulls, ReadRegistry, Conclude, Fetch, Propose
  <2>4. CASE ProposeAgain \/ Interrupt
    BY <2>1, <2>4 DEF ProposeAgain, Interrupt
  <2>5. CASE Maintain
    BY <2>1, <2>5, MaintainLeavesRest
  <2>6. CASE OtherRun
    BY <2>1, <2>6 DEF OtherRun, Rerun, Upload, Complete, OriginalRun
  <2> QED
    BY <2>2, <2>3, <2>4, <2>5, <2>6, Steps
<1>2. /\ b.source = command.source /\ pc = "fetch_again" /\ command.fresh /\ command.line = "support"
      /\ tip["main"] = policy /\ tip["support"] = base
  BY <1>1 DEF FetchAgain, Continue, ContinueWith
<1>3. base = command.source /\ Loads(policy, command.source, TRUE)
  BY <1>2 DEF BindingInv
<1>4. CarriesPolicy(policy, command.source)
  BY <1>3, LoadedCarriesPolicy
<1> QED
  BY <1>2, <1>3, <1>4

\* What two commits have in common with main does not grow when one is replaced
\* by its ancestor.
LEMMA SameBase ==
    ASSUME RepositoryInv, NEW t \in Commits, NEW main \in Commits, NEW src \in Past[t],
           NEW a \in Past[src], a \in Past[main], MergeBase(t, main) = a
    PROVE  MergeBase(src, main) = a
<1>1. src \in Commits /\ Past[src] \subseteq Past[t]
  BY Ancestry
<1> DEFINE S == Past[t] \cap Past[main]
           R == Past[src] \cap Past[main]
<1>2. Len(commits) \in Nat /\ S \subseteq 1..Len(commits) /\ a \in S
  BY <1>1, Ancestry DEF RepositoryInv, RepositoryType, Commits
<1>3. MergeBase(t, main) = Latest(S) /\ MergeBase(src, main) = Latest(R)
  BY Zenon DEF MergeBase, Latest
<1>4. \A d \in S : d <= a
  BY <1>2, <1>3, LatestExists
<1>5. R \subseteq Nat /\ a \in R /\ \A d \in R : d <= a
  BY <1>1, <1>2, <1>4
<1> HIDE DEF R, S
<1>6. Latest(R) = a
  BY <1>5, LatestIs
<1> QED
  BY <1>3, <1>6

LEMMA BoundAreRecoverable == RepositoryInv /\ BindingInv => FreshIsRecoverable
<1> SUFFICES ASSUME RepositoryInv, BindingInv, NEW b \in bound, Keeps(tip["main"], b.source)
             PROVE  /\ Loads(tip["main"], b.source, FALSE)
                    /\ OnLineage("support", tip["main"], b.source, tip["support"])
  BY DEF FreshIsRecoverable
<1> DEFINE recorded == commits[b.source].inventory
<1>0. tip["main"] \in Commits
  BY DEF RepositoryInv, RepositoryType
<1>1. PICK m, t, src : m = tip["main"] /\ t = tip["support"] /\ src = b.source
  OBVIOUS
<1>2. PICK a : a = commits[m].inventory.anchor
  OBVIOUS
<1>3. /\ t \in Commits /\ m \in Commits /\ src \in Past[t] /\ src \in Commits
      /\ b.main \in Past[m] /\ Past[b.main] \subseteq Past[m]
      /\ Loads(b.main, src, TRUE)
  BY <1>0, <1>1, Ancestry DEF BindingInv
<1>4. /\ WellFormed(commits[m].inventory) /\ ~commits[m].another /\ a = commits[src].inventory.anchor
      /\ MergeBase(t, m) = a
  BY <1>1, <1>2 DEF Keeps
<1>5. /\ a \in Past[src] /\ a \in Past[b.main] /\ WellFormed(commits[src].inventory)
      /\ HistoricalChain(b.main, src, commits[src].inventory)
  BY <1>3, <1>4 DEF Loads, Ancestor
<1>6. a \in Past[m] /\ MergeBase(src, m) = a
  BY <1>3, <1>4, <1>5, SameBase
<1>7. HistoricalChain(m, src, commits[src].inventory)
  BY <1>3, <1>5 DEF HistoricalChain, Ancestor
<1>8. Loads(m, src, FALSE)
  BY <1>2, <1>4, <1>5, <1>6, <1>7 DEF Loads, Ancestor
<1>9. OnLineage("support", m, src, t)
  BY <1>2, <1>3, <1>4, <1>6 DEF OnLineage, Ancestor
<1> QED
  BY <1>1, <1>8, <1>9

\* A page that is not full is the whole inventory.
LEMMA PageIsWhole ==
    ASSUME NEW S, NEW s \in Seq(S), Len(Page(s)) < PageSize \/ Len(Page(s)) = Len(s)
    PROVE  Page(s) = s
<1>0. Len(s) \in Nat /\ PageSize \in Nat
  BY QualificationAssumption
<1>1. CASE Len(s) < PageSize
  BY <1>0, <1>1, SubSeqFull DEF Page
<1>2. CASE Len(s) >= PageSize
  <2>1. Page(s) = SubSeq(s, 1, PageSize)
    BY <1>0, <1>2 DEF Page
  <2>2. Len(Page(s)) = PageSize
    BY <1>0, <1>2, <2>1
  <2>3. PageSize = Len(s)
    BY <1>0, <2>2
  <2> QED
    BY <2>1, <2>3, SubSeqFull
<1> QED
  BY <1>0, <1>1, <1>2

LEMMA VouchedIsSeen == RecordsInv => NothingUnseen
<1> SUFFICES ASSUME RecordsInv, NEW i \in DOMAIN output, output[i].state = "release"
             PROVE  LET pulls == evidence.pulls IN
                    /\ \E j \in DOMAIN pulls :
                          /\ Merged(pulls) = {j} /\ pulls[j].commits = 1 /\ pulls[j].signer = "maintainer"
                          /\ \A f \in DOMAIN pulls[j].files : pulls[j].files[f] \in {"manifest", "package"}
                    /\ \A k \in Published(evidence) : evidence.crates[k].packagedFrom = "source"
  BY DEF NothingUnseen
<1> DEFINE pulls == evidence.pulls
<1>1. Classify(evidence) = "release" /\ RegistryAgrees(evidence)
  BY DEF RecordsInv, Vouched
<1>2. pulls \in Seq(PullRequest)
  BY EvidenceAssumption DEF RecordsInv
<1>3. Len(Page(pulls)) < PageSize /\ \E j \in Merged(Page(pulls)) : Merged(Page(pulls)) = {j} /\ Reviewed(evidence.commit, Page(pulls)[j])
  <2>1. PageSize \in Nat /\ Len(Page(pulls)) \in Nat
    BY <1>2, QualificationAssumption DEF Page
  <2> QED
    BY <1>1, <2>1 DEF Classify
<1>4. Page(pulls) = pulls
  BY <1>2, <1>3, PageIsWhole
<1>5. PICK j \in Merged(pulls) : Merged(pulls) = {j} /\ Reviewed(evidence.commit, pulls[j])
  BY <1>3, <1>4
<1>6. j \in DOMAIN pulls /\ pulls[j] \in PullRequest
  BY <1>2, <1>5 DEF Merged
<1>7. pulls[j].files \in Seq({"manifest", "package", "other"})
  BY <1>6 DEF PullRequest
<1>8. pulls[j].commits = 1 /\ pulls[j].signer = "maintainer" /\ FilesCanonical(pulls[j])
  BY <1>5 DEF Reviewed, Signed
<1>9. Page(pulls[j].files) = pulls[j].files
  BY <1>7, <1>8, PageIsWhole DEF FilesCanonical
<1>10. \A f \in DOMAIN pulls[j].files : pulls[j].files[f] \in {"manifest", "package"}
  BY <1>8, <1>9 DEF FilesCanonical
<1>11. \A k \in Published(evidence) : evidence.crates[k].packagedFrom = "source"
  BY <1>1 DEF RegistryAgrees, Published, ArchiveProves
<1> QED
  BY <1>5, <1>6, <1>8, <1>10, <1>11

LEMMA ExaminedIsSettled == CommandInv /\ RunInv => OriginalRunSettled
<1> SUFFICES ASSUME CommandInv, RunInv, command.op = "recover", command.line = "main", pc \in Examined,
                    NEW n \in 1..command.attempt
             PROVE  Completed(n) /\ n \notin original.left
  BY DEF OriginalRunSettled, Examined, Binding
<1>1. Completed(command.attempt) /\ n \notin original.left
  BY DEF RunInv
<1>2. command.attempt \in Nat /\ original.attempt \in Nat
  <2>1. MaxAttempts \in Nat
    BY QualificationAssumption
  <2> QED
    BY <2>1 DEF CommandInv, Arguments, RunInv, WorkflowRun
<1> QED
  BY <1>1, <1>2 DEF Completed

\* rebind-policy binds a source as fresh only when it is the tip of the line and
\* holds what the tip of main holds in every enforced policy file, though both
\* branches move between its requests.
THEOREM FreshHasPolicy == Spec => FreshCarriesPolicy
<1> DEFINE Carried == \A b \in bound' \ bound :
        LET active == commits[tip["main"]].inventory
            recorded == commits[b.source].inventory
        IN  /\ b.source = tip["support"] /\ WellFormed(active)
            /\ active.enforce =>
                 \A path \in Covers(active) : Blob(b.source, path) = Blob(tip["main"], path)
            /\ \A path \in Covers(recorded) :
                 \E c \in Past[tip["main"]] : Blob(b.source, path) = Blob(c, path)
<1>1. ASSUME QualificationInv, Next PROVE Carried
  BY <1>1, BindingCarriesPolicy DEF QualificationInv, CarriesPolicy
<1>2. QualificationInv /\ [Next]_vars => [Carried]_vars
  BY <1>1
<1> QED
  BY <1>2, InvHolds, PTL DEF Spec, FreshCarriesPolicy

\* A source that was bound as fresh can be bound by every later recovery, for
\* all histories of main and of the support line that keep the line apart.
THEOREM FreshStaysRecoverable == Spec => []FreshIsRecoverable
  BY InvHolds, BoundAreRecoverable, PTL DEF QualificationInv

\* qualify says `release' only of one reviewed pull request and of packages made
\* from the source, whatever lies beyond the pages that it reads.
THEOREM NothingGoesUnseen == Spec => []NothingUnseen
  BY InvHolds, VouchedIsSeen, PTL DEF QualificationInv

\* A recovery of main goes on after all attempts up to the one it names have
\* ended and left nothing, for any number of attempts started meanwhile.
THEOREM RecoveryWaitsForRun == Spec => []OriginalRunSettled
  BY InvHolds, ExaminedIsSettled, PTL DEF QualificationInv
=============================================================================
