--------------------------- MODULE ProviderProofs ----------------------------
(***************************************************************************)
(* Reading and writing at a provider.  A listing that ends is complete,    *)
(* for any directory, page size and changes while it runs; a call that     *)
(* disables an account sends a native write once and loses no other flag,  *)
(* for any number of calls at the same time.                               *)
(***************************************************************************)
EXTENDS Discovery, RemoteDisable, FiniteSetTheorems, WellFoundedInduction, TLAPS
LOCAL INSTANCE FiniteSetsExt

(* The inductive invariant of a listing. *)

\* The position of an object in a listing of S, as startIndex counts.
Rank(S, x) == Cardinality({y \in S : y <= x})

\* The listing of S has not come to an object.
Ahead(S, x) == IF client = "SCIM_2_0" THEN Rank(S, x) > at ELSE x > at

\* A group has been read, with those members that were there all the time.
Whole(g) ==
    /\ g \in listed.groups
    /\ {g} \X (MembersOf[g] \cap steady.users) \subseteq listed.members

\* The pages of users, and those of groups.
UsersOK == \A u \in steady.users : u \in listed.users \/ Ahead(present.users, u)
GroupsOK == \A g \in steady.groups : Whole(g) \/ Ahead(present.groups, g)

\* The members of the groups of a page.
MembersOK ==
    /\ \A g \in steady.groups : Whole(g) \/ g \in page \/ (follows /\ g > atGroup)
    /\ \A u \in MembersOf[Min(page)] \cap steady.users :
         <<Min(page), u>> \in listed.members \/ u > at

\* How far the listing has come.
Progress ==
    /\ phase \in {"none", "users"} => UsersOK
    /\ phase \in {"groups", "members", "done"} => steady.users \subseteq listed.users
    /\ phase = "groups" => GroupsOK
    /\ phase = "members" => MembersOK
    /\ phase = "done" => \A g \in steady.groups : Whole(g)

\* The inductive invariant of a listing.
DiscoveryInv ==
    /\ DiscoveryTypeOK
    /\ steady.users \subseteq present.users /\ steady.groups \subseteq present.groups
    /\ phase = "members" => client \in Linked /\ page # {}
    /\ ~(client = "SCIM_2_0" /\ removed) => Progress
-----------------------------------------------------------------------------
\* A set of natural numbers that is not empty has a least member.
LEMMA LeastNatural ==
  ASSUME NEW S \in SUBSET Nat, S # {}
  PROVE  \E n \in S : \A m \in S : n <= m
<1> DEFINE R == {ss \in Nat \X Nat : ss[1] < ss[2]}
<1>1. IsWellFoundedOn(R, Nat)
  BY NatLessThanWellFounded DEF OpToRel
<1>2. PICK n \in S : \A m \in S : ~(<<m, n>> \in R)
  <2> HIDE DEF R
  <2>1. QED
    BY <1>1, WFMin, Zenon
<1>3. ASSUME NEW m \in S PROVE n <= m
  <2>1. ~(<<m, n>> \in R) /\ m \in Nat /\ n \in Nat
    BY <1>2
  <2>2. ~(m < n)
    BY <2>1
  <2>3. QED
    BY <2>1, <2>2
<1>4. QED
  BY <1>3

\* Positions count the objects up to one.
LEMMA RankTyped ==
  ASSUME NEW S \in SUBSET Nat, IsFiniteSet(S), NEW x
  PROVE  /\ Rank(S, x) \in Nat /\ Cardinality(S) \in Nat
         /\ Rank(S, x) <= Cardinality(S)
         /\ x \in S => Rank(S, x) >= 1
<1> DEFINE T == {y \in S : y <= x}
<1>1. T \in SUBSET S
  OBVIOUS
<1>2. IsFiniteSet(T) /\ Cardinality(T) <= Cardinality(S)
  BY <1>1, FS_Subset
<1>3. Cardinality(T) \in Nat /\ Cardinality(S) \in Nat
  BY <1>2, FS_CardinalityType
<1>4. ASSUME x \in S PROVE Cardinality(T) # 0
  <2>1. x \in T
    BY <1>4
  <2>2. QED
    BY <1>2, <2>1, FS_EmptySet
<1>5. QED
  BY <1>2, <1>3, <1>4 DEF Rank

\* They grow with the object and with the listing,
LEMMA RankGrows ==
  ASSUME NEW S \in SUBSET Nat, NEW T \in SUBSET Nat, IsFiniteSet(T), S \subseteq T,
         NEW x \in Nat, NEW z \in Nat, x <= z
  PROVE  Rank(S, x) <= Rank(T, z)
<1> DEFINE A == {y \in S : y <= x}
           B == {y \in T : y <= z}
<1>1. A \in SUBSET B
  <2>1. ASSUME NEW y \in S, y <= x PROVE y <= z
    <3>1. y \in Nat
      OBVIOUS
    <3>2. QED
      BY <2>1, <3>1
  <2>2. QED
    BY <2>1, Zenon
<1>2. B \in SUBSET T
  OBVIOUS
<1>3. IsFiniteSet(B)
  BY <1>2, FS_Subset
<1>4. Cardinality(A) <= Cardinality(B)
  BY <1>1, <1>3, FS_Subset
<1>5. QED
  BY <1>4 DEF Rank

\* ... and tell the objects of a listing apart.
LEMMA RankStrict ==
  ASSUME NEW S \in SUBSET Nat, IsFiniteSet(S), NEW x \in Nat, NEW z \in S, x < z
  PROVE  Rank(S, x) < Rank(S, z)
<1> DEFINE A == {y \in S : y <= x}
           B == {y \in S : y <= z}
<1>1. A \in SUBSET B /\ B \in SUBSET S /\ z \in B /\ z \notin A
  <2>1. z \in Nat /\ ~(z <= x) /\ z <= z
    OBVIOUS
  <2>2. ASSUME NEW y \in S, y <= x PROVE y <= z
    <3>1. y \in Nat
      OBVIOUS
    <3>2. QED
      BY <2>1, <2>2, <3>1
  <2>3. QED
    BY <2>1, <2>2, Zenon
<1>2. IsFiniteSet(B)
  BY <1>1, FS_Subset
<1>3. IsFiniteSet(A) /\ Cardinality(A) <= Cardinality(B)
      /\ (Cardinality(B) = Cardinality(A) => B = A)
  BY <1>1, <1>2, FS_Subset
<1>4. Cardinality(A) \in Nat /\ Cardinality(B) \in Nat
  BY <1>2, <1>3, FS_CardinalityType
<1>5. QED
  BY <1>1, <1>3, <1>4 DEF Rank

\* A finite set of numbers has a greatest and a least one.
LEMMA Extremes ==
  ASSUME NEW S \in SUBSET Nat, IsFiniteSet(S), S # {}
  PROVE  /\ Max(S) \in S /\ \A y \in S : Max(S) >= y
         /\ Min(S) \in S /\ \A y \in S : Min(S) <= y
<1> DEFINE D == {Cardinality(S) - Rank(S, x) : x \in S}
<1>1. \A x \in S : /\ Rank(S, x) \in Nat /\ Cardinality(S) \in Nat
                   /\ Cardinality(S) - Rank(S, x) \in Nat
  BY RankTyped
<1>2. D \in SUBSET Nat /\ D # {}
  BY <1>1, Zenon
<1>3. PICK d \in D : \A e \in D : d <= e
  BY <1>2, LeastNatural, Zenon
<1>4. PICK x \in S : d = Cardinality(S) - Rank(S, x)
  BY <1>3
<1>5. ASSUME NEW y \in S PROVE x >= y
  <2>1. d <= Cardinality(S) - Rank(S, y)
    BY <1>3
  <2>2. Rank(S, y) <= Rank(S, x)
    BY <1>1, <1>4, <2>1
  <2>3. x < y => Rank(S, x) < Rank(S, y)
    BY RankStrict
  <2>4. QED
    BY <1>1, <2>2, <2>3
<1>6. Max(S) \in S /\ \A y \in S : Max(S) >= y
  BY <1>5, Zenon DEF Max
<1>7. PICK n \in S : \A m \in S : n <= m
  BY LeastNatural
<1>8. Min(S) \in S /\ \A y \in S : Min(S) <= y
  BY <1>7, Zenon DEF Min
<1>9. QED
  BY <1>6, <1>8

\* A page has no more objects than it was asked for.
LEMMA PageIsShort ==
  ASSUME NEW S \in SUBSET Nat, IsFiniteSet(S), NEW start \in Nat, start > 0, NEW n \in Nat
  PROVE  Cardinality(PageFrom(S, start, n)) \in Nat /\ Cardinality(PageFrom(S, start, n)) <= n
<1> DEFINE G == PageFrom(S, start, n)
           I == start .. start + n - 1
<1>1. G \in SUBSET S /\ \A x \in G : Rank(S, x) \in I
  BY DEF PageFrom, Rank
<1>2. IsFiniteSet(G) /\ Cardinality(G) \in Nat
  BY <1>1, FS_Subset, FS_CardinalityType
<1>3. IsFiniteSet(I) /\ Cardinality(I) = n
  BY FS_Interval
<1>4. ASSUME Cardinality(G) > n PROVE FALSE
  <2> DEFINE f == [x \in G |-> Rank(S, x)]
  <2>1. f \in [G -> I]
    BY <1>1
  <2> HIDE DEF G, I
  <2>2. PICK x, y \in G : x # y /\ f[x] = f[y]
    <3>1. Cardinality(I) < Cardinality(G)
      BY <1>2, <1>3, <1>4
    <3> HIDE DEF f
    <3>2. QED
      BY <1>2, <1>3, <2>1, <3>1, FS_PigeonHole
  <2>3. Rank(S, x) = Rank(S, y) /\ x \in S /\ y \in S /\ x \in Nat /\ y \in Nat
    BY <1>1, <2>2
  <2>4. CASE x < y
    BY <2>3, <2>4, RankStrict, RankTyped
  <2>5. CASE y < x
    BY <2>3, <2>5, RankStrict, RankTyped
  <2>6. QED
    BY <2>2, <2>3, <2>4, <2>5
<1>5. QED
  BY <1>2, <1>4

\* A page begins with the first object at or after its index: behind the index
\* there is either a next object or none at all.
LEMMA NextRank ==
  ASSUME NEW S \in SUBSET Nat, IsFiniteSet(S), NEW k \in Nat,
         NEW x \in S, Rank(S, x) > k
  PROVE  \E z \in S : Rank(S, z) = k + 1
<1> DEFINE U == {y \in S : Rank(S, y) > k}
<1>1. PICK z \in U : \A y \in U : z <= y
  BY LeastNatural, Zenon
<1> DEFINE B == {y \in S : y < z}
           A == {y \in S : y <= z}
<1>2. \A y \in S : Rank(S, y) \in Nat
  BY RankTyped
<1>3. \A y \in B : Rank(S, y) <= k
  BY <1>1, <1>2
<1>4. IsFiniteSet(B) /\ B \in SUBSET Nat /\ Cardinality(B) \in Nat
  BY FS_Subset, FS_CardinalityType, Zenon
<1>5. Cardinality(B) <= k
  <2>1. CASE B = {}
    BY <2>1, FS_EmptySet
  <2>2. CASE B # {}
    <3> HIDE DEF B
    <3>1. PICK m \in B : \A y \in B : m >= y
      BY <1>4, <2>2, Extremes, Zenon
    <3>2. B = {y \in S : y <= m}
      <4>1. ASSUME NEW y \in S PROVE y < z <=> y <= m
        <5>1. y \in Nat /\ z \in Nat /\ m \in Nat /\ m < z /\ (y < z => m >= y)
          BY <1>1, <3>1 DEF B
        <5>2. QED
          BY <5>1
      <4>2. QED
        BY <4>1, Zenon DEF B
    <3>3. Cardinality(B) = Rank(S, m)
      BY <3>2 DEF Rank
    <3>4. QED
      BY <1>3, <3>1, <3>3
  <2>3. QED
    BY <2>1, <2>2
<1>6. A = B \cup {z} /\ z \notin B
  <2>1. z \in S /\ ~(z < z) /\ \A y \in S : y <= z <=> (y < z \/ y = z)
    <3>1. z \in S /\ z \in Nat /\ \A y \in S : y \in Nat
      BY <1>1
    <3>2. QED
      BY <3>1
  <2>2. QED
    BY <2>1, Zenon
<1>7. Cardinality(A) = Cardinality(B) + 1
  <2> HIDE DEF A, B
  <2>1. QED
    BY <1>4, <1>6, FS_AddElement, Zenon
<1>8. Rank(S, z) = Cardinality(A)
  BY DEF Rank
<1>9. QED
  BY <1>1, <1>2, <1>4, <1>5, <1>7, <1>8

-----------------------------------------------------------------------------
(* What one page does to a listing of S. *)

Pages(S) == IF client = "SCIM_2_0" THEN ScimPages(S) ELSE LinkedPages(S) \cup LdapPages(S)

\* Pages by link: what is not on one comes after all that is.
LEMMA PagesByLink ==
  ASSUME NEW S \in SUBSET Nat, IsFiniteSet(S), at \in Nat, PageSize \in Nat,
         NEW p \in LinkedPages(S) \cup LdapPages(S)
  PROVE  /\ p.more \in BOOLEAN
         /\ \A x \in p.got : x \in S /\ x > at
         /\ \A x \in S : x > at => x \in p.got \/ (p.more /\ \A y \in p.got : y < x)
<1> DEFINE T == {x \in S : x > at}
<1>1. PICK n \in Nat : p.got = PageAfter(S, at, n)
  <2>1. 0 .. PageSize \subseteq Nat /\ 1 .. PageSize \subseteq Nat
    OBVIOUS
  <2>2. CASE p \in LinkedPages(S)
    BY <2>1, <2>2 DEF LinkedPages
  <2>3. CASE p \in LdapPages(S)
    BY <2>1, <2>3 DEF LdapPages
  <2>4. QED
    BY <2>2, <2>3
<1>2. p.more \in BOOLEAN /\ (~p.more => p.got = T)
  <2>1. CASE p \in LinkedPages(S)
    BY <2>1 DEF LinkedPages
  <2>2. CASE p \in LdapPages(S)
    <3>1. PICK m \in 1 .. PageSize :
            p = [got |-> PageAfter(S, at, m), more |-> T # PageAfter(S, at, m)]
      BY <2>2, Zenon DEF LdapPages
    <3>2. p.more = (T # PageAfter(S, at, m)) /\ p.got = PageAfter(S, at, m)
      <4> HIDE DEF T
      <4>1. QED
        BY <3>1, Zenon
    <3>3. QED
      <4> HIDE DEF T
      <4>1. QED
        BY <3>2, Zenon
  <2>3. QED
    BY <2>1, <2>2
<1>3. T \in SUBSET Nat /\ IsFiniteSet(T)
  BY FS_Subset, Zenon
<1>4. p.got = {x \in T : Rank(T, x) \in 1 .. 1 + n - 1}
  BY <1>1 DEF PageAfter, PageFrom, Rank
<1> HIDE DEF T
<1>5. ASSUME NEW x \in T, x \notin p.got, NEW y \in p.got PROVE y < x
  <2>1. Rank(T, x) \in Nat /\ Rank(T, x) >= 1 /\ Rank(T, y) \in Nat /\ x \in Nat /\ y \in Nat
    BY <1>3, <1>4, <1>5, RankTyped, Zenon
  <2>2. Rank(T, x) > n /\ Rank(T, y) <= n
    BY <1>4, <1>5, <2>1
  <2>3. x <= y => Rank(T, x) <= Rank(T, y)
    BY <1>3, <2>1, RankGrows
  <2>4. QED
    BY <2>1, <2>2, <2>3
<1>6. \A x \in T : x \in p.got \/ (p.more /\ \A y \in p.got : y < x)
  BY <1>2, <1>5
<1>7. QED
  BY <1>2, <1>4, <1>6 DEF T

\* Pages by index: what is not on one has a position that comes after it.
LEMMA PagesByIndex ==
  ASSUME NEW S \in SUBSET Nat, IsFiniteSet(S), at \in Nat, PageSize \in Nat,
         NEW p \in ScimPages(S)
  PROVE  /\ p.more \in BOOLEAN /\ p.got \subseteq S /\ Cardinality(p.got) \in Nat
         /\ \A x \in S : Rank(S, x) > at =>
              x \in p.got \/ (p.more /\ Rank(S, x) > at + Cardinality(p.got))
<1>1. PICK n \in 1 .. PageSize :
        /\ p.got = PageFrom(S, at + 1, n)
        /\ p.more = (p.got # {} /\ at + Cardinality(p.got) < Cardinality(S))
  BY DEF ScimPages
<1>2. n \in Nat /\ n >= 1 /\ at + 1 \in Nat /\ at + 1 > 0
  OBVIOUS
<1>3. Cardinality(p.got) \in Nat /\ Cardinality(p.got) <= n
  BY <1>1, <1>2, PageIsShort, Zenon
<1>4. p.got = {x \in S : Rank(S, x) \in at + 1 .. at + 1 + n - 1}
  BY <1>1 DEF PageFrom, Rank
<1>5. ASSUME NEW x \in S, Rank(S, x) > at, x \notin p.got
      PROVE  p.more /\ Rank(S, x) > at + Cardinality(p.got)
  <2>1. Rank(S, x) \in Nat /\ Cardinality(S) \in Nat /\ Rank(S, x) <= Cardinality(S)
    BY RankTyped
  <2>2. Rank(S, x) > at + n
    BY <1>2, <1>4, <1>5, <2>1
  <2>3. Rank(S, x) > at + Cardinality(p.got)
    BY <1>2, <1>3, <2>1, <2>2
  <2>4. p.got # {}
    <3>1. PICK z \in S : Rank(S, z) = at + 1
      BY <1>5, NextRank
    <3>2. z \in p.got
      BY <1>2, <1>4, <3>1
    <3>3. QED
      BY <3>2
  <2>5. at + Cardinality(p.got) < Cardinality(S)
    BY <1>3, <2>1, <2>3
  <2>6. p.more
    BY <1>1, <2>4, <2>5, Zenon
  <2>7. QED
    BY <2>3, <2>6
<1>6. p.more \in BOOLEAN
  BY <1>1, Zenon
<1>7. QED
  BY <1>3, <1>4, <1>5, <1>6

\* Both: an object the listing has not come to is on the page or still ahead.
LEMMA PageMoves ==
  ASSUME NEW S \in SUBSET Nat, IsFiniteSet(S), at \in Nat, PageSize \in Nat,
         NEW p \in Pages(S)
  PROVE  /\ p.more \in BOOLEAN /\ p.got \subseteq S /\ NextAt(p) \in Nat
         /\ \A x \in S : Ahead(S, x) =>
              \/ x \in p.got
              \/ /\ p.more
                 /\ IF client = "SCIM_2_0" THEN Rank(S, x) > NextAt(p) ELSE x > NextAt(p)
<1>1. CASE client = "SCIM_2_0"
  <2>1. p \in ScimPages(S) /\ NextAt(p) = at + Cardinality(p.got)
    BY <1>1 DEF Pages, NextAt
  <2>2. QED
    BY <1>1, <2>1, PagesByIndex DEF Ahead
<1>2. CASE client # "SCIM_2_0"
  <2>1. p \in LinkedPages(S) \cup LdapPages(S) /\ NextAt(p) = Max({at} \cup p.got)
    BY <1>2 DEF Pages, NextAt
  <2>2. /\ p.more \in BOOLEAN
        /\ \A x \in p.got : x \in S /\ x > at
        /\ \A x \in S : x > at => x \in p.got \/ (p.more /\ \A y \in p.got : y < x)
    BY <2>1, PagesByLink, Zenon
  <2>3. PICK M : M = {at} \cup p.got
    BY Zenon
  <2>4. M \in SUBSET Nat /\ M # {} /\ IsFiniteSet(M)
    <3>1. IsFiniteSet(p.got)
      BY <2>2, FS_Subset
    <3>2. IsFiniteSet(p.got \cup {at})
      BY <3>1, FS_AddElement
    <3>3. M = p.got \cup {at}
      BY <2>3
    <3>4. QED
      BY <2>2, <3>2, <3>3, Zenon
  <2>5. Max(M) \in M
    BY <2>4, Extremes
  <2>6. NextAt(p) = Max(M)
    BY <2>1, <2>3
  <2>7. \A x \in S : x > at => x \in p.got \/ (p.more /\ x > NextAt(p))
    BY <2>2, <2>3, <2>5, <2>6
  <2>8. QED
    BY <1>2, <2>2, <2>4, <2>5, <2>6, <2>7, Zenon DEF Ahead
<1>3. QED
  BY <1>1, <1>2

\* The page counter stays within its limit.
LEMMA CounterTyped ==
  ASSUME DiscoveryTypeOK PROVE NextPage \in 0 .. MaxPages
<1>1. pages \in Nat /\ MaxPages \in Nat
  BY DiscoveryConstants DEF DiscoveryTypeOK
<1>2. PICK M : M = {pages + 1, MaxPages}
  BY Zenon
<1>3. M \in SUBSET Nat /\ M # {} /\ IsFiniteSet(M)
  <2>1. IsFiniteSet({pages + 1} \cup {MaxPages})
    BY FS_Singleton, FS_AddElement, Zenon
  <2>2. M = {pages + 1} \cup {MaxPages}
    BY <1>2
  <2>3. QED
    BY <1>1, <1>2, <2>1, <2>2
<1>4. Min(M) \in M /\ Min(M) <= MaxPages
  BY <1>2, <1>3, Extremes
<1>5. NextPage = Min(M)
  BY <1>2 DEF NextPage
<1>6. QED
  BY <1>1, <1>2, <1>4, <1>5

-----------------------------------------------------------------------------
(* The steps. *)

\* What is listed is made of finite sets of numbers above 0.
LEMMA Sizes ==
  ASSUME DiscoveryInv
  PROVE  /\ present.users \in SUBSET Nat /\ IsFiniteSet(present.users)
         /\ present.groups \in SUBSET Nat /\ IsFiniteSet(present.groups)
         /\ page \in SUBSET Nat /\ IsFiniteSet(page)
         /\ PageSize \in Nat /\ at \in Nat /\ MaxPages \in Nat
         /\ \A g \in DirectoryGroups : g # 0
         /\ \A u \in DirectoryUsers : u # 0
<1>1. /\ present.users \in SUBSET DirectoryUsers /\ present.groups \in SUBSET DirectoryGroups
      /\ page \in SUBSET DirectoryGroups /\ at \in Nat
  BY DEF DiscoveryInv, DiscoveryTypeOK, Directory
<1>2. /\ DirectoryUsers \subseteq Nat \ {0} /\ IsFiniteSet(DirectoryUsers)
      /\ DirectoryGroups \subseteq Nat \ {0} /\ IsFiniteSet(DirectoryGroups)
      /\ PageSize \in Nat /\ MaxPages \in Nat
  BY DiscoveryConstants
<1>3. IsFiniteSet(present.users) /\ IsFiniteSet(present.groups) /\ IsFiniteSet(page)
  BY <1>1, <1>2, FS_Subset, Zenon
<1>4. QED
  BY <1>1, <1>2, <1>3, Zenon

\* At the start of a listing everything is ahead.
LEMMA StartAhead ==
  ASSUME NEW S \in SUBSET Nat, IsFiniteSet(S), NEW x \in S, x # 0
  PROVE  Rank(S, x) > 0 /\ x > 0
<1>1. Rank(S, x) \in Nat /\ Rank(S, x) >= 1
  BY RankTyped
<1>2. QED
  BY <1>1

\* A page of users.
LEMMA UsersRead ==
  ASSUME DiscoveryInv, NEW p \in Pages(present.users), ReadUsers(p)
  PROVE  DiscoveryInv'
<1> USE Sizes
<1>1. /\ p.more \in BOOLEAN /\ p.got \subseteq present.users /\ NextAt(p) \in Nat
      /\ \A x \in present.users : Ahead(present.users, x) =>
           \/ x \in p.got
           \/ /\ p.more
              /\ IF client = "SCIM_2_0" THEN Rank(present.users, x) > NextAt(p)
                                       ELSE x > NextAt(p)
  BY PageMoves
<1>2. /\ listed' \in Listing /\ listed'.users = listed.users \cup p.got
      /\ listed'.groups = listed.groups /\ listed'.members = listed.members
  BY <1>1 DEF DiscoveryInv, DiscoveryTypeOK, Listing, Directory, ReadUsers
<1>3. DiscoveryTypeOK'
  <2>1. NextPage \in 0 .. MaxPages /\ 0 \in 0 .. MaxPages /\ 0 \in 0 .. MaxReads - 1
    BY CounterTyped, DiscoveryConstants DEF DiscoveryInv
  <2>2. CASE p.more
    BY <1>1, <1>2, <2>1, <2>2
    DEF DiscoveryInv, DiscoveryTypeOK, ReadUsers, directoryVars
  <2>3. CASE ~p.more
    BY <1>1, <1>2, <2>1, <2>3
    DEF DiscoveryInv, DiscoveryTypeOK, ReadUsers, directoryVars
  <2>4. QED
    BY <2>2, <2>3
<1>4. ASSUME ~(client = "SCIM_2_0" /\ removed) PROVE Progress'
  <2>1. UsersOK /\ phase = "users"
    BY <1>4 DEF DiscoveryInv, Progress, ReadUsers
  <2>2. /\ steady.users \subseteq present.users /\ steady.groups \subseteq present.groups
        /\ \A g \in steady.groups : g # 0
        /\ client' = client /\ present' = present /\ steady' = steady
    BY DEF DiscoveryInv, DiscoveryTypeOK, Directory, ReadUsers, directoryVars
  <2>3. CASE p.more
    <3>1. phase' = "users" /\ at' = NextAt(p)
      BY <2>1, <2>3 DEF ReadUsers
    <3>2. UsersOK'
      BY <1>1, <1>2, <2>1, <2>2, <3>1 DEF UsersOK, Ahead
    <3>3. QED
      BY <3>1, <3>2 DEF Progress
  <2>4. CASE ~p.more
    <3>1. phase' = "groups" /\ at' = 0
      BY <2>4 DEF ReadUsers
    <3>2. (steady.users \subseteq listed.users)'
      BY <1>1, <1>2, <2>1, <2>2, <2>4 DEF UsersOK
    <3>3. GroupsOK'
      <4>1. \A g \in present.groups : g # 0 => Rank(present.groups, g) > 0 /\ g > 0
        BY StartAhead
      <4>2. QED
        BY <2>2, <3>1, <4>1 DEF GroupsOK, Ahead
    <3>4. QED
      BY <3>1, <3>2, <3>3 DEF Progress
  <2>5. QED
    BY <2>3, <2>4
<1>5. phase' # "members" /\ client' = client /\ removed' = removed /\ present' = present
      /\ steady' = steady
  BY DEF ReadUsers, directoryVars
<1>6. QED
  BY <1>3, <1>4, <1>5 DEF DiscoveryInv

\* A page of groups that carry their members.
LEMMA GroupsRead ==
  ASSUME DiscoveryInv, NEW p \in Pages(present.groups), ReadGroups(p)
  PROVE  DiscoveryInv'
<1> USE Sizes
<1>1. /\ p.more \in BOOLEAN /\ p.got \subseteq present.groups /\ NextAt(p) \in Nat
      /\ \A x \in present.groups : Ahead(present.groups, x) =>
           \/ x \in p.got
           \/ /\ p.more
              /\ IF client = "SCIM_2_0" THEN Rank(present.groups, x) > NextAt(p)
                                       ELSE x > NextAt(p)
  BY PageMoves
<1>2. /\ listed' \in Listing /\ listed'.users = listed.users
      /\ listed'.groups = listed.groups \cup p.got
      /\ listed'.members = listed.members \cup Memberships(p.got)
  <2>1. Memberships(p.got) \subseteq DirectoryGroups \X DirectoryUsers
    BY <1>1 DEF DiscoveryInv, DiscoveryTypeOK, Directory, Memberships
  <2>2. QED
    BY <1>1, <2>1, Zenon DEF DiscoveryInv, DiscoveryTypeOK, Listing, Directory, ReadGroups
<1>3. DiscoveryTypeOK'
  <2>1. NextPage \in 0 .. MaxPages /\ 0 \in 0 .. MaxPages /\ 0 \in 0 .. MaxReads - 1
    BY CounterTyped, DiscoveryConstants DEF DiscoveryInv
  <2>2. CASE p.more
    BY <1>1, <1>2, <2>1, <2>2
    DEF DiscoveryInv, DiscoveryTypeOK, ReadGroups, directoryVars
  <2>3. CASE ~p.more
    BY <1>1, <1>2, <2>1, <2>3
    DEF DiscoveryInv, DiscoveryTypeOK, ReadGroups, directoryVars
  <2>4. QED
    BY <2>2, <2>3
<1>4. ASSUME ~(client = "SCIM_2_0" /\ removed) PROVE Progress'
  <2>1. GroupsOK /\ phase = "groups" /\ steady.users \subseteq listed.users
    BY <1>4 DEF DiscoveryInv, Progress, ReadGroups
  <2>2. /\ steady.users \subseteq present.users /\ steady.groups \subseteq present.groups
        /\ client' = client /\ present' = present /\ steady' = steady
    BY DEF DiscoveryInv, ReadGroups, directoryVars
  <2>3. \A g \in steady.groups : Whole(g) => Whole(g)'
    BY <1>2, <2>2 DEF Whole
  <2>4. \A g \in steady.groups : g \in p.got => Whole(g)'
    <3>1. ASSUME NEW g \in p.got, NEW u \in MembersOf[g] \cap steady.users
          PROVE  <<g, u>> \in Memberships(p.got)
      BY <2>2, <3>1 DEF Memberships
    <3>2. QED
      BY <1>2, <2>2, <3>1 DEF Whole
  <2>5. (steady.users \subseteq listed.users)'
    BY <1>2, <2>1, <2>2
  <2>6. CASE p.more
    <3>1. phase' = "groups" /\ at' = NextAt(p)
      BY <2>1, <2>6 DEF ReadGroups
    <3>2. GroupsOK'
      BY <1>1, <2>1, <2>2, <2>3, <2>4, <3>1 DEF GroupsOK, Ahead
    <3>3. QED
      BY <2>5, <3>1, <3>2 DEF Progress
  <2>7. CASE ~p.more
    <3>1. phase' = "done"
      BY <2>7 DEF ReadGroups
    <3>2. (\A g \in steady.groups : Whole(g))'
      BY <1>1, <2>1, <2>2, <2>3, <2>4, <2>7 DEF GroupsOK
    <3>3. QED
      BY <2>5, <3>1, <3>2 DEF Progress
  <2>8. QED
    BY <2>6, <2>7
<1>5. phase' # "members" /\ client' = client /\ removed' = removed /\ present' = present
      /\ steady' = steady
  BY DEF ReadGroups, directoryVars
<1>6. QED
  BY <1>3, <1>4, <1>5 DEF DiscoveryInv

\* A page of groups whose members are listed next.
LEMMA GroupPageRead ==
  ASSUME DiscoveryInv, client \in Linked,
         NEW p \in LinkedPages(present.groups), ReadGroupPage(p)
  PROVE  DiscoveryInv'
<1> USE Sizes
<1>1. /\ p.more \in BOOLEAN
      /\ \A x \in p.got : x \in present.groups /\ x > at
      /\ \A x \in present.groups : x > at =>
           x \in p.got \/ (p.more /\ \A y \in p.got : y < x)
  BY PagesByLink
<1>2. p.got \in SUBSET Nat /\ IsFiniteSet(p.got) /\ p.got \subseteq DirectoryGroups
  <2>1. p.got \subseteq present.groups
    BY <1>1
  <2>2. IsFiniteSet(p.got)
    BY <2>1, FS_Subset
  <2>3. QED
    BY <2>1, <2>2 DEF DiscoveryInv, DiscoveryTypeOK, Directory
<1>3. NextPage \in 0 .. MaxPages /\ 0 \in 0 .. MaxPages /\ 0 \in 0 .. MaxReads - 1
  BY CounterTyped, DiscoveryConstants DEF DiscoveryInv
<1>4. /\ GroupsOK /\ phase = "groups" /\ steady.users \subseteq listed.users
      /\ client # "SCIM_2_0"
  BY DEF DiscoveryInv, Progress, ReadGroupPage, Linked
<1>5. /\ steady.users \subseteq present.users /\ steady.groups \subseteq present.groups
      /\ steady.groups \subseteq DirectoryGroups
      /\ client' = client /\ present' = present /\ steady' = steady /\ removed' = removed
      /\ listed' = listed /\ page' = p.got
  BY DEF DiscoveryInv, DiscoveryTypeOK, Directory, ReadGroupPage, directoryVars
<1>6. \A g \in steady.groups : Whole(g) => Whole(g)'
  BY <1>5 DEF Whole
<1>7. \A g \in steady.groups : Whole(g) \/ g > at
  BY <1>4 DEF GroupsOK, Ahead
<1>8. CASE p.got = {}
  <2>1. DiscoveryTypeOK'
    <3>1. CASE p.more
      BY <1>2, <1>3, <1>8, <3>1
      DEF DiscoveryInv, DiscoveryTypeOK, ReadGroupPage, NextGroups, directoryVars
    <3>2. CASE ~p.more
      BY <1>2, <1>3, <1>8, <3>2
      DEF DiscoveryInv, DiscoveryTypeOK, ReadGroupPage, NextGroups, directoryVars
    <3>3. QED
      BY <3>1, <3>2
  <2>2. CASE p.more
    <3>1. phase' = "groups" /\ at' = at
      BY <1>8, <2>2 DEF ReadGroupPage, NextGroups
    <3>2. GroupsOK'
      BY <1>4, <1>5, <1>6, <1>7, <3>1 DEF GroupsOK, Ahead
    <3>3. QED
      BY <1>4, <1>5, <2>1, <3>1, <3>2 DEF DiscoveryInv, Progress
  <2>3. CASE ~p.more
    <3>1. phase' = "done"
      BY <1>8, <2>3 DEF ReadGroupPage, NextGroups
    <3>2. (\A g \in steady.groups : Whole(g))'
      BY <1>1, <1>5, <1>6, <1>7, <1>8, <2>3
    <3>3. QED
      BY <1>4, <1>5, <2>1, <3>1, <3>2 DEF DiscoveryInv, Progress
  <2>4. QED
    BY <2>2, <2>3
<1>9. CASE p.got # {}
  <2>1. /\ phase' = "members" /\ at' = 0 /\ pages' = 0 /\ reads' = 0
        /\ follows' = p.more /\ atGroup' = Max(p.got) /\ groupPages' = NextPage
        /\ directoryChanges' = directoryChanges
    BY <1>9 DEF ReadGroupPage, directoryVars
  <2>2. Max(p.got) \in p.got /\ Min(p.got) \in p.got
    BY <1>2, <1>9, Extremes
  <2>3. DiscoveryTypeOK'
    BY <1>1, <1>2, <1>3, <1>5, <2>1, <2>2, SMTT(20) DEF DiscoveryInv, DiscoveryTypeOK
  <2>4. MembersOK'
    <3>1. \A g \in steady.groups :
            Whole(g)' \/ g \in p.got \/ (p.more /\ g > Max(p.got))
      BY <1>1, <1>2, <1>5, <1>6, <1>7, <2>2
    <3>2. \A u \in MembersOf[Min(p.got)] : u > 0
      <4>1. \A h \in DirectoryGroups : \A u \in MembersOf[h] : u > 0
        BY DiscoveryConstants
      <4>2. QED
        BY <1>2, <2>2, <4>1, Zenon
    <3>3. QED
      BY <1>5, <2>1, <3>1, <3>2 DEF MembersOK
  <2>5. QED
    BY <1>4, <1>5, <1>9, <2>1, <2>3, <2>4 DEF DiscoveryInv, Progress
<1>10. QED
  BY <1>8, <1>9

\* A page of members of a group.
LEMMA MembersRead ==
  ASSUME DiscoveryInv, client \in Linked, ReadMembers
  PROVE  DiscoveryInv'
<1> USE Sizes
<1>1. PICK g : g = Min(page)
  OBVIOUS
<1>2. PICK S : S = MembersNow(g)
  OBVIOUS
<1>3. phase = "members" /\ page # {} /\ client # "SCIM_2_0"
      /\ MembersOK /\ steady.users \subseteq listed.users
  BY DEF DiscoveryInv, ReadMembers, Progress, Linked
<1>4. g \in page /\ g \in DirectoryGroups /\ g \in Nat
  BY <1>1, <1>3, Extremes DEF DiscoveryInv, DiscoveryTypeOK
<1>5. S \in SUBSET Nat /\ IsFiniteSet(S) /\ S \subseteq DirectoryUsers
  <2>1. S \subseteq present.users
    BY <1>2 DEF MembersNow
  <2>2. IsFiniteSet(S)
    BY <2>1, FS_Subset
  <2>3. QED
    BY <2>1, <2>2 DEF DiscoveryInv, DiscoveryTypeOK, Directory
<1>6. PICK p \in LinkedPages(S) :
         /\ listed' = [listed EXCEPT !.members = @ \cup ({g} \X p.got),
                                    !.groups = IF p.more THEN @ ELSE @ \cup {g}]
         /\ IF p.more
            THEN /\ at' = NextAt(p) /\ pages' = NextPage
                 /\ UNCHANGED <<phase, page, follows, atGroup, groupPages>>
            ELSE /\ page' = page \ {g}
                 /\ IF page # {g}
                    THEN /\ at' = 0 /\ pages' = 0
                         /\ UNCHANGED <<phase, follows, atGroup, groupPages>>
                    ELSE /\ NextGroups(follows, atGroup, groupPages)
                         /\ follows' = FALSE /\ atGroup' = 0 /\ groupPages' = 0
  BY <1>1, <1>2, Zenon DEF ReadMembers
<1>7. /\ p.more \in BOOLEAN /\ p.got \subseteq S /\ NextAt(p) \in Nat
      /\ \A x \in S : x > at => x \in p.got \/ (p.more /\ x > NextAt(p))
  <2>1. p \in Pages(S)
    BY <1>3 DEF Pages
  <2>2. QED
    BY <1>3, <1>5, <2>1, PageMoves DEF Ahead
<1>8. /\ steady.users \subseteq present.users /\ steady.groups \subseteq DirectoryGroups
      /\ steady.groups \subseteq present.groups
      /\ client' = client /\ present' = present /\ steady' = steady /\ removed' = removed
      /\ directoryChanges' = directoryChanges /\ reads' = 0
  BY DEF DiscoveryInv, DiscoveryTypeOK, Directory, ReadMembers, directoryVars
<1>9. /\ listed' \in Listing /\ listed'.users = listed.users
      /\ listed'.members = listed.members \cup ({g} \X p.got)
      /\ listed'.groups = IF p.more THEN listed.groups ELSE listed.groups \cup {g}
  BY <1>4, <1>5, <1>6, <1>7, Zenon DEF DiscoveryInv, DiscoveryTypeOK, Listing
<1>10. NextPage \in 0 .. MaxPages /\ 0 \in 0 .. MaxPages /\ 0 \in 0 .. MaxReads - 1
  BY CounterTyped, DiscoveryConstants DEF DiscoveryInv
<1>11. \A h \in steady.groups : Whole(h) => Whole(h)'
  BY <1>8, <1>9 DEF Whole
<1>12. \A h \in steady.groups : Whole(h)' \/ h \in page \/ (follows /\ h > atGroup)
  BY <1>3, <1>11 DEF MembersOK
<1>13. \A u \in MembersOf[g] \cap steady.users :
         <<g, u>> \in listed'.members \/ (p.more /\ u > NextAt(p))
  <2>1. ASSUME NEW u \in MembersOf[g] \cap steady.users
        PROVE  <<g, u>> \in listed'.members \/ (p.more /\ u > NextAt(p))
    <3>1. u \in S
      BY <1>2, <1>8 DEF MembersNow
    <3>2. <<g, u>> \in listed.members \/ u > at
      BY <1>1, <1>3 DEF MembersOK
    <3>3. QED
      BY <1>7, <1>9, <3>1, <3>2
  <2>2. QED
    BY <2>1
<1>14. CASE p.more
  <2>1. at' = NextAt(p) /\ pages' = NextPage
        /\ UNCHANGED <<phase, page, follows, atGroup, groupPages>>
    BY <1>6, <1>14
  <2>2. DiscoveryTypeOK'
    BY <1>7, <1>8, <1>9, <1>10, <2>1 DEF DiscoveryInv, DiscoveryTypeOK
  <2>3. MembersOK'
    BY <1>1, <1>8, <1>12, <1>13, <2>1, Zenon DEF MembersOK
  <2>4. QED
    BY <1>3, <1>8, <1>9, <2>1, <2>2, <2>3 DEF DiscoveryInv, Progress
<1>15. CASE ~p.more
  <2>1. Whole(g)' /\ page' = page \ {g}
    BY <1>6, <1>8, <1>9, <1>13, <1>15 DEF Whole
  <2>2. CASE page # {g}
    <3>1. at' = 0 /\ pages' = 0 /\ UNCHANGED <<phase, follows, atGroup, groupPages>>
      BY <1>6, <1>15, <2>2
    <3>2. DiscoveryTypeOK'
      BY <1>8, <1>9, <1>10, <2>1, <3>1 DEF DiscoveryInv, DiscoveryTypeOK
    <3>3. page' # {} /\ page' \in SUBSET Nat /\ IsFiniteSet(page')
      BY <1>4, <2>1, <2>2, FS_Subset, Zenon
    <3>4. Min(page') \in page'
      BY <3>3, Extremes
    <3>5. \A u \in MembersOf[Min(page')] : u > 0
      <4>1. Min(page') \in DirectoryGroups
        BY <2>1, <3>4 DEF DiscoveryInv, DiscoveryTypeOK
      <4>2. \A h \in DirectoryGroups : \A u \in MembersOf[h] : u > 0
        BY DiscoveryConstants
      <4>3. QED
        BY <4>1, <4>2, Zenon
    <3>6. MembersOK'
      BY <1>8, <1>12, <2>1, <3>1, <3>5, Zenon DEF MembersOK
    <3>7. QED
      BY <1>3, <1>8, <1>9, <3>1, <3>2, <3>3, <3>6 DEF DiscoveryInv, Progress
  <2>3. CASE page = {g}
    <3>1. /\ NextGroups(follows, atGroup, groupPages)
          /\ follows' = FALSE /\ atGroup' = 0 /\ groupPages' = 0
      BY <1>6, <1>15, <2>3
    <3>2. DiscoveryTypeOK'
      <4>1. phase' \in {"groups", "done"} /\ at' \in {atGroup, 0} /\ pages' \in {groupPages, 0}
        BY <3>1, Zenon DEF NextGroups
      <4>2. {pages, groupPages}' \subseteq 0 .. MaxPages /\ at' \in Nat
        BY <1>10, <3>1, <4>1 DEF DiscoveryInv, DiscoveryTypeOK
      <4>3. QED
        BY <1>8, <1>9, <1>10, <2>1, <3>1, <4>1, <4>2, Zenon DEF DiscoveryInv, DiscoveryTypeOK
    <3>3. \A h \in steady.groups : Whole(h)' \/ (follows /\ h > atGroup)
      BY <1>12, <2>1, <2>3
    <3>4. CASE follows
      <4>1. phase' = "groups" /\ at' = atGroup
        BY <3>1, <3>4 DEF NextGroups
      <4>2. GroupsOK'
        BY <1>3, <1>8, <3>3, <4>1 DEF GroupsOK, Ahead
      <4>3. QED
        BY <1>3, <1>8, <1>9, <3>2, <4>1, <4>2 DEF DiscoveryInv, Progress
    <3>5. CASE ~follows
      <4>1. phase' = "done"
        BY <3>1, <3>5 DEF NextGroups
      <4>2. (\A h \in steady.groups : Whole(h))'
        BY <1>8, <3>3, <3>5
      <4>3. QED
        BY <1>3, <1>8, <1>9, <3>2, <4>1, <4>2 DEF DiscoveryInv, Progress
    <3>6. QED
      BY <3>4, <3>5
  <2>4. QED
    BY <2>2, <2>3
<1>16. QED
  BY <1>7, <1>14, <1>15

\* Nothing is read: a listing begins, a request is tried again or the listing
\* is given up.
LEMMA NothingRead ==
  ASSUME DiscoveryInv,
         BeginDiscovery \/ PageLimit \/ (\E limit \in {1, MaxReads} : ReadFails(limit))
  PROVE  DiscoveryInv'
<1>1. /\ UNCHANGED <<directoryVars, pages, at, page, follows, atGroup, groupPages, listed>>
      /\ \/ phase = "none" /\ phase' = "users"
         \/ phase' = "failed"
         \/ phase' = phase
  BY DEF BeginDiscovery, PageLimit, ReadFails
<1>2. reads' \in 0 .. MaxReads - 1
  <2>1. MaxReads \in Nat \ {0} /\ reads \in 0 .. MaxReads - 1
    BY DiscoveryConstants DEF DiscoveryInv, DiscoveryTypeOK
  <2>2. reads' \in {reads, 0} \/ (reads' = reads + 1 /\ \E limit \in {1, MaxReads} : reads + 1 < limit)
    BY DEF BeginDiscovery, PageLimit, ReadFails
  <2>3. QED
    BY <2>1, <2>2
<1>3. DiscoveryTypeOK'
  BY <1>1, <1>2 DEF DiscoveryInv, DiscoveryTypeOK, directoryVars
<1>4. Progress => Progress'
  <2>1. UsersOK' = UsersOK /\ GroupsOK' = GroupsOK /\ MembersOK' = MembersOK
        /\ \A g : Whole(g)' = Whole(g)
    BY <1>1, Zenon DEF UsersOK, GroupsOK, MembersOK, Whole, Ahead, directoryVars
  <2>2. steady' = steady /\ listed' = listed
    BY <1>1 DEF directoryVars
  <2>3. CASE phase = "none" /\ phase' = "users"
    BY <2>1, <2>2, <2>3 DEF Progress
  <2>4. CASE phase' = "failed"
    BY <2>4 DEF Progress
  <2>5. CASE phase' = phase
    BY <2>1, <2>2, <2>5 DEF Progress
  <2>6. QED
    BY <1>1, <2>3, <2>4, <2>5
<1>5. QED
  BY <1>1, <1>3, <1>4 DEF DiscoveryInv, directoryVars

\* The directory changes.  By index the objects that are still to come stay
\* ahead when none is removed, for then positions only grow.
LEMMA DirectoryMoves ==
  ASSUME DiscoveryInv, NEW now \in Directory, DirectoryChange(now)
  PROVE  DiscoveryInv'
<1> USE Sizes
<1>1. /\ present' = now /\ steady' \in Directory /\ client' = client
      /\ steady'.users = steady.users \cap now.users
      /\ steady'.groups = steady.groups \cap now.groups
      /\ phase' = phase /\ at' = at /\ page' = page /\ follows' = follows
      /\ atGroup' = atGroup /\ listed' = listed /\ pages' = pages /\ reads' = reads
      /\ groupPages' = groupPages
  BY DEF DirectoryChange, loopVars, DiscoveryInv, DiscoveryTypeOK, Directory
<1>2. /\ directoryChanges' = directoryChanges + 1 /\ directoryChanges < DirectoryChanges
      /\ removed' = (removed \/ ~(present.users \subseteq now.users
                                   /\ present.groups \subseteq now.groups))
  BY DEF DirectoryChange
<1>3. DiscoveryTypeOK'
  <2>1. directoryChanges' \in 0 .. DirectoryChanges
    BY <1>2, DiscoveryConstants DEF DiscoveryInv, DiscoveryTypeOK
  <2>2. removed' \in BOOLEAN
    BY <1>2, Zenon
  <2>3. QED
    BY <1>1, <2>1, <2>2 DEF DiscoveryInv, DiscoveryTypeOK
<1>4. (steady.users \subseteq present.users /\ steady.groups \subseteq present.groups)'
  BY <1>1, Zenon
<1>5. (phase = "members" => client \in Linked /\ page # {})'
  BY <1>1 DEF DiscoveryInv
<1>6. ASSUME ~(client = "SCIM_2_0" /\ removed)' PROVE Progress'
  <2>1. ~(client = "SCIM_2_0" /\ removed) /\ Progress
    BY <1>1, <1>2, <1>6, Zenon DEF DiscoveryInv
  <2>2. client = "SCIM_2_0" => /\ present.users \subseteq now.users
                               /\ present.groups \subseteq now.groups
    BY <1>1, <1>2, <1>6, Zenon
  <2>3. /\ now.users \in SUBSET Nat /\ IsFiniteSet(now.users)
        /\ now.groups \in SUBSET Nat /\ IsFiniteSet(now.groups)
    <3>1. now.users \in SUBSET DirectoryUsers /\ now.groups \in SUBSET DirectoryGroups
      BY DEF Directory
    <3>2. QED
      BY <3>1, DiscoveryConstants, FS_Subset, Zenon
  <2>4. \A x \in present.users : Ahead(present.users, x) => Ahead(present.users, x)'
    <3>1. ASSUME NEW x \in present.users, Ahead(present.users, x)
          PROVE  Ahead(now.users, x)
      <4>1. CASE client = "SCIM_2_0"
        <5>1. x \in Nat /\ x <= x
          OBVIOUS
        <5>2. Rank(present.users, x) <= Rank(now.users, x)
          BY <2>2, <2>3, <4>1, <5>1, RankGrows
        <5>3. Rank(present.users, x) \in Nat /\ Rank(now.users, x) \in Nat
          BY <2>3, RankTyped, SMTT(20)
        <5>4. QED
          BY <3>1, <4>1, <5>2, <5>3 DEF Ahead
      <4>2. CASE client # "SCIM_2_0"
        BY <3>1, <4>2 DEF Ahead
      <4>3. QED
        BY <4>1, <4>2
    <3>2. QED
      BY <1>1, <3>1 DEF Ahead
  <2>5. \A x \in present.groups : Ahead(present.groups, x) => Ahead(present.groups, x)'
    <3>1. ASSUME NEW x \in present.groups, Ahead(present.groups, x)
          PROVE  Ahead(now.groups, x)
      <4>1. CASE client = "SCIM_2_0"
        <5>1. x \in Nat /\ x <= x
          OBVIOUS
        <5>2. Rank(present.groups, x) <= Rank(now.groups, x)
          BY <2>2, <2>3, <4>1, <5>1, RankGrows
        <5>3. Rank(present.groups, x) \in Nat /\ Rank(now.groups, x) \in Nat
          BY <2>3, RankTyped
        <5>4. QED
          BY <3>1, <4>1, <5>2, <5>3 DEF Ahead
      <4>2. CASE client # "SCIM_2_0"
        BY <3>1, <4>2 DEF Ahead
      <4>3. QED
        BY <4>1, <4>2
    <3>2. QED
      BY <1>1, <3>1 DEF Ahead
  <2>6. steady.users \subseteq present.users /\ steady.groups \subseteq present.groups
    BY DEF DiscoveryInv
  <2>7. \A g : Whole(g) => Whole(g)'
    BY <1>1 DEF Whole
  <2>8. UsersOK => UsersOK'
    BY <1>1, <2>4, <2>6, Zenon DEF UsersOK
  <2>9. GroupsOK => GroupsOK'
    BY <1>1, <2>5, <2>6, <2>7 DEF GroupsOK
  <2>10. MembersOK => MembersOK'
    BY <1>1, <2>7 DEF MembersOK
  <2>11. QED
    BY <1>1, <2>1, <2>7, <2>8, <2>9, <2>10 DEF Progress
<1>7. QED
  BY <1>3, <1>4, <1>5, <1>6 DEF DiscoveryInv

\* Initially nothing is read and everything is ahead.
LEMMA DiscoveryInvInit == DiscoveryInit => DiscoveryInv
<1> SUFFICES ASSUME DiscoveryInit PROVE DiscoveryInv
  OBVIOUS
<1>1. DiscoveryTypeOK
  <2>1. listed \in Listing
    BY DEF DiscoveryInit, Listing
  <2>2. 0 \in 0 .. MaxPages /\ 0 \in 0 .. MaxReads - 1 /\ 0 \in 0 .. DirectoryChanges
    BY DiscoveryConstants
  <2>3. QED
    BY <2>1, <2>2, Zenon DEF DiscoveryInit, DiscoveryTypeOK
<1>2. present.users \in SUBSET Nat /\ IsFiniteSet(present.users)
      /\ \A u \in present.users : u # 0
  <2>1. present.users \in SUBSET DirectoryUsers
    BY DEF DiscoveryInit, Directory
  <2>2. QED
    BY <2>1, DiscoveryConstants, FS_Subset, Zenon
<1>3. \A u \in present.users : Rank(present.users, u) > 0 /\ u > 0
  BY <1>2, StartAhead
<1>4. UsersOK
  BY <1>3 DEF UsersOK, Ahead, DiscoveryInit
<1>5. QED
  BY <1>1, <1>4 DEF DiscoveryInv, Progress, DiscoveryInit

\* Every step keeps the invariant.
LEMMA DiscoveryInvStep == DiscoveryInv /\ [DiscoveryNext]_discoveryVars => DiscoveryInv'
<1> SUFFICES ASSUME DiscoveryInv, [DiscoveryNext]_discoveryVars PROVE DiscoveryInv'
  OBVIOUS
<1>1. CASE BeginDiscovery \/ PageLimit \/ ScimRequestFails \/ NativeDoFails \/ LdapSearchFails
  BY <1>1, NothingRead DEF ScimRequestFails, NativeDoFails, LdapSearchFails
<1>2. CASE \/ ScimListUsers \/ EntraListUsers \/ OktaListUsers \/ GoogleListUsers
           \/ GithubListUsers \/ SearchUsers
  <2>1. \E p \in Pages(present.users) : ReadUsers(p)
    BY <1>2 DEF Pages, ScimListUsers, EntraListUsers, OktaListUsers, GoogleListUsers,
                GithubListUsers, SearchUsers
  <2>2. QED
    BY <2>1, UsersRead
<1>3. CASE ScimListGroups \/ SearchGroups
  <2>1. \E p \in Pages(present.groups) : ReadGroups(p)
    BY <1>3 DEF Pages, ScimListGroups, SearchGroups
  <2>2. QED
    BY <2>1, GroupsRead
<1>4. CASE EntraListGroups \/ OktaListGroups \/ GoogleListGroups \/ GithubListGroups
  <2>1. client \in Linked /\ \E p \in LinkedPages(present.groups) : ReadGroupPage(p)
    BY <1>4 DEF Linked, EntraListGroups, OktaListGroups, GoogleListGroups, GithubListGroups
  <2>2. QED
    BY <2>1, GroupPageRead
<1>5. CASE EntraMembers \/ OktaGroupMembers \/ GoogleMembers \/ GithubMembers
  <2>1. client \in Linked /\ ReadMembers
    BY <1>5 DEF Linked, EntraMembers, OktaGroupMembers, GoogleMembers, GithubMembers
  <2>2. QED
    BY <2>1, MembersRead
<1>6. CASE InsertObject \/ RemoveObject
  <2>1. \E now \in Directory : DirectoryChange(now)
    <3>1. present \in Directory
      BY DEF DiscoveryInv, DiscoveryTypeOK
    <3>2. /\ \A u \in DirectoryUsers : [present EXCEPT !.users = @ \cup {u}] \in Directory
          /\ \A g \in DirectoryGroups : [present EXCEPT !.groups = @ \cup {g}] \in Directory
          /\ \A u : [present EXCEPT !.users = @ \ {u}] \in Directory
          /\ \A g : [present EXCEPT !.groups = @ \ {g}] \in Directory
      BY <3>1 DEF Directory
    <3>3. QED
      BY <1>6, <3>2, Zenon DEF InsertObject, RemoveObject
  <2>2. QED
    BY <2>1, DirectoryMoves
<1>7. CASE UNCHANGED discoveryVars
  <2>1. DiscoveryTypeOK' = DiscoveryTypeOK
    BY <1>7, Zenon DEF DiscoveryTypeOK, discoveryVars, directoryVars, loopVars
  <2>2. Progress' = Progress
    BY <1>7, Zenon DEF Progress, UsersOK, GroupsOK, MembersOK, Whole, Ahead,
                       discoveryVars, directoryVars, loopVars
  <2>3. QED
    BY <1>7, <2>1, <2>2, Zenon DEF DiscoveryInv, discoveryVars, directoryVars, loopVars
<1>8. QED
  BY <1>1, <1>2, <1>3, <1>4, <1>5, <1>6, <1>7, Zenon DEF DiscoveryNext, ReadStep

\* The inductive invariant of a listing holds.
LEMMA DiscoveryInvHolds == DiscoverySpec => []DiscoveryInv
BY DiscoveryInvInit, DiscoveryInvStep, PTL DEF DiscoverySpec

\* The state of a listing, and of the loops of client.go, stays well formed.
THEOREM DiscoveryTypeCorrect == DiscoverySpec => []DiscoveryTypeOK
<1>1. DiscoveryInv => DiscoveryTypeOK
  BY DEF DiscoveryInv
<1>2. QED
  BY <1>1, DiscoveryInvHolds, PTL

\* A listing that ends without an error holds every user, group and membership
\* that was there all the time, for any directory and any size of pages.
THEOREM ListingsAreComplete == DiscoverySpec => []ListingIsComplete
<1>1. DiscoveryInv => ListingIsComplete
  BY DEF DiscoveryInv, Progress, Whole, ListingIsComplete
<1>2. QED
  BY <1>1, DiscoveryInvHolds, PTL

-----------------------------------------------------------------------------
(* Disabling an account. *)

\* What is known of call h, when it is at row r and has sent n writes: before
\* its write it has sent nothing, in it one request at most per attempt, and a
\* native client one altogether.  The flags it would write are those of the
\* administrator unless it knows them to be old.
CallAt(r, n) ==
    /\ r.pc \in {"none", "read"} => n = 0
    /\ r.pc = "write" => n <= r.tries
    /\ writer \in Native => n <= IF r.pc = "write" THEN 0 ELSE 1
    /\ r.tries < MaxTries
    /\ writer = "ACTIVE_DIRECTORY_UAC" /\ r.pc = "write" /\ ~r.stale =>
         r.flag = flagSet \/ flagRaced

\* The inductive invariant of the calls.
RemoteInv ==
    /\ RemoteTypeOK
    /\ \A h \in RemoteCalls : CallAt(remoteCall[h], writesSent[h])
    /\ OtherFlagsSurvive

\* A step of call h on its own variables keeps the invariant when it does for h.
LEMMA RemoteCallStep ==
  ASSUME RemoteInv, NEW h \in RemoteCalls, NEW r \in RemoteCall, NEW n \in 0 .. MaxTries,
         remoteCall' = [remoteCall EXCEPT ![h] = r],
         writesSent' = [writesSent EXCEPT ![h] = n],
         UNCHANGED <<writer, accountChanges, flagSet>>,
         flagRaced' \in BOOLEAN, flagRaced => flagRaced',
         account' \in [status : StatusesOf(writer), flag : BOOLEAN],
         CallAt(r, n)', OtherFlagsSurvive'
  PROVE  RemoteInv'
<1>1. RemoteTypeOK'
  BY DEF RemoteInv, RemoteTypeOK
<1>2. ASSUME NEW i \in RemoteCalls PROVE CallAt(remoteCall[i], writesSent[i])'
  <2>1. CASE i = h
    BY <2>1 DEF RemoteInv, RemoteTypeOK
  <2>2. CASE i # h
    <3>1. remoteCall'[i] = remoteCall[i] /\ writesSent'[i] = writesSent[i]
      BY <2>2 DEF RemoteInv, RemoteTypeOK
    <3>2. CallAt(remoteCall[i], writesSent[i])
      BY DEF RemoteInv
    <3>3. QED
      BY <3>1, <3>2 DEF CallAt
  <2>3. QED
    BY <2>1, <2>2
<1>3. QED
  BY <1>1, <1>2, Zenon DEF RemoteInv

\* The calls a step can start from.
LEMMA CallTyped ==
  ASSUME RemoteInv, NEW h \in RemoteCalls
  PROVE  /\ remoteCall[h] \in RemoteCall /\ writesSent[h] \in 0 .. MaxTries
         /\ remoteCall[h].tries \in Nat /\ MaxTries \in Nat \ {0}
         /\ CallAt(remoteCall[h], writesSent[h])
         /\ writesSent = [writesSent EXCEPT ![h] = writesSent[h]]
         /\ account \in [status : StatusesOf(writer), flag : BOOLEAN]
         /\ writer \in Writers /\ flagRaced \in BOOLEAN /\ flagSet \in BOOLEAN
BY RemoteConstants DEF RemoteInv, RemoteTypeOK, RemoteCall

\* GoOn moves a call to a place of its own with no attempts made.
LEMMA GoneOn ==
  ASSUME RemoteInv, NEW h \in RemoteCalls,
         NEW pc \in {"none", "read", "write", "reread"} \cup Over, GoOn(h, pc)
  PROVE  \E r \in RemoteCall : /\ remoteCall' = [remoteCall EXCEPT ![h] = r]
                               /\ r.pc = pc /\ r.tries = 0
                               /\ r.flag = remoteCall[h].flag
                               /\ r.stale = remoteCall[h].stale
<1>1. PICK r : r = [remoteCall[h] EXCEPT !.pc = pc, !.tries = 0]
  BY Zenon
<1>2. remoteCall[h] \in RemoteCall
  BY CallTyped
<1>3. 0 \in Nat
  OBVIOUS
<1>4. /\ r \in RemoteCall /\ r.pc = pc /\ r.tries = 0 /\ r.flag = remoteCall[h].flag
      /\ r.stale = remoteCall[h].stale
  BY <1>1, <1>2, <1>3, Zenon DEF RemoteCall
<1>5. remoteCall' = [remoteCall EXCEPT ![h] = r]
  BY <1>1, Zenon DEF GoOn
<1>6. QED
  BY <1>4, <1>5, Zenon

\* A request that failed is sent again or ends the call with an error.
LEMMA TriedAgain ==
  ASSUME RemoteInv, NEW h \in RemoteCalls, NEW limit \in 1 .. MaxTries, TryAgain(h, limit)
  PROVE  \E r \in RemoteCall :
           /\ remoteCall' = [remoteCall EXCEPT ![h] = r]
           /\ \/ r.pc = "error" /\ r.tries = 0
              \/ /\ r.pc = remoteCall[h].pc /\ r.flag = remoteCall[h].flag
                 /\ r.stale = remoteCall[h].stale
                 /\ r.tries = remoteCall[h].tries + 1 /\ r.tries < limit
<1>1. CASE GoOn(h, "error")
  <2>1. "error" \in {"none", "read", "write", "reread"} \cup Over
    BY DEF Over
  <2>2. QED
    BY <1>1, <2>1, GoneOn
<1>2. CASE /\ remoteCall[h].tries + 1 < limit
           /\ remoteCall' = [remoteCall EXCEPT ![h].tries = @ + 1]
  <2>1. remoteCall[h] \in RemoteCall /\ remoteCall[h].tries + 1 \in Nat
    BY CallTyped
  <2>2. PICK r : r = [remoteCall[h] EXCEPT !.tries = remoteCall[h].tries + 1]
    BY Zenon
  <2>3. /\ r \in RemoteCall /\ r.pc = remoteCall[h].pc /\ r.flag = remoteCall[h].flag
        /\ r.stale = remoteCall[h].stale /\ r.tries = remoteCall[h].tries + 1
    BY <2>1, <2>2, Zenon DEF RemoteCall
  <2>4. remoteCall' = [remoteCall EXCEPT ![h] = r]
    BY <1>2, <2>2, Zenon
  <2>5. QED
    BY <1>2, <2>3, <2>4, Zenon
<1>3. QED
  BY <1>1, <1>2 DEF TryAgain

\* The attempts of a request, by client.
LEMMA TriesBounded ==
  ASSUME RemoteInv
  PROVE  /\ ReadTries \in 1 .. MaxTries /\ WriteTries \in 1 .. MaxTries
         /\ writer \in Native => WriteTries = 1
BY RemoteConstants DEF RemoteInv, RemoteTypeOK, ReadTries, WriteTries, NativeWriteTries,
   Native, Writers

\* A step that reads changes the call and nothing else.
LEMMA ReadsKeep ==
  ASSUME RemoteInv, NEW h \in RemoteCalls,
         BeginRemote(h) \/ ReadBefore(h) \/ ReadAgain(h) \/ RemoteReadFails(h)
  PROVE  RemoteInv'
<1>1. /\ UNCHANGED <<writer, accountChanges, flagSet, flagRaced, account, writesSent>>
      /\ OtherFlagsSurvive'
  BY Zenon DEF BeginRemote, ReadBefore, ReadAgain, RemoteReadFails, RemoteInv, OtherFlagsSurvive
<1>2. PICK r \in RemoteCall : /\ remoteCall' = [remoteCall EXCEPT ![h] = r]
                              /\ CallAt(r, writesSent[h])
  <2>1. CASE BeginRemote(h)
    <3>1. remoteCall[h].pc = "none" /\ writesSent[h] = 0
      BY <2>1, CallTyped DEF BeginRemote, CallAt
    <3>2. CASE writer \in {"SCIM_2_0", "PPOLICY_LOCK"}
      <4>1. GoOn(h, "write")
        BY <2>1, <3>2 DEF BeginRemote
      <4>2. QED
        BY <3>1, <3>2, <4>1, GoneOn, CallTyped DEF CallAt, Native
    <3>3. CASE writer \notin {"SCIM_2_0", "PPOLICY_LOCK"}
      <4>1. GoOn(h, "read")
        BY <2>1, <3>3, Zenon DEF BeginRemote
      <4>2. QED
        BY <3>1, <3>3, <4>1, GoneOn, CallTyped DEF CallAt, Native
    <3>4. QED
      BY <3>2, <3>3
  <2>2. CASE ReadBefore(h)
    <3>1. writesSent[h] = 0 /\ account.flag \in BOOLEAN
          /\ (account.flag # flagSet => flagRaced)
      BY <2>2, CallTyped DEF ReadBefore, CallAt, RemoteInv, OtherFlagsSurvive
    <3>2. PICK r : r = [pc |-> IF writer \in Native /\ ~SeenActive THEN "reread"
                                                                  ELSE "write",
                        tries |-> 0, flag |-> account.flag, stale |-> FALSE]
      BY Zenon
    <3>3. 0 \in Nat
      OBVIOUS
    <3>4. /\ r \in RemoteCall /\ r.pc \in {"reread", "write"} /\ r.tries = 0
          /\ r.flag = account.flag
      BY <3>1, <3>2, <3>3, Zenon DEF RemoteCall
    <3>5. remoteCall' = [remoteCall EXCEPT ![h] = r]
      BY <2>2, <3>2, Zenon DEF ReadBefore
    <3>6. CallAt(r, writesSent[h])
      BY <3>1, <3>4, CallTyped DEF CallAt
    <3>7. QED
      BY <3>4, <3>5, <3>6, Zenon
  <2>3. CASE ReadAgain(h)
    <3>1. PICK pc \in Over : GoOn(h, pc)
      BY <2>3, Zenon DEF ReadAgain, Over
    <3>2. PICK r \in RemoteCall : /\ remoteCall' = [remoteCall EXCEPT ![h] = r]
                                  /\ r.pc = pc /\ r.tries = 0
      BY <3>1, GoneOn DEF Over
    <3>3. CallAt(r, writesSent[h])
      BY <2>3, <3>2, CallTyped DEF CallAt, Over, ReadAgain
    <3>4. QED
      BY <3>2, <3>3, Zenon
  <2>4. CASE RemoteReadFails(h)
    <3>1. PICK r \in RemoteCall :
             /\ remoteCall' = [remoteCall EXCEPT ![h] = r]
             /\ \/ r.pc = "error" /\ r.tries = 0
                \/ r.pc = remoteCall[h].pc /\ r.tries < ReadTries
      BY <2>4, TriedAgain, TriesBounded, Zenon DEF RemoteReadFails
    <3>2. r.tries \in Nat
      BY DEF RemoteCall
    <3>3. CallAt(r, writesSent[h])
      BY <2>4, <3>1, <3>2, CallTyped, TriesBounded DEF CallAt, RemoteReadFails
    <3>4. QED
      BY <3>1, <3>3, Zenon
  <2>5. QED
    BY <2>1, <2>2, <2>3, <2>4
<1>3. CallAt(r, writesSent[h])'
  BY <1>1, <1>2 DEF CallAt
<1>4. QED
  BY <1>1, <1>2, <1>3, CallTyped, RemoteCallStep, Zenon

\* A write leaves an account of the same provider; all clients but the LDAP
\* client for Active Directory leave its other flags to the provider.
LEMMA WrittenTyped ==
  ASSUME RemoteInv, NEW h \in RemoteCalls
  PROVE  /\ Written(h) \in [status : StatusesOf(writer), flag : BOOLEAN]
         /\ Written(h).flag = IF writer = "ACTIVE_DIRECTORY_UAC" THEN remoteCall[h].flag
                                                               ELSE account.flag
<1>1. /\ account \in [status : StatusesOf(writer), flag : BOOLEAN]
      /\ remoteCall[h].flag \in BOOLEAN /\ writer \in Writers
  BY CallTyped DEF RemoteCall
<1>2. CASE writer \in {"SCIM_2_0", "ENTRA_ID", "GOOGLE_WORKSPACE", "PPOLICY_LOCK"}
  <2>1. Written(h) = [account EXCEPT !.status = "disabled"]
    BY <1>2 DEF Written, ScimDisable, EntraDisable, GoogleSuspend, PpolicyLock
  <2>2. "disabled" \in StatusesOf(writer)
    BY <1>2 DEF StatusesOf
  <2>3. writer # "ACTIVE_DIRECTORY_UAC"
    BY <1>2
  <2>4. QED
    BY <1>1, <2>1, <2>2, <2>3, Zenon
<1>3. CASE writer = "OKTA"
  <2>1. PICK s \in StatusesOf(writer) : Written(h) = [account EXCEPT !.status = s]
    <3>1. Written(h) = [account EXCEPT !.status = IF account.status = "ACTIVE" THEN "SUSPENDED"
                                                  ELSE account.status]
      BY <1>3 DEF Written, OktaSuspend
    <3>2. "SUSPENDED" \in StatusesOf(writer)
      BY <1>3 DEF StatusesOf
    <3>3. CASE account.status = "ACTIVE"
      BY <3>1, <3>2, <3>3
    <3>4. CASE account.status # "ACTIVE"
      BY <1>1, <3>1, <3>4
    <3>5. QED
      BY <3>3, <3>4
  <2>2. writer # "ACTIVE_DIRECTORY_UAC"
    BY <1>3
  <2>3. QED
    BY <1>1, <2>1, <2>2, Zenon
<1>4. CASE writer = "GITHUB"
  <2>1. Written(h) = [account EXCEPT !.status = "absent"]
    BY <1>4 DEF Written, GithubRemove
  <2>2. "absent" \in StatusesOf(writer) /\ writer # "ACTIVE_DIRECTORY_UAC"
    BY <1>4 DEF StatusesOf
  <2>3. QED
    BY <1>1, <2>1, <2>2, Zenon
<1>5. CASE writer = "ACTIVE_DIRECTORY_UAC"
  <2>1. Written(h) = [status |-> "disabled", flag |-> remoteCall[h].flag]
    BY <1>5 DEF Written, UacReplace
  <2>2. "disabled" \in StatusesOf(writer)
    BY <1>5 DEF StatusesOf
  <2>3. /\ Written(h) \in [status : StatusesOf(writer), flag : BOOLEAN]
        /\ Written(h).flag = remoteCall[h].flag
    BY <1>1, <2>1, <2>2
  <2>4. QED
    BY <1>5, <2>3
<1>6. QED
  BY <1>1, <1>2, <1>3, <1>4, <1>5 DEF Writers, Native

\* The row a writing call goes on with, whatever becomes of its request.
LEMMA AfterWrite ==
  ASSUME RemoteInv, NEW h \in RemoteCalls, remoteCall[h].pc = "write",
         GoOn(h, "reread") \/ TryAgain(h, WriteTries)
  PROVE  /\ writesSent[h] + 1 \in 0 .. MaxTries
         /\ \E r \in RemoteCall :
              /\ remoteCall' = [remoteCall EXCEPT ![h] = r]
              /\ \/ r.pc \in {"reread", "error"} /\ r.tries = 0
                 \/ /\ r.pc = "write" /\ r.flag = remoteCall[h].flag
                    /\ r.stale = remoteCall[h].stale
                    /\ r.tries = remoteCall[h].tries + 1 /\ r.tries < WriteTries
<1>1. writesSent[h] + 1 \in 0 .. MaxTries
  BY CallTyped DEF CallAt
<1>2. CASE GoOn(h, "reread")
  BY <1>1, <1>2, GoneOn
<1>3. CASE TryAgain(h, WriteTries)
  BY <1>1, <1>3, TriedAgain, TriesBounded
<1>4. QED
  BY <1>2, <1>3

\* A writing request keeps the invariant, answered or not.
LEMMA WritesKeep ==
  ASSUME RemoteInv, NEW h \in RemoteCalls,
         WriteAnswered(h) \/ WriteUnanswered(h) \/ WriteFails(h)
  PROVE  RemoteInv'
<1>1. /\ remoteCall[h].pc = "write" /\ (GoOn(h, "reread") \/ TryAgain(h, WriteTries))
      /\ writesSent' = [writesSent EXCEPT ![h] = writesSent[h] + 1]
      /\ UNCHANGED <<writer, accountChanges, flagSet>>
  BY Zenon DEF WriteAnswered, WriteUnanswered, WriteFails, Write
<1>2. PICK r \in RemoteCall :
        /\ remoteCall' = [remoteCall EXCEPT ![h] = r]
        /\ \/ r.pc \in {"reread", "error"} /\ r.tries = 0
           \/ /\ r.pc = "write" /\ r.flag = remoteCall[h].flag
              /\ r.stale = remoteCall[h].stale
              /\ r.tries = remoteCall[h].tries + 1 /\ r.tries < WriteTries
  BY <1>1, AfterWrite
<1>3. /\ flagRaced' \in BOOLEAN /\ (flagRaced => flagRaced') /\ OtherFlagsSurvive'
      /\ account' \in [status : StatusesOf(writer), flag : BOOLEAN]
  <2>1. CASE WriteFails(h)
    BY <1>1, <2>1, CallTyped, Zenon DEF WriteFails, RemoteInv, OtherFlagsSurvive
  <2>2. CASE Write(h)
    <3>1. flagRaced' = (flagRaced \/ (writer = "ACTIVE_DIRECTORY_UAC" /\ remoteCall[h].stale))
      BY <2>2, Zenon DEF Write
    <3>2. flagRaced' \in BOOLEAN /\ (flagRaced => flagRaced')
      BY <3>1, CallTyped, Zenon
    <3>3. account' = Written(h) /\ CallAt(remoteCall[h], writesSent[h])
      BY <2>2, CallTyped DEF Write
    <3>4. CASE writer = "ACTIVE_DIRECTORY_UAC"
      <4>1. remoteCall[h].stale \/ remoteCall[h].flag = flagSet \/ flagRaced
        BY <1>1, <3>3, <3>4, Zenon DEF CallAt
      <4>2. account'.flag = remoteCall[h].flag
        BY <3>3, <3>4, WrittenTyped
      <4>3. OtherFlagsSurvive'
        BY <1>1, <3>1, <3>4, <4>1, <4>2, Zenon DEF OtherFlagsSurvive
      <4>4. QED
        BY <3>2, <3>3, <4>3, WrittenTyped, Zenon
    <3>5. CASE writer # "ACTIVE_DIRECTORY_UAC"
      <4>1. account'.flag = account.flag
        BY <3>3, <3>5, WrittenTyped
      <4>2. OtherFlagsSurvive'
        BY <1>1, <3>2, <4>1, Zenon DEF OtherFlagsSurvive, RemoteInv
      <4>3. QED
        BY <3>2, <3>3, <4>2, WrittenTyped, Zenon
    <3>6. QED
      BY <3>4, <3>5
  <2>3. QED
    BY <2>1, <2>2 DEF WriteAnswered, WriteUnanswered
<1>4. PICK n \in 0 .. MaxTries : n = writesSent[h] + 1
  BY <1>1, AfterWrite
<1>5. CallAt(r, n)'
  <2>1. /\ CallAt(remoteCall[h], writesSent[h]) /\ writesSent[h] \in 0 .. MaxTries
        /\ MaxTries \in Nat \ {0} /\ remoteCall[h].tries \in Nat
        /\ WriteTries \in 1 .. MaxTries /\ (writer \in Native => WriteTries = 1)
    BY CallTyped, TriesBounded
  <2>2. /\ r.pc \notin {"none", "read"}
        /\ r.pc = "write" => n <= r.tries
        /\ writer \in Native => n <= IF r.pc = "write" THEN 0 ELSE 1
        /\ r.tries < MaxTries
    BY <1>1, <1>2, <1>4, <2>1 DEF CallAt
  <2>3. writer = "ACTIVE_DIRECTORY_UAC" /\ r.pc = "write" /\ ~r.stale =>
          r.flag = flagSet \/ flagRaced
    <3>1. r.pc = "write" => r.flag = remoteCall[h].flag /\ r.stale = remoteCall[h].stale
      BY <1>2
    <3>2. QED
      BY <1>1, <2>1, <3>1, Zenon DEF CallAt
  <2>4. QED
    BY <1>1, <1>3, <2>2, <2>3 DEF CallAt
<1>6. QED
  BY <1>1, <1>2, <1>3, <1>4, <1>5, RemoteCallStep, Zenon

\* The administrator's changes: a flag that changes makes every copy of it old.
LEMMA ChangesKeep ==
  ASSUME RemoteInv, ChangeStatus \/ ChangeFlag
  PROVE  RemoteInv'
<1>1. /\ account \in [status : StatusesOf(writer), flag : BOOLEAN]
      /\ accountChanges' \in 0 .. AccountChanges
  BY RemoteConstants DEF RemoteInv, RemoteTypeOK, ChangeStatus, ChangeFlag
<1>2. CASE ChangeStatus
  <2>1. UNCHANGED <<writer, remoteCall, writesSent, flagSet, flagRaced>>
    BY <1>2 DEF ChangeStatus
  <2>2. PICK s \in StatusesOf(writer) : account' = [account EXCEPT !.status = s]
    BY <1>2, Zenon DEF ChangeStatus
  <2>3. /\ account' \in [status : StatusesOf(writer), flag : BOOLEAN]
        /\ account'.flag = account.flag
    BY <1>1, <2>2, Zenon
  <2>4. RemoteTypeOK'
    BY <1>1, <2>1, <2>3 DEF RemoteInv, RemoteTypeOK
  <2>5. OtherFlagsSurvive' /\ \A h \in RemoteCalls : CallAt(remoteCall[h], writesSent[h])'
    BY <2>1, <2>3, Zenon DEF RemoteInv, OtherFlagsSurvive, CallAt
  <2>6. QED
    BY <2>4, <2>5, Zenon DEF RemoteInv
<1>3. CASE ChangeFlag
  <2>1. /\ UNCHANGED <<writer, writesSent, flagRaced>> /\ flagSet' = account'.flag
        /\ account' = [account EXCEPT !.flag = ~account.flag]
        /\ remoteCall' = [h \in RemoteCalls |-> [remoteCall[h] EXCEPT !.stale = TRUE]]
    BY <1>3 DEF ChangeFlag
  <2>2. /\ account' \in [status : StatusesOf(writer), flag : BOOLEAN]
        /\ flagSet' \in BOOLEAN
    BY <1>1, <2>1, Zenon
  <2>3. ASSUME NEW h \in RemoteCalls
        PROVE  /\ remoteCall'[h] \in RemoteCall /\ remoteCall'[h].stale
               /\ remoteCall'[h].pc = remoteCall[h].pc
               /\ remoteCall'[h].tries = remoteCall[h].tries
    <3>1. remoteCall'[h] = [remoteCall[h] EXCEPT !.stale = TRUE]
      BY <2>1
    <3>2. remoteCall[h] \in RemoteCall
      BY CallTyped
    <3>3. QED
      BY <3>1, <3>2, Zenon DEF RemoteCall
  <2>4. remoteCall' \in [RemoteCalls -> RemoteCall]
    BY <2>1, <2>3
  <2>5. RemoteTypeOK'
    BY <1>1, <2>1, <2>2, <2>4 DEF RemoteInv, RemoteTypeOK
  <2>6. ASSUME NEW h \in RemoteCalls PROVE CallAt(remoteCall[h], writesSent[h])'
    <3>1. CallAt(remoteCall[h], writesSent[h])
      BY CallTyped
    <3>2. QED
      BY <2>1, <2>3, <3>1, Zenon DEF CallAt
  <2>7. OtherFlagsSurvive'
    BY <2>1, Zenon DEF OtherFlagsSurvive
  <2>8. QED
    BY <2>5, <2>6, <2>7, Zenon DEF RemoteInv
<1>4. QED
  BY <1>2, <1>3

\* Every reachable state satisfies the invariant.
LEMMA RemoteInvHolds == RemoteSpec => []RemoteInv
<1>1. RemoteInit => RemoteInv
  <2>1. SUFFICES ASSUME RemoteInit PROVE RemoteInv
    OBVIOUS
  <2>2. PICK s \in StatusesOf(writer) : account = [status |-> s, flag |-> TRUE]
    BY <2>1, Zenon DEF RemoteInit
  <2>3. account \in [status : StatusesOf(writer), flag : BOOLEAN] /\ account.flag = TRUE
    BY <2>2, Zenon
  <2>4. PICK r : r = [pc |-> "none", tries |-> 0, flag |-> FALSE, stale |-> FALSE]
    BY Zenon
  <2>5. r \in RemoteCall /\ r.pc = "none" /\ r.tries = 0
    BY <2>4 DEF RemoteCall
  <2>6. /\ remoteCall = [h \in RemoteCalls |-> r] /\ writer \in Writers
        /\ writesSent = [h \in RemoteCalls |-> 0] /\ accountChanges = 0
        /\ flagSet = TRUE /\ flagRaced = FALSE
    BY <2>1, <2>4, Zenon DEF RemoteInit
  <2>7. RemoteTypeOK
    <3>1. 0 \in 0 .. MaxTries /\ accountChanges \in 0 .. AccountChanges
      BY <2>6, RemoteConstants
    <3>2. QED
      BY <2>3, <2>5, <2>6, <3>1, Zenon DEF RemoteTypeOK
  <2>8. \A h \in RemoteCalls : CallAt(remoteCall[h], writesSent[h])
    <3>1. CallAt(r, 0)
      BY <2>5, RemoteConstants DEF CallAt
    <3>2. QED
      BY <2>6, <3>1, Zenon
  <2>9. OtherFlagsSurvive
    BY <2>3, <2>6, Zenon DEF OtherFlagsSurvive
  <2>10. QED
    BY <2>7, <2>8, <2>9, Zenon DEF RemoteInv
<1>2. RemoteInv /\ [RemoteNext]_remoteVars => RemoteInv'
  <2>1. ASSUME RemoteInv, UNCHANGED remoteVars PROVE RemoteInv'
    BY <2>1 DEF RemoteInv, RemoteTypeOK, CallAt, OtherFlagsSurvive, remoteVars
  <2>2. QED
    BY <2>1, ReadsKeep, WritesKeep, ChangesKeep, Zenon DEF RemoteNext
<1>3. QED
  BY <1>1, <1>2, PTL DEF RemoteSpec

\* The values of the account and of the calls, for any number of calls and any
\* limit of attempts.
THEOREM RemoteTypeCorrect == RemoteSpec => []RemoteTypeOK
<1>1. RemoteInv => RemoteTypeOK
  BY DEF RemoteInv
<1>2. QED
  BY <1>1, RemoteInvHolds, PTL

\* A native client writes once: a write whose answer is lost is not repeated
\* (nativeconnectors.Client.Do).
THEOREM NativeWritesAreSingle == RemoteSpec => []AmbiguousWriteIsFinal
<1>1. RemoteInv => AmbiguousWriteIsFinal
  BY DEF RemoteInv, CallAt, AmbiguousWriteIsFinal
<1>2. QED
  BY <1>1, RemoteInvHolds, PTL

\* The flags of an Active Directory account survive its disabling, unless they
\* changed between the read and the write of some call (ldapdirectory
\* DisableUser).
THEOREM FlagsSurvive == RemoteSpec => []OtherFlagsSurvive
<1>1. RemoteInv => OtherFlagsSurvive
  BY DEF RemoteInv
<1>2. QED
  BY <1>1, RemoteInvHolds, PTL
=============================================================================
