------------------------------ MODULE Discovery ------------------------------
(***************************************************************************)
(* What a synchronization run reads from its provider before it stores     *)
(* anything: all users, then all groups with their members, page by page,  *)
(* while the provider's directory changes.  SCIM pages are asked for by    *)
(* index; the native clients follow the link or token of the page before;  *)
(* an LDAP search is paged by its library.  SCIM and LDAP groups carry     *)
(* their members, the native clients list the members of each group.       *)
(*                                                                         *)
(* A link or a token stands for the objects after the last one it was      *)
(* given with.                                                             *)
(***************************************************************************)
EXTENDS Naturals, FiniteSets
LOCAL INSTANCE FiniteSetsExt

CONSTANTS
    DirectoryUsers,    \* ids of users, numbers in the order of the listing
    DirectoryGroups,   \* ids of groups, likewise
    MembersOf,         \* the members of each group, while both are present
    PageSize,          \* objects per page at most
    MaxPages,          \* pages before a listing is given up, 100 in the code
    MaxReads,          \* MaxRetries, 3 in the code
    DirectoryChanges   \* bound on changes of the directory

ASSUME DiscoveryConstants ==
    /\ DirectoryUsers \subseteq Nat \ {0} /\ IsFiniteSet(DirectoryUsers)
    /\ DirectoryGroups \subseteq Nat \ {0} /\ IsFiniteSet(DirectoryGroups)
    /\ MembersOf \in [DirectoryGroups -> SUBSET DirectoryUsers]
    /\ {PageSize, MaxPages, MaxReads} \subseteq Nat \ {0} /\ DirectoryChanges \in Nat

VARIABLES
    client,          \* the connector's client
    present,         \* the users and the groups the provider has
    steady,          \* those it has had ever since the listing began
    directoryChanges,  \* how often it changed
    removed,         \* something was removed since
    phase,           \* which loop the run is in
    pages, at,       \* its page counter, and the index or last object of it
    reads,           \* failed attempts of the current request
    page,            \* groups of the current page whose members are not read
    follows,         \* the page of groups had a link to another one
    atGroup,         \* where the loop over pages of groups goes on
    groupPages,      \* and its page counter
    listed           \* users, groups and memberships read so far

directoryVars == <<client, present, steady, directoryChanges, removed>>
loopVars == <<phase, pages, at, reads, page, follows, atGroup, groupPages, listed>>
discoveryVars == <<directoryVars, loopVars>>

Linked == {"ENTRA_ID", "OKTA", "GOOGLE_WORKSPACE", "GITHUB"}
Clients == Linked \cup {"SCIM_2_0", "LDAP_DIRECTORY"}

Directory == [users : SUBSET DirectoryUsers, groups : SUBSET DirectoryGroups]
Listing == [users : SUBSET DirectoryUsers, groups : SUBSET DirectoryGroups,
            members : SUBSET (DirectoryGroups \X DirectoryUsers)]

MembersNow(g) == MembersOf[g] \cap present.users
Memberships(gs) == {m \in gs \X present.users : m[2] \in MembersOf[m[1]]}

-----------------------------------------------------------------------------
(* One request for a page. *)

\* The n objects of S from the index on, by position.
PageFrom(S, start, n) ==
    {x \in S : Cardinality({y \in S : y <= x}) \in start .. start + n - 1}

\* The n objects of S that follow one, whether or not that one is still there.
PageAfter(S, last, n) == PageFrom({x \in S : x > last}, 1, n)

\* Mutant: the limit is not looked at.
UnderLimitAlways == TRUE

UnderLimit == pages < MaxPages

\* The counter, at its limit, tells no more.
NextPage == Min({pages + 1, MaxPages})

\* Pages of a listing of S by link: what they hold, and whether another one
\* follows.  A provider may send short or empty pages with a link.
LinkedPages(S) ==
    {p \in {[got |-> PageAfter(S, at, n), more |-> m] : n \in 0 .. PageSize, m \in BOOLEAN} :
      p.more \/ p.got = {x \in S : x > at}}

\* Pages by index, with totalResults.  The provider sends no empty page while
\* there is something at the index.
ScimPages(S) ==
    {LET got == PageFrom(S, at + 1, n)
     IN  [got |-> got, more |-> got # {} /\ at + Cardinality(got) < Cardinality(S)] :
       n \in 1 .. PageSize}

\* Pages of an LDAP search, by cookie.
LdapPages(S) ==
    {LET got == PageAfter(S, at, n)
     IN  [got |-> got, more |-> {x \in S : x > at} # got] : n \in 1 .. PageSize}

\* Where the next request goes on: startIndex - 1, or the last object.
NextAt(p) == IF client = "SCIM_2_0" THEN at + Cardinality(p.got) ELSE Max({at} \cup p.got)

\* The head of a loop lets a request be sent.
Requesting == client = "LDAP_DIRECTORY" \/ UnderLimit

-----------------------------------------------------------------------------
(* The loops. *)

\* The client is made, and users are listed before groups.
BeginDiscovery ==
    /\ phase = "none"
    /\ phase' = "users"
    /\ UNCHANGED <<directoryVars, pages, at, reads, page, follows, atGroup, groupPages,
                   listed>>

\* A page of users; after the last one the groups are listed.
ReadUsers(p) ==
    /\ phase = "users" /\ Requesting
    /\ listed' = [listed EXCEPT !.users = @ \cup p.got]
    /\ IF p.more THEN /\ at' = NextAt(p) /\ pages' = NextPage
                     /\ UNCHANGED phase
                ELSE /\ at' = 0 /\ pages' = 0
                     /\ phase' = "groups"
    /\ reads' = 0
    /\ UNCHANGED <<directoryVars, page, follows, atGroup, groupPages>>

ScimListUsers == client = "SCIM_2_0" /\ \E p \in ScimPages(present.users) : ReadUsers(p)
EntraListUsers == client = "ENTRA_ID" /\ \E p \in LinkedPages(present.users) : ReadUsers(p)
OktaListUsers == client = "OKTA" /\ \E p \in LinkedPages(present.users) : ReadUsers(p)
GoogleListUsers ==
    client = "GOOGLE_WORKSPACE" /\ \E p \in LinkedPages(present.users) : ReadUsers(p)
GithubListUsers == client = "GITHUB" /\ \E p \in LinkedPages(present.users) : ReadUsers(p)
SearchUsers == client = "LDAP_DIRECTORY" /\ \E p \in LdapPages(present.users) : ReadUsers(p)

\* A page of groups that carry their members.
ReadGroups(p) ==
    /\ phase = "groups" /\ Requesting
    /\ listed' = [listed EXCEPT !.groups = @ \cup p.got, !.members = @ \cup Memberships(p.got)]
    /\ IF p.more THEN /\ at' = NextAt(p) /\ pages' = NextPage
                     /\ UNCHANGED phase
                ELSE /\ at' = 0 /\ pages' = 0
                     /\ phase' = "done"
    /\ reads' = 0
    /\ UNCHANGED <<directoryVars, page, follows, atGroup, groupPages>>

ScimListGroups == client = "SCIM_2_0" /\ \E p \in ScimPages(present.groups) : ReadGroups(p)
SearchGroups ==
    client = "LDAP_DIRECTORY" /\ \E p \in LdapPages(present.groups) : ReadGroups(p)

\* After a page of groups and their members: the next page, or the end.
NextGroups(more, last, count) ==
    IF more THEN phase' = "groups" /\ at' = last /\ pages' = count
            ELSE phase' = "done" /\ at' = 0 /\ pages' = 0

\* A page of groups whose members are then listed, group by group.
ReadGroupPage(p) ==
    /\ phase = "groups" /\ UnderLimit
    /\ page' = p.got
    /\ IF p.got = {}
       THEN /\ NextGroups(p.more, at, NextPage)
            /\ UNCHANGED <<follows, atGroup, groupPages>>
       ELSE /\ phase' = "members" /\ at' = 0 /\ pages' = 0
            /\ follows' = p.more /\ atGroup' = Max(p.got) /\ groupPages' = NextPage
    /\ reads' = 0
    /\ UNCHANGED <<directoryVars, listed>>

EntraListGroups ==
    client = "ENTRA_ID" /\ \E p \in LinkedPages(present.groups) : ReadGroupPage(p)
OktaListGroups == client = "OKTA" /\ \E p \in LinkedPages(present.groups) : ReadGroupPage(p)
GoogleListGroups ==
    client = "GOOGLE_WORKSPACE" /\ \E p \in LinkedPages(present.groups) : ReadGroupPage(p)
GithubListGroups ==
    client = "GITHUB" /\ \E p \in LinkedPages(present.groups) : ReadGroupPage(p)

\* A page of members of the next group, which must still be there.
ReadMembers ==
    LET g == Min(page) IN
    /\ phase = "members" /\ UnderLimit
    /\ g \in present.groups
    /\ \E p \in LinkedPages(MembersNow(g)) :
         /\ listed' = [listed EXCEPT !.members = @ \cup ({g} \X p.got),
                                    !.groups = IF p.more THEN @ ELSE @ \cup {g}]
         /\ IF p.more
            THEN /\ at' = NextAt(p) /\ pages' = NextPage
                 /\ UNCHANGED <<phase, page, follows, atGroup, groupPages>>
            ELSE /\ page' = page \ {g}
                 /\ IF page # {g}
                    THEN /\ at' = 0 /\ pages' = 0
                         /\ UNCHANGED <<phase, follows, atGroup, groupPages>>
                    ELSE /\ NextGroups(follows, atGroup, groupPages)
                         /\ follows' = FALSE /\ atGroup' = 0 /\ groupPages' = 0
    /\ reads' = 0
    /\ UNCHANGED directoryVars

EntraMembers == client = "ENTRA_ID" /\ ReadMembers
OktaGroupMembers == client = "OKTA" /\ ReadMembers
GoogleMembers == client = "GOOGLE_WORKSPACE" /\ ReadMembers
GithubMembers == client = "GITHUB" /\ ReadMembers

\* Mutant: at the limit the listing ends with what it has.
PageLimitBreaks ==
    /\ phase \in {"users", "groups", "members"} /\ ~Requesting
    /\ phase' = "done"
    /\ UNCHANGED <<directoryVars, pages, at, reads, page, follows, atGroup, groupPages,
                   listed>>

PageLimit ==
    /\ phase \in {"users", "groups", "members"} /\ ~Requesting
    /\ phase' = "failed"
    /\ UNCHANGED <<directoryVars, pages, at, reads, page, follows, atGroup, groupPages,
                   listed>>

-----------------------------------------------------------------------------
(* Requests that fail. *)

\* No answer, 429 or 5xx is tried again; anything else, and the last attempt,
\* fails the listing and with it the run.
ReadFails(limit) ==
    /\ phase \in {"users", "groups", "members"} /\ Requesting
    /\ \/ /\ reads + 1 < limit
          /\ reads' = reads + 1 /\ UNCHANGED phase
       \/ /\ phase' = "failed" /\ reads' = 0
    /\ UNCHANGED <<directoryVars, pages, at, page, follows, atGroup, groupPages, listed>>

ScimRequestFails == client = "SCIM_2_0" /\ ReadFails(MaxReads)
NativeDoFails == client \in Linked /\ ReadFails(MaxReads)
LdapSearchFails == client = "LDAP_DIRECTORY" /\ ReadFails(1)

-----------------------------------------------------------------------------
(* The provider. *)

DirectoryChange(now) ==
    /\ phase \in {"users", "groups", "members"} /\ directoryChanges < DirectoryChanges
    /\ present' = now
    /\ steady' = [users |-> steady.users \cap now.users, groups |-> steady.groups \cap now.groups]
    /\ removed' = (removed \/ ~(present.users \subseteq now.users /\ present.groups \subseteq now.groups))
    /\ directoryChanges' = directoryChanges + 1
    /\ UNCHANGED <<client, loopVars>>

InsertObject ==
    \/ \E u \in DirectoryUsers \ present.users :
         DirectoryChange([present EXCEPT !.users = @ \cup {u}])
    \/ \E g \in DirectoryGroups \ present.groups :
         DirectoryChange([present EXCEPT !.groups = @ \cup {g}])

RemoveObject ==
    \/ \E u \in present.users : DirectoryChange([present EXCEPT !.users = @ \ {u}])
    \/ \E g \in present.groups : DirectoryChange([present EXCEPT !.groups = @ \ {g}])

-----------------------------------------------------------------------------
DiscoveryInit ==
    /\ client \in Clients
    /\ present \in Directory /\ steady = present
    /\ directoryChanges = 0 /\ removed = FALSE
    /\ phase = "none" /\ pages = 0 /\ at = 0 /\ reads = 0
    /\ page = {} /\ follows = FALSE /\ atGroup = 0 /\ groupPages = 0
    /\ listed = [users |-> {}, groups |-> {}, members |-> {}]

ReadStep ==
    \/ ScimListUsers \/ ScimListGroups \/ ScimRequestFails
    \/ SearchUsers \/ SearchGroups \/ LdapSearchFails
    \/ EntraListUsers \/ EntraListGroups \/ EntraMembers
    \/ OktaListUsers \/ OktaListGroups \/ OktaGroupMembers
    \/ GoogleListUsers \/ GoogleListGroups \/ GoogleMembers
    \/ GithubListUsers \/ GithubListGroups \/ GithubMembers
    \/ NativeDoFails
    \/ PageLimit

DiscoveryNext == BeginDiscovery \/ ReadStep \/ InsertObject \/ RemoveObject

DiscoverySpec == DiscoveryInit /\ [][DiscoveryNext]_discoveryVars

-----------------------------------------------------------------------------
(* Properties. *)

\* The values of the directory and of the local variables of the loops.
DiscoveryTypeOK ==
    /\ client \in Clients
    /\ present \in Directory /\ steady \in Directory
    /\ directoryChanges \in 0 .. DirectoryChanges /\ removed \in BOOLEAN
    /\ phase \in {"none", "users", "groups", "members", "done", "failed"}
    /\ {pages, groupPages} \subseteq 0 .. MaxPages
    /\ at \in Nat /\ atGroup \in Nat
    /\ reads \in 0 .. MaxReads - 1
    /\ page \subseteq DirectoryGroups /\ follows \in BOOLEAN
    /\ listed \in Listing

\* What a listing returns without an error holds every user, group and
\* membership the provider had all the time, however the pages fell and
\* whatever came and went: accounts that are not in it are stored as MISSING.
\* By index a removal shifts the objects behind it onto a page already read.
ListingIsComplete ==
    phase = "done" /\ ~(client = "SCIM_2_0" /\ removed) =>
      /\ steady.users \subseteq listed.users
      /\ steady.groups \subseteq listed.groups
      /\ \A g \in steady.groups : {g} \X (MembersOf[g] \cap steady.users) \subseteq listed.members

\* A listing ends, also when the provider sends links forever.
ListingEnds == phase = "users" ~> phase \in {"done", "failed"}
=============================================================================
