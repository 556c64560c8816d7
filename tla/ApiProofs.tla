------------------------------ MODULE ApiProofs ------------------------------
(***************************************************************************)
(* What requests to the API do to rows they share: decisions of access     *)
(* reviews, the rate limit, and sessions with their secrets, each for any  *)
(* values of its constants.                                                *)
(***************************************************************************)
EXTENDS AccessReview, RateLimit, Sessions, TLAPS

(* Decisions of access reviews, for any campaigns, grants and number of    *)
(* transactions at the same time.                                          *)

Open(t) == deciding[t] # NoDecision

\* What the tables say of a campaign.
CampaignOK(c) ==
    /\ campaign[c].status = "NONE" => \A g \in Grants : item[c][g] = "NONE"
    /\ campaign[c].status = "COMPLETED" => \A g \in Grants : item[c][g] # "PENDING"
    /\ /\ campaign[c].status \in {"ACTIVE", "OVERDUE"}
       /\ InFlight(c) = {}
       /\ \A g \in Grants : item[c][g] # "PENDING"
       => c \in raced \/ \A g \in Grants : item[c][g] = "NONE"
    /\ \A g \in Grants :
         /\ item[c][g] = "DECIDED" <=> decision[c][g] # "NONE"
         /\ proposals[c][g] = IF decision[c][g] = "REVOKE" THEN 1 ELSE 0

\* An open transaction has an item that is PENDING.  One that has tested the
\* others knows the answer still, unless another one of the campaign overlapped.
FlightOK(t) ==
    Open(t) =>
      LET x == deciding[t]
          others == {g \in Grants \ {x.grant} : item[x.campaign][g] = "PENDING"}
      IN
      /\ item[x.campaign][x.grant] = "PENDING"
      /\ x.pc = "tested" /\ x.completes => others = {}
      /\ x.pc = "tested" /\ ~x.completes => x.campaign \in raced \/ others # {}

\* Two open transactions of a campaign decide different items, and that they
\* overlapped is known once both have tested.
PairOK(t, u) ==
    /\ Open(t) /\ Open(u) /\ t # u
    /\ deciding[t].campaign = deciding[u].campaign
    => /\ deciding[t].grant # deciding[u].grant
       /\ deciding[t].pc = "tested" /\ deciding[u].pc = "tested" =>
            deciding[t].campaign \in raced

\* The inductive invariant of access reviews.
ReviewInv ==
    /\ ReviewTypeOK
    /\ \A c \in Campaigns : CampaignOK(c)
    /\ \A t \in Deciders : FlightOK(t)
    /\ \A t, u \in Deciders : PairOK(t, u)

\* The fields of an open transaction.
LEMMA OpenTyped ==
  ASSUME ReviewTypeOK, NEW t \in Deciders, Open(t)
  PROVE  /\ deciding[t] \in OpenDecision
         /\ deciding[t].pc \in {"decided", "tested"}
         /\ deciding[t].campaign \in Campaigns /\ deciding[t].grant \in Grants
         /\ deciding[t].decision \in Decisions /\ deciding[t].completes \in BOOLEAN
<1>1. deciding[t] \in OpenDecision
  BY DEF ReviewTypeOK, Open
<1>2. QED
  BY <1>1 DEF OpenDecision

\* A transaction at one of its steps is open.
LEMMA AtWorkIsOpen ==
  ASSUME NEW t, deciding[t].pc \in {"decided", "tested"}
  PROVE  Open(t)
BY DEF Open, NoDecision

\* Creation finds a campaign nobody decides on.
LEMMA CreateKeeps ==
  ASSUME ReviewInv, NEW c \in Campaigns, NEW active \in SUBSET Grants,
         CreateAccessReview(c, active)
  PROVE  ReviewInv'
<1>1. PICK row : row = [campaign[c] EXCEPT !.status = "ACTIVE"]
  BY Zenon
<1>2. campaign[c] \in CampaignRow /\ row \in CampaignRow /\ row.status = "ACTIVE"
  BY <1>1, Zenon DEF ReviewInv, ReviewTypeOK, CampaignRow
<1>3. /\ campaign' = [campaign EXCEPT ![c] = row]
      /\ item' = [item EXCEPT ![c] = [g \in Grants |->
                    IF g \in active THEN "PENDING" ELSE "NONE"]]
      /\ UNCHANGED <<decision, proposals, deciding, raced>>
  BY <1>1, Zenon DEF CreateAccessReview
<1>4. /\ campaign'[c] = row
      /\ \A d \in Campaigns \ {c} : campaign'[d] = campaign[d] /\ item'[d] = item[d]
      /\ \A g \in Grants : item'[c][g] = IF g \in active THEN "PENDING" ELSE "NONE"
  BY <1>3 DEF ReviewInv, ReviewTypeOK
<1>5. \A g \in Grants : item[c][g] = "NONE"
  BY DEF CreateAccessReview, ReviewInv, CampaignOK
<1>6. \A t \in Deciders : Open(t) => deciding[t].campaign \in Campaigns \ {c}
  <2>1. SUFFICES ASSUME NEW t \in Deciders, Open(t)
                 PROVE  deciding[t].campaign # c /\ deciding[t].campaign \in Campaigns
    OBVIOUS
  <2>2. deciding[t].grant \in Grants /\ deciding[t].campaign \in Campaigns
    BY <2>1, OpenTyped DEF ReviewInv
  <2>3. item[deciding[t].campaign][deciding[t].grant] = "PENDING"
    BY <2>1 DEF ReviewInv, FlightOK
  <2>4. QED
    BY <1>5, <2>2, <2>3
<1>7. ReviewTypeOK'
  BY <1>2, <1>3 DEF ReviewInv, ReviewTypeOK
<1>8. ASSUME NEW d \in Campaigns PROVE CampaignOK(d)'
  <2>1. CASE d = c
    <3>1. /\ campaign'[c].status = "ACTIVE"
          /\ \A g \in Grants : item'[c][g] \in {"PENDING", "NONE"}
      BY <1>2, <1>4
    <3>2. \A g \in Grants :
            /\ item'[c][g] = "DECIDED" <=> decision'[c][g] # "NONE"
            /\ proposals'[c][g] = IF decision'[c][g] = "REVOKE" THEN 1 ELSE 0
      BY <1>3, <1>5, <3>1 DEF ReviewInv, CampaignOK
    <3>3. QED
      BY <2>1, <3>1, <3>2 DEF CampaignOK
  <2>2. CASE d # c
    <3>1. campaign'[d] = campaign[d] /\ item'[d] = item[d] /\ CampaignOK(d)
      BY <1>4, <2>2 DEF ReviewInv
    <3>2. InFlight(d)' = InFlight(d)
      BY <1>3, Zenon DEF InFlight
    <3>3. QED
      BY <1>3, <3>1, <3>2 DEF CampaignOK
  <2>3. QED
    BY <2>1, <2>2
<1>9. ASSUME NEW t \in Deciders PROVE FlightOK(t)'
  <2>1. CASE ~Open(t)
    BY <1>3, <2>1 DEF FlightOK, Open
  <2>2. CASE Open(t)
    <3>1. item'[deciding[t].campaign] = item[deciding[t].campaign]
      BY <1>4, <1>6, <2>2
    <3>2. FlightOK(t) /\ Open(t)
      BY <2>2 DEF ReviewInv
    <3>3. QED
      BY <1>3, <3>1, <3>2 DEF FlightOK, Open
  <2>3. QED
    BY <2>1, <2>2
<1>10. \A t, u \in Deciders : PairOK(t, u)'
  BY <1>3, Zenon DEF ReviewInv, PairOK, Open
<1>11. QED
  BY <1>7, <1>8, <1>9, <1>10, Zenon DEF ReviewInv

\* The due date and the task that looks at it change no more than whether an
\* open campaign is ACTIVE or OVERDUE.
LEMMA OverdueKeeps ==
  ASSUME ReviewInv, NEW c \in Campaigns, DueDatePasses(c) \/ MarkOverdue(c)
  PROVE  ReviewInv'
<1>1. UNCHANGED <<item, decision, proposals, deciding, raced>>
  BY Zenon DEF DueDatePasses, MarkOverdue
<1>2. campaign[c] \in CampaignRow
  BY DEF ReviewInv, ReviewTypeOK
<1>3. PICK row \in CampaignRow :
        /\ campaign' = [campaign EXCEPT ![c] = row]
        /\ \/ row.status = campaign[c].status
           \/ campaign[c].status = "ACTIVE" /\ row.status = "OVERDUE"
  <2>1. CASE DueDatePasses(c)
    <3>1. PICK y : y = [campaign[c] EXCEPT !.past = TRUE]
      BY Zenon
    <3>2. y \in CampaignRow /\ y.status = campaign[c].status
      BY <1>2, <3>1, Zenon DEF CampaignRow
    <3>3. campaign' = [campaign EXCEPT ![c] = y]
      BY <2>1, <3>1, Zenon DEF DueDatePasses
    <3>4. QED
      BY <3>2, <3>3, Zenon
  <2>2. CASE MarkOverdue(c)
    <3>1. PICK y : y = [campaign[c] EXCEPT !.status = "OVERDUE"]
      BY Zenon
    <3>2. y \in CampaignRow /\ y.status = "OVERDUE"
      BY <1>2, <3>1, Zenon DEF CampaignRow
    <3>3. campaign' = [campaign EXCEPT ![c] = y] /\ campaign[c].status = "ACTIVE"
      BY <2>2, <3>1, Zenon DEF MarkOverdue
    <3>4. QED
      BY <3>2, <3>3, Zenon
  <2>3. QED
    BY <2>1, <2>2
<1>4. ReviewTypeOK'
  BY <1>1, <1>3 DEF ReviewInv, ReviewTypeOK
<1>5. ASSUME NEW d \in Campaigns PROVE CampaignOK(d)'
  <2>1. \/ campaign'[d].status = campaign[d].status
        \/ campaign[d].status = "ACTIVE" /\ campaign'[d].status = "OVERDUE"
    BY <1>3 DEF ReviewInv, ReviewTypeOK
  <2>2. InFlight(d)' = InFlight(d)
    BY <1>1, Zenon DEF InFlight
  <2>3. CampaignOK(d)
    BY DEF ReviewInv
  <2>4. QED
    BY <1>1, <2>1, <2>2, <2>3 DEF CampaignOK
<1>6. /\ \A t \in Deciders : FlightOK(t)'
      /\ \A t, u \in Deciders : PairOK(t, u)'
  BY <1>1, Zenon DEF ReviewInv, FlightOK, PairOK, Open
<1>7. QED
  BY <1>4, <1>5, <1>6, Zenon DEF ReviewInv

\* A step of transaction t that writes nothing anyone else sees.
LEMMA OwnStep ==
  ASSUME ReviewInv, NEW t \in Deciders, NEW row \in {NoDecision} \cup OpenDecision,
         deciding' = [deciding EXCEPT ![t] = row],
         UNCHANGED <<campaign, item, decision, proposals>>,
         raced \subseteq raced', raced' \subseteq Campaigns,
         FlightOK(t)',
         \A u \in Deciders : PairOK(t, u)' /\ PairOK(u, t)',
         \A c \in Campaigns : InFlight(c)' = {} =>
           InFlight(c) = {} \/ \E g \in Grants : item[c][g] = "PENDING"
  PROVE  ReviewInv'
<1>1. \A u \in Deciders \ {t} : deciding'[u] = deciding[u]
  BY DEF ReviewInv, ReviewTypeOK
<1>2. ReviewTypeOK'
  BY DEF ReviewInv, ReviewTypeOK
<1>3. ASSUME NEW c \in Campaigns PROVE CampaignOK(c)'
  BY DEF ReviewInv, CampaignOK
<1>4. ASSUME NEW u \in Deciders PROVE FlightOK(u)'
  <2>1. CASE u = t
    BY <2>1
  <2>2. CASE u # t
    <3>1. FlightOK(u) /\ deciding'[u] = deciding[u]
      BY <1>1, <2>2 DEF ReviewInv
    <3>2. QED
      BY <3>1 DEF FlightOK, Open
  <2>3. QED
    BY <2>1, <2>2
<1>5. ASSUME NEW u \in Deciders, NEW v \in Deciders PROVE PairOK(u, v)'
  <2>1. CASE u = t \/ v = t
    BY <2>1
  <2>2. CASE u # t /\ v # t
    <3>1. PairOK(u, v) /\ deciding'[u] = deciding[u] /\ deciding'[v] = deciding[v]
      BY <1>1, <2>2 DEF ReviewInv
    <3>2. QED
      BY <3>1 DEF PairOK, Open
  <2>3. QED
    BY <2>1, <2>2
<1>6. QED
  BY <1>2, <1>3, <1>4, <1>5, Zenon DEF ReviewInv

\* A transaction begins with an item nobody else decides.
LEMMA DecideKeeps ==
  ASSUME ReviewInv, NEW t \in Deciders, NEW c \in Campaigns, NEW g \in Grants,
         NEW d \in Decisions, DecideItem(t, c, g, d)
  PROVE  ReviewInv'
<1>1. PICK row : row = [pc |-> "decided", campaign |-> c, grant |-> g,
                        decision |-> d, completes |-> FALSE]
  BY Zenon
<1>2. /\ row \in OpenDecision /\ row # NoDecision /\ row.pc = "decided"
      /\ row.campaign = c /\ row.grant = g
  BY <1>1 DEF OpenDecision, NoDecision
<1>3. /\ deciding' = [deciding EXCEPT ![t] = row]
      /\ UNCHANGED <<campaign, item, decision, proposals, raced>>
      /\ ~Open(t) /\ Decidable(c, g)
  BY <1>1, Zenon DEF DecideItem, Open
<1>4. deciding'[t] = row /\ \A u \in Deciders \ {t} : deciding'[u] = deciding[u]
  BY <1>3 DEF ReviewInv, ReviewTypeOK
<1>5. item[c][g] = "PENDING"
  BY <1>3 DEF Decidable, ReviewInv, CampaignOK, ReviewTypeOK
<1>6. FlightOK(t)'
  BY <1>2, <1>3, <1>4, <1>5 DEF FlightOK
<1>7. ASSUME NEW u \in Deciders PROVE PairOK(t, u)' /\ PairOK(u, t)'
  <2>1. CASE u = t
    BY <2>1 DEF PairOK
  <2>2. CASE u # t
    <3>1. Open(u) /\ deciding[u].campaign = c => deciding[u].grant # g
      BY <1>3, Zenon DEF Decidable, InFlight, Open
    <3>2. QED
      BY <1>2, <1>4, <2>2, <3>1 DEF PairOK, Open
  <2>3. QED
    BY <2>1, <2>2
<1>8. ASSUME NEW e \in Campaigns, InFlight(e)' = {} PROVE InFlight(e) = {}
  <2>1. \A u \in Deciders : u \in InFlight(e) => u \in InFlight(e)'
    BY <1>3, <1>4 DEF InFlight, Open
  <2>2. QED
    BY <1>8, <2>1 DEF InFlight
<1>9. raced \subseteq raced' /\ raced' \subseteq Campaigns
  BY <1>3 DEF ReviewInv, ReviewTypeOK
<1>10. QED
  BY <1>2, <1>3, <1>6, <1>7, <1>8, <1>9, OwnStep, Zenon

\* A transaction that rolls back leaves its item PENDING.
LEMMA RollBackKeeps ==
  ASSUME ReviewInv, NEW t \in Deciders, RollBackDecision(t)
  PROVE  ReviewInv'
<1>1. /\ deciding' = [deciding EXCEPT ![t] = NoDecision]
      /\ UNCHANGED <<campaign, item, decision, proposals, raced>> /\ Open(t)
  BY Zenon DEF RollBackDecision, Open
<1>2. /\ deciding'[t] = NoDecision
      /\ \A u \in Deciders \ {t} : deciding'[u] = deciding[u]
  BY <1>1 DEF ReviewInv, ReviewTypeOK
<1>3. FlightOK(t)' /\ \A u \in Deciders : PairOK(t, u)' /\ PairOK(u, t)'
  BY <1>2 DEF FlightOK, PairOK, Open
<1>4. ASSUME NEW c \in Campaigns, InFlight(c)' = {}
      PROVE  InFlight(c) = {} \/ \E g \in Grants : item[c][g] = "PENDING"
  <2>1. CASE deciding[t].campaign = c
    <3>1. item[c][deciding[t].grant] = "PENDING" /\ deciding[t].grant \in Grants
      BY <1>1, <2>1, OpenTyped DEF ReviewInv, FlightOK
    <3>2. QED
      BY <3>1, Zenon
  <2>2. CASE deciding[t].campaign # c
    <3>1. \A u \in Deciders : u \in InFlight(c) => u \in InFlight(c)'
      BY <1>2, <2>2 DEF InFlight
    <3>2. QED
      BY <1>4, <3>1 DEF InFlight
  <2>3. QED
    BY <2>1, <2>2
<1>5. raced \subseteq raced' /\ raced' \subseteq Campaigns
  BY <1>1 DEF ReviewInv, ReviewTypeOK
<1>6. QED
  BY <1>1, <1>3, <1>4, <1>5, OwnStep, Zenon

\* The update that tests the items knows them all, or that it was overlapped.
LEMMA CompleteKeeps ==
  ASSUME ReviewInv, NEW t \in Deciders, CompleteCampaign(t)
  PROVE  ReviewInv'
<1>1. deciding[t].pc = "decided" /\ Open(t)
  BY AtWorkIsOpen DEF CompleteCampaign
<1>2. PICK c \in Campaigns, g \in Grants :
        c = deciding[t].campaign /\ g = deciding[t].grant
  BY <1>1, OpenTyped, Zenon DEF ReviewInv
<1>3. PICK b \in BOOLEAN : b <=> \A x \in Grants : SeesDecided(t, x)
  BY Zenon
<1>4. PICK row : row = [deciding[t] EXCEPT !.pc = "tested", !.completes = b]
  BY Zenon
<1>5. /\ row \in OpenDecision /\ row # NoDecision /\ row.pc = "tested"
      /\ row.campaign = c /\ row.grant = g /\ row.completes = b
  <2>1. deciding[t] \in OpenDecision
    BY <1>1, OpenTyped DEF ReviewInv
  <2>2. QED
    BY <1>2, <1>4, <2>1, Zenon DEF OpenDecision, NoDecision
<1>6. deciding' = [deciding EXCEPT ![t] = row]
  <2>1. (\A x \in Grants : SeesDecided(t, x)) = b
    BY <1>3, Zenon
  <2>2. deciding' = [deciding EXCEPT ![t].pc = "tested", ![t].completes = b]
    BY <2>1, Zenon DEF CompleteCampaign
  <2>3. deciding \in [Deciders -> {NoDecision} \cup OpenDecision]
    BY DEF ReviewInv, ReviewTypeOK
  <2>4. QED
    BY <1>4, <2>2, <2>3, Zenon
<1>7. /\ UNCHANGED <<campaign, item, decision, proposals>>
      /\ raced' = IF InFlight(c) = {t} THEN raced ELSE raced \cup {c}
  BY <1>2, Zenon DEF CompleteCampaign
<1>8. deciding'[t] = row /\ \A u \in Deciders \ {t} : deciding'[u] = deciding[u]
  BY <1>6 DEF ReviewInv, ReviewTypeOK
<1>9. FlightOK(t)'
  <2>1. \A x \in Grants :
          SeesDecided(t, x) <=> item[c][x] \in {"NONE", "DECIDED"} \/ g = x
    BY <1>2, Zenon DEF SeesDecided
  <2>2. \A x \in Grants : item[c][x] \in {"NONE", "PENDING", "DECIDED"}
    BY DEF ReviewInv, ReviewTypeOK
  <2>3. item[c][g] = "PENDING"
    BY <1>1, <1>2 DEF ReviewInv, FlightOK
  <2>4. b <=> {x \in Grants \ {g} : item[c][x] = "PENDING"} = {}
    BY <1>3, <2>1, <2>2
  <2>5. QED
    BY <1>5, <1>7, <1>8, <2>3, <2>4 DEF FlightOK
<1>10. ASSUME NEW u \in Deciders PROVE PairOK(t, u)' /\ PairOK(u, t)'
  <2>1. CASE u = t
    BY <2>1 DEF PairOK
  <2>2. CASE u # t
    <3>1. Open(u) /\ deciding[u].campaign = c => deciding[u].grant # g /\ c \in raced'
      BY <1>1, <1>2, <1>7, <2>2 DEF ReviewInv, PairOK, Open, InFlight
    <3>2. QED
      BY <1>5, <1>8, <2>2, <3>1 DEF PairOK, Open
  <2>3. QED
    BY <2>1, <2>2
<1>11. ASSUME NEW e \in Campaigns, InFlight(e)' = {} PROVE InFlight(e) = {}
  <2>1. \A u \in Deciders : u \in InFlight(e) => u \in InFlight(e)'
    BY <1>2, <1>5, <1>8 DEF InFlight
  <2>2. QED
    BY <1>11, <2>1 DEF InFlight
<1>12. raced \subseteq raced' /\ raced' \subseteq Campaigns
  BY <1>7 DEF ReviewInv, ReviewTypeOK
<1>13. QED
  BY <1>5, <1>6, <1>7, <1>9, <1>10, <1>11, <1>12, OwnStep, Zenon

\* The commit shows one item DECIDED, and completes the campaign if the test
\* has found no other one PENDING.
LEMMA CommitKeeps ==
  ASSUME ReviewInv, NEW t \in Deciders, CommitDecision(t)
  PROVE  ReviewInv'
<1>1. deciding[t].pc = "tested" /\ Open(t)
  BY AtWorkIsOpen DEF CommitDecision
<1>2. PICK c \in Campaigns, g \in Grants, d \in Decisions :
        c = deciding[t].campaign /\ g = deciding[t].grant /\ d = deciding[t].decision
  BY <1>1, OpenTyped, Zenon DEF ReviewInv
<1>3. /\ item' = [item EXCEPT ![c][g] = "DECIDED"]
      /\ decision' = [decision EXCEPT ![c][g] = d]
      /\ proposals' = IF d = "REVOKE" THEN [proposals EXCEPT ![c][g] = @ + 1]
                                      ELSE proposals
      /\ campaign' = IF deciding[t].completes
                     THEN [campaign EXCEPT ![c].status = "COMPLETED"] ELSE campaign
      /\ deciding' = [deciding EXCEPT ![t] = NoDecision]
      /\ raced' = raced
  BY <1>2, Zenon DEF CommitDecision
<1>4. /\ deciding'[t] = NoDecision
      /\ \A u \in Deciders \ {t} : deciding'[u] = deciding[u]
  BY <1>3 DEF ReviewInv, ReviewTypeOK
<1>5. /\ item'[c][g] = "DECIDED" /\ decision'[c][g] = d
      /\ \A x \in Campaigns, y \in Grants : x # c \/ y # g =>
           item'[x][y] = item[x][y] /\ decision'[x][y] = decision[x][y]
  BY <1>3 DEF ReviewInv, ReviewTypeOK
<1>6. /\ item[c][g] = "PENDING" /\ FlightOK(t)
      /\ decision[c][g] = "NONE" /\ proposals[c][g] = 0
  <2>1. item[c][g] = "PENDING" /\ FlightOK(t)
    BY <1>1, <1>2 DEF ReviewInv, FlightOK
  <2>2. QED
    BY <2>1 DEF ReviewInv, CampaignOK
<1>7. /\ \A x \in Campaigns, y \in Grants :
           proposals'[x][y] = IF decision'[x][y] = "REVOKE" THEN 1 ELSE 0
      /\ proposals' \in [Campaigns -> [Grants -> Nat]]
  <2>1. proposals \in [Campaigns -> [Grants -> Nat]]
    BY DEF ReviewInv, ReviewTypeOK
  <2>2. \A x \in Campaigns, y \in Grants :
          proposals[x][y] = IF decision[x][y] = "REVOKE" THEN 1 ELSE 0
    BY DEF ReviewInv, CampaignOK
  <2>3. CASE d = "REVOKE"
    BY <1>3, <1>5, <1>6, <2>1, <2>2, <2>3
  <2>4. CASE d # "REVOKE"
    BY <1>3, <1>5, <1>6, <2>1, <2>2, <2>4
  <2>5. QED
    BY <2>3, <2>4
<1>8. /\ campaign' \in [Campaigns -> CampaignRow]
      /\ \A x \in Campaigns \ {c} : campaign'[x] = campaign[x]
      /\ campaign'[c].status = IF deciding[t].completes THEN "COMPLETED"
                                                        ELSE campaign[c].status
  <2>1. campaign \in [Campaigns -> CampaignRow] /\ campaign[c] \in CampaignRow
    BY DEF ReviewInv, ReviewTypeOK
  <2>2. PICK row : row = [campaign[c] EXCEPT !.status = "COMPLETED"]
    BY Zenon
  <2>3. row \in CampaignRow /\ row.status = "COMPLETED"
    BY <2>1, <2>2, Zenon DEF CampaignRow
  <2>4. campaign' = IF deciding[t].completes THEN [campaign EXCEPT ![c] = row]
                                             ELSE campaign
    BY <1>3, <2>2, Zenon
  <2>5. QED
    BY <2>1, <2>3, <2>4
<1>9. ReviewTypeOK'
  BY <1>3, <1>7, <1>8 DEF ReviewInv, ReviewTypeOK
<1>10. ASSUME NEW x \in Campaigns PROVE CampaignOK(x)'
  <2>1. /\ CampaignOK(x)
        /\ \A y \in Grants : item[x][y] \in {"NONE", "PENDING", "DECIDED"}
    BY DEF ReviewInv, ReviewTypeOK
  <2>2. \A y \in Grants :
          /\ item'[x][y] = "DECIDED" <=> decision'[x][y] # "NONE"
          /\ proposals'[x][y] = IF decision'[x][y] = "REVOKE" THEN 1 ELSE 0
    BY <1>5, <1>7, <2>1 DEF CampaignOK, Decisions
  <2>3. CASE x # c
    <3>1. /\ campaign'[x] = campaign[x] /\ raced' = raced
          /\ \A y \in Grants : item'[x][y] = item[x][y]
      BY <1>3, <1>5, <1>8, <2>3
    <3>2. InFlight(x)' = InFlight(x)
      BY <1>1, <1>2, <1>4, <2>3 DEF InFlight
    <3>3. QED
      BY <2>1, <2>2, <3>1, <3>2 DEF CampaignOK
  <2>4. CASE x = c
    <3>1. campaign[c].status # "NONE"
      BY <1>6, <2>1, <2>4 DEF CampaignOK
    <3>2. CASE deciding[t].completes
      <4>1. \A y \in Grants : item'[c][y] # "PENDING"
        BY <1>1, <1>2, <1>5, <1>6, <3>2 DEF FlightOK
      <4>2. campaign'[c].status = "COMPLETED"
        BY <1>8, <3>2
      <4>3. QED
        BY <2>2, <2>4, <4>1, <4>2 DEF CampaignOK
    <3>3. CASE ~deciding[t].completes
      <4>1. campaign'[c].status = campaign[c].status
        BY <1>8, <3>3
      <4>2. c \in raced' \/ \E y \in Grants : item'[c][y] = "PENDING"
        BY <1>1, <1>2, <1>3, <1>5, <1>6, <3>3 DEF FlightOK
      <4>3. \A y \in Grants : item[c][y] # "PENDING" => item'[c][y] # "PENDING"
        BY <1>5
      <4>4. QED
        BY <2>1, <2>2, <2>4, <3>1, <4>1, <4>2, <4>3 DEF CampaignOK
    <3>4. QED
      BY <3>2, <3>3
  <2>5. QED
    BY <2>3, <2>4
<1>11. ASSUME NEW u \in Deciders PROVE FlightOK(u)'
  <2>1. CASE u = t \/ ~Open(u)
    BY <1>4, <2>1 DEF FlightOK, Open
  <2>2. CASE u # t /\ Open(u)
    <3>1. /\ FlightOK(u) /\ PairOK(t, u) /\ deciding'[u] = deciding[u]
          /\ deciding[u].campaign \in Campaigns /\ deciding[u].grant \in Grants
      BY <1>4, <2>2, OpenTyped DEF ReviewInv
    <3>2. CASE deciding[u].campaign # c
      BY <1>3, <1>5, <2>2, <3>1, <3>2 DEF FlightOK, Open
    <3>3. CASE deciding[u].campaign = c
      <4>1. /\ deciding[u].grant # g
            /\ deciding[u].pc = "tested" => c \in raced
        BY <1>1, <1>2, <2>2, <3>1, <3>3 DEF PairOK
      <4>2. /\ item'[c][deciding[u].grant] = item[c][deciding[u].grant]
            /\ \A y \in Grants : item'[c][y] = "PENDING" => item[c][y] = "PENDING"
        BY <1>5, <3>1, <4>1
      <4>3. QED
        BY <1>3, <2>2, <3>1, <3>3, <4>1, <4>2 DEF FlightOK, Open
    <3>4. QED
      BY <3>2, <3>3
  <2>3. QED
    BY <2>1, <2>2
<1>12. ASSUME NEW u \in Deciders, NEW v \in Deciders PROVE PairOK(u, v)'
  <2>1. CASE u = t \/ v = t
    BY <1>4, <2>1 DEF PairOK, Open
  <2>2. CASE u # t /\ v # t
    <3>1. PairOK(u, v) /\ deciding'[u] = deciding[u] /\ deciding'[v] = deciding[v]
      BY <1>4, <2>2 DEF ReviewInv
    <3>2. QED
      BY <1>3, <3>1 DEF PairOK, Open
  <2>3. QED
    BY <2>1, <2>2
<1>13. QED
  BY <1>9, <1>10, <1>11, <1>12, Zenon DEF ReviewInv

\* Every reachable state satisfies the invariant.
LEMMA ReviewInvHolds == ReviewSpec => []ReviewInv
<1>1. ReviewInit => ReviewInv
  <2>1. SUFFICES ASSUME ReviewInit PROVE ReviewInv
    OBVIOUS
  <2>2. \A t \in Deciders : deciding[t] = NoDecision
    BY <2>1 DEF ReviewInit
  <2>3. ReviewTypeOK
    BY <2>1 DEF ReviewInit, ReviewTypeOK, CampaignRow
  <2>4. \A c \in Campaigns : CampaignOK(c)
    <3>1. ASSUME NEW c \in Campaigns
          PROVE  /\ campaign[c].status = "NONE"
                 /\ \A g \in Grants : /\ item[c][g] = "NONE"
                                      /\ decision[c][g] = "NONE"
                                      /\ proposals[c][g] = 0
      BY <2>1 DEF ReviewInit
    <3>2. QED
      BY <3>1, Zenon DEF CampaignOK
  <2>5. QED
    BY <2>2, <2>3, <2>4 DEF ReviewInv, FlightOK, PairOK, Open
<1>2. ReviewInv /\ [ReviewNext]_reviewVars => ReviewInv'
  <2>1. ASSUME ReviewInv, UNCHANGED reviewVars PROVE ReviewInv'
    <3>1. UNCHANGED <<campaign, item, decision, proposals, deciding, raced>>
      BY <2>1 DEF reviewVars
    <3>2. ReviewTypeOK'
      BY <2>1, <3>1 DEF ReviewInv, ReviewTypeOK
    <3>3. \A c \in Campaigns : CampaignOK(c)'
      BY <2>1, <3>1, Zenon DEF ReviewInv, CampaignOK, InFlight
    <3>4. /\ \A t \in Deciders : FlightOK(t)'
          /\ \A t, u \in Deciders : PairOK(t, u)'
      BY <2>1, <3>1, Zenon DEF ReviewInv, FlightOK, PairOK, Open
    <3>5. QED
      BY <3>2, <3>3, <3>4, Zenon DEF ReviewInv
  <2>2. QED
    BY <2>1, CreateKeeps, OverdueKeeps, DecideKeeps, CompleteKeeps, CommitKeeps,
       RollBackKeeps, Zenon DEF ReviewNext, EndDecision
<1>3. QED
  BY <1>1, <1>2, PTL DEF ReviewSpec

\* Campaigns, items and the transactions deciding them keep their types.
THEOREM ReviewTypeCorrect == ReviewSpec => []ReviewTypeOK
<1>1. ReviewInv => ReviewTypeOK
  BY Zenon DEF ReviewInv
<1>2. QED
  BY <1>1, ReviewInvHolds, PTL

\* A campaign is COMPLETED only when all its items are decided, and stays open
\* when they are only if it has none or two decisions overlapped
\* (Service.DecideReview).
THEOREM CompletionIsEarned == ReviewSpec => []CompletionFollowsItems
<1>1. ReviewInv => CompletionFollowsItems
  BY Zenon DEF ReviewInv, CampaignOK, CompletionFollowsItems
<1>2. QED
  BY <1>1, ReviewInvHolds, PTL

\* One proposal in the outbox for each decision to revoke, and no other
\* (Service.DecideReview).
THEOREM OneProposalPerRevocation == ReviewSpec => []RevocationsAreProposed
<1>1. ReviewInv => RevocationsAreProposed
  BY Zenon DEF ReviewInv, CampaignOK, RevocationsAreProposed
<1>2. QED
  BY <1>1, ReviewInvHolds, PTL

-----------------------------------------------------------------------------
(* The limit of a window, for any limit, window length, grace and number of
   requests, as long as the clocks of replicas differ by no more than the
   grace of Cleanup. *)

\* What is known of the row of one window.  The row forgets its requests when
\* Cleanup deletes it, which no replica whose clock is within the grace sees.
RowOK(s) ==
    /\ admitted[s] <= Limit
    /\ s \in refused => admitted[s] + lost[s] >= Limit
    /\ count[s] <= admitted[s] + lost[s] \/ admitted[s] + lost[s] >= Limit
    /\ admitted[s] <= count[s] \/ s + Window + Grace < now

\* The inductive invariant of the limiter.
RateInv == RateTypeOK /\ \A s \in Starts : RowOK(s)

\* Windows start at whole seconds.
LEMMA StartsAreNat == \A s \in Starts : s \in Nat
<1>1. MaxNow + MaxSkew \in Nat
  BY RateConstants, SkewWithinGrace
<1>2. Starts \subseteq 0 .. MaxNow + MaxSkew
  BY Zenon DEF Starts
<1>3. QED
  BY <1>1, <1>2

\* A replica that counts a request is not behind the grace of the window.
LEMMA CountedInGrace ==
  ASSUME NEW s \in Starts, Counted(s), RateTypeOK
  PROVE  ~(s + Window + Grace < now)
<1>1. PICK skew \in -MaxSkew .. MaxSkew : InWindow(now + skew, s)
  BY DEF Counted
<1>2. now + skew < s + Window
  BY <1>1 DEF InWindow
<1>3. QED
  BY <1>2, StartsAreNat, RateConstants, SkewWithinGrace DEF RateTypeOK

\* A request of window s leaves the rows of the other windows alone.
LEMMA RequestFrame ==
  ASSUME RateInv, NEW s \in Starts, now' = now,
         \A x \in Starts \ {s} : /\ count'[x] = count[x]
                                 /\ admitted'[x] = admitted[x]
                                 /\ lost'[x] = lost[x]
                                 /\ x \in refused' => x \in refused,
         RowOK(s)'
  PROVE  \A x \in Starts : RowOK(x)'
<1>1. ASSUME NEW x \in Starts \ {s} PROVE RowOK(x)'
  BY <1>1 DEF RateInv, RowOK
<1>2. QED
  BY <1>1, Zenon

\* A request that is answered keeps the invariant.
LEMMA AllowKeeps ==
  ASSUME RateInv, NEW s \in Starts, Allow(s)
  PROVE  RateInv'
<1>1. /\ now \in Nat /\ now' = now /\ count[s] \in Nat /\ admitted[s] \in Nat
      /\ lost[s] \in Nat /\ lost' = lost /\ RowOK(s)
  BY DEF RateInv, RateTypeOK, Allow, Counted
<1>2. /\ count' = [count EXCEPT ![s] = count[s] + 1]
      /\ count'[s] = count[s] + 1
  BY DEF Allow, Counted, RateInv, RateTypeOK
<1>3. admitted[s] <= count[s]
  BY <1>1, CountedInGrace DEF RowOK, Allow, RateInv
<1>4. CASE WithinLimit(count'[s])
  <2>1. /\ admitted' = [admitted EXCEPT ![s] = admitted[s] + 1]
        /\ refused' = refused
    BY <1>4 DEF Allow
  <2>2. count[s] + 1 <= Limit
    BY <1>2, <1>4 DEF WithinLimit
  <2>3. admitted'[s] = admitted[s] + 1
    BY <2>1 DEF RateInv, RateTypeOK
  <2>4. RateTypeOK'
    BY <1>1, <1>2, <2>1 DEF RateInv, RateTypeOK
  <2>5. RowOK(s)'
    BY <1>1, <1>2, <1>3, <2>1, <2>2, <2>3, RateConstants DEF RowOK
  <2>6. QED
    BY <1>1, <1>2, <2>1, <2>4, <2>5, RequestFrame DEF RateInv, RateTypeOK
<1>5. CASE ~WithinLimit(count'[s])
  <2>1. refused' = refused \cup {s} /\ admitted' = admitted
    BY <1>5 DEF Allow
  <2>2. count[s] >= Limit
    BY <1>1, <1>2, <1>5, RateConstants DEF WithinLimit
  <2>3. RateTypeOK'
    BY <1>1, <1>2, <2>1 DEF RateInv, RateTypeOK
  <2>4. RowOK(s)'
    BY <1>1, <1>2, <1>3, <2>1, <2>2, RateConstants DEF RowOK
  <2>5. QED
    BY <1>1, <1>2, <2>1, <2>3, <2>4, RequestFrame DEF RateInv, RateTypeOK
<1>6. QED
  BY <1>4, <1>5

\* So does one that is counted and not answered.
LEMMA AllowFailsKeeps ==
  ASSUME RateInv, NEW s \in Starts, AllowFails(s)
  PROVE  RateInv'
<1>1. /\ now \in Nat /\ now' = now /\ count[s] \in Nat /\ admitted[s] \in Nat
      /\ lost[s] \in Nat /\ RowOK(s) /\ admitted' = admitted /\ refused' = refused
  BY DEF RateInv, RateTypeOK, AllowFails, Counted
<1>2. /\ count' = [count EXCEPT ![s] = count[s] + 1]
      /\ lost' = [lost EXCEPT ![s] = lost[s] + 1]
  BY DEF AllowFails, Counted
<1>3. count'[s] = count[s] + 1 /\ lost'[s] = lost[s] + 1
  BY <1>2 DEF RateInv, RateTypeOK
<1>4. RateTypeOK'
  BY <1>1, <1>2 DEF RateInv, RateTypeOK
<1>5. admitted[s] <= count[s]
  BY <1>1, CountedInGrace DEF RowOK, AllowFails, RateInv
<1>6. RowOK(s)'
  BY <1>1, <1>3, <1>5, RateConstants DEF RowOK
<1>7. QED
  BY <1>1, <1>2, <1>4, <1>6, RequestFrame DEF RateInv, RateTypeOK

\* Cleanup forgets only windows that nobody counts in any more.
LEMMA CleanupKeeps ==
  ASSUME RateInv, Cleanup
  PROVE  RateInv'
<1>1. /\ now \in Nat /\ now' = now /\ admitted' = admitted /\ lost' = lost
      /\ refused' = refused
  BY DEF RateInv, RateTypeOK, Cleanup
<1>2. RateTypeOK'
  BY <1>1 DEF RateInv, RateTypeOK, Cleanup
<1>3. ASSUME NEW s \in Starts PROVE RowOK(s)'
  <2>1. /\ s \in Nat /\ admitted[s] \in Nat /\ lost[s] \in Nat /\ RowOK(s)
        /\ count[s] \in Nat
    BY StartsAreNat DEF RateInv, RateTypeOK
  <2>2. count'[s] = IF s + Window < now - Grace THEN 0 ELSE count[s]
    BY DEF Cleanup
  <2>3. QED
    BY <1>1, <2>1, <2>2, RateConstants DEF RowOK
<1>4. QED
  BY <1>2, <1>3, Zenon DEF RateInv

\* Time makes the last conjunct of RowOK weaker.
LEMMA TimeKeeps ==
  ASSUME RateInv, SecondPasses
  PROVE  RateInv'
<1>1. /\ now \in Nat /\ now' = now + 1 /\ UNCHANGED <<count, admitted, lost, refused>>
      /\ RateTypeOK'
  BY RateConstants DEF RateInv, RateTypeOK, SecondPasses
<1>2. ASSUME NEW s \in Starts PROVE RowOK(s)'
  <2>1. s \in Nat /\ RowOK(s)
    BY StartsAreNat DEF RateInv
  <2>2. QED
    BY <1>1, <2>1, RateConstants DEF RowOK
<1>3. QED
  BY <1>1, <1>2, Zenon DEF RateInv

\* Every reachable state satisfies the invariant.
LEMMA RateInvHolds == RateSpec => []RateInv
<1>1. RateInit => RateInv
  BY StartsAreNat, RateConstants DEF RateInit, RateInv, RateTypeOK, RowOK
<1>2. RateInv /\ [RateNext]_rateVars => RateInv'
  <2>1. ASSUME RateInv, UNCHANGED rateVars PROVE RateInv'
    BY <2>1 DEF RateInv, RateTypeOK, RowOK, rateVars
  <2>2. QED
    BY <2>1, AllowKeeps, AllowFailsKeeps, CleanupKeeps, TimeKeeps, Zenon DEF RateNext
<1>3. QED
  BY <1>1, <1>2, PTL DEF RateSpec

\* A window admits at most Limit requests over all replicas and refuses none
\* before Limit have been counted, for any skew within the grace of Cleanup
\* (Postgres.Allow, Postgres.Cleanup).
THEOREM LimitHolds == RateSpec => []WindowAdmitsLimit
<1>1. RateInv => WindowAdmitsLimit
  BY DEF RateInv, RowOK, WindowAdmitsLimit
<1>2. QED
  BY <1>1, RateInvHolds, PTL

\* The rows of the limiter keep their types (rate_limit_windows).
THEOREM RateTypeCorrect == RateSpec => []RateTypeOK
BY RateInvHolds, PTL DEF RateInv

-----------------------------------------------------------------------------
(* Sessions and multi-factor secrets of a user, for any number of logins,
   changes of the password and confirmations at the same time. *)

InProgress == {"authenticated", "admitted"}

\* A login that may see the password change knows that it overlaps.
LoginOK(l) ==
    login[l].pc \in InProgress /\ (Changing \/ login[l].password # password) =>
      login[l].overlaps

\* A live session of another password, or one that an open change of the
\* password will not revoke, is of a login that overlapped.
SessionOK(l) ==
    /\ session[l].live /\ session[l].password # password => session[l].overlaps
    /\ \A h \in Changes :
         change[h].pc = "updated" /\ session[l].live /\ l \notin change[h].revokes =>
           session[l].overlaps

\* A confirmation has read the secret that is stored, unless one was enrolled
\* since.
SecretsOK ==
    /\ \A h \in Confirms : confirm[h] # 0 => confirm[h] = secret \/ crossed
    /\ mfaEnabled => secret \in confirmed \/ crossed

\* The inductive invariant of sessions.
SessionsInv ==
    /\ SessionsTypeOK
    /\ \A l \in Logins : LoginOK(l)
    /\ \A l \in Logins : SessionOK(l)
    /\ SecretsOK

-----------------------------------------------------------------------------
\* A step of login l on its own variables.
LEMMA LoginStep ==
  ASSUME SessionsInv, NEW l \in Logins, NEW row \in Login, NEW s \in Session,
         login' = [login EXCEPT ![l] = row],
         session' = [session EXCEPT ![l] = s],
         UNCHANGED <<password, secret, mfaEnabled, change, confirm, confirmed, crossed>>,
         row.pc \in InProgress /\ (Changing \/ row.password # password) => row.overlaps,
         \/ s = session[l]
         \/ /\ s.password # password => s.overlaps
            /\ Changing => s.overlaps
         \/ ~s.live
  PROVE  SessionsInv'
<1>1. /\ login'[l] = row /\ session'[l] = s /\ Changing' = Changing
      /\ \A m \in Logins \ {l} : login'[m] = login[m] /\ session'[m] = session[m]
  BY DEF SessionsInv, SessionsTypeOK, Changing
<1>2. SessionsTypeOK'
  BY DEF SessionsInv, SessionsTypeOK
<1>3. ASSUME NEW m \in Logins PROVE LoginOK(m)'
  BY <1>1 DEF SessionsInv, LoginOK
<1>4. ASSUME NEW m \in Logins PROVE SessionOK(m)'
  BY <1>1 DEF SessionsInv, SessionOK, Changing
<1>5. SecretsOK'
  BY DEF SessionsInv, SecretsOK
<1>6. QED
  BY <1>2, <1>3, <1>4, <1>5, Zenon DEF SessionsInv

\* Every step of a login, and the end of its session, keeps the invariant.
LEMMA LoginKeeps ==
  ASSUME SessionsInv, NEW l \in Logins,
         \/ Authenticate(l) \/ CheckMfa(l) \/ RefuseLogin(l) \/ CreateSession(l)
         \/ EndSession(l)
  PROVE  SessionsInv'
<1>1. /\ login[l] \in Login /\ session[l] \in Session /\ password \in Nat /\ LoginOK(l)
      /\ login = [login EXCEPT ![l] = login[l]]
      /\ session = [session EXCEPT ![l] = session[l]]
  BY DEF SessionsInv, SessionsTypeOK
<1>2. CASE Authenticate(l)
  <2>1. PICK row : row = [pc |-> "authenticated", password |-> password,
                          overlaps |-> Changing]
    BY Zenon
  <2>2. row \in Login /\ row.password = password /\ row.overlaps = Changing
    BY <1>1, <2>1, Zenon DEF Login, Changing
  <2>3. /\ login' = [login EXCEPT ![l] = row] /\ session' = session
        /\ UNCHANGED <<password, secret, mfaEnabled, change, confirm, confirmed, crossed>>
    BY <1>2, <2>1, Zenon DEF Authenticate
  <2>4. QED
    BY <1>1, <2>2, <2>3, LoginStep, Zenon
<1>3. CASE CheckMfa(l)
  <2>1. PICK row : row = [login[l] EXCEPT !.pc = "admitted"]
    BY Zenon
  <2>2. /\ row \in Login /\ row.password = login[l].password
        /\ row.overlaps = login[l].overlaps /\ login[l].pc \in InProgress
    BY <1>1, <1>3, <2>1, Zenon DEF Login, CheckMfa, InProgress
  <2>3. /\ login' = [login EXCEPT ![l] = row] /\ session' = session
        /\ UNCHANGED <<password, secret, mfaEnabled, change, confirm, confirmed, crossed>>
    BY <1>3, <2>1, Zenon DEF CheckMfa
  <2>4. Changing \/ row.password # password => row.overlaps
    BY <1>1, <2>2, Zenon DEF LoginOK
  <2>5. QED
    BY <1>1, <2>2, <2>3, <2>4, LoginStep, Zenon
<1>4. CASE RefuseLogin(l)
  <2>1. PICK row : row = [login[l] EXCEPT !.pc = "refused"]
    BY Zenon
  <2>2. row \in Login /\ row.pc = "refused"
    BY <1>1, <2>1, Zenon DEF Login
  <2>3. /\ login' = [login EXCEPT ![l] = row] /\ session' = session
        /\ UNCHANGED <<password, secret, mfaEnabled, change, confirm, confirmed, crossed>>
    BY <1>4, <2>1, Zenon DEF RefuseLogin
  <2>4. row.pc \notin InProgress
    BY <2>2 DEF InProgress
  <2>5. QED
    BY <1>1, <2>2, <2>3, <2>4, LoginStep, Zenon
<1>5. CASE CreateSession(l)
  <2>1. PICK row, s : /\ row = [login[l] EXCEPT !.pc = "opened"]
                      /\ s = [live |-> TRUE, password |-> login[l].password,
                              overlaps |-> login[l].overlaps]
    BY Zenon
  <2>2. row \in Login /\ row.pc = "opened" /\ s \in Session
    BY <1>1, <2>1, Zenon DEF Login, Session
  <2>3. s.password = login[l].password /\ s.overlaps = login[l].overlaps
    BY <2>1, Zenon
  <2>4. /\ login' = [login EXCEPT ![l] = row] /\ session' = [session EXCEPT ![l] = s]
        /\ UNCHANGED <<password, secret, mfaEnabled, change, confirm, confirmed, crossed>>
    BY <1>5, <2>1, Zenon DEF CreateSession
  <2>5. row.pc \notin InProgress /\ login[l].pc \in InProgress
    BY <1>5, <2>2 DEF InProgress, CreateSession
  <2>6. Changing \/ s.password # password => s.overlaps
    BY <1>1, <2>3, <2>5, Zenon DEF LoginOK
  <2>7. QED
    BY <1>1, <2>2, <2>4, <2>5, <2>6, LoginStep, Zenon
<1>6. CASE EndSession(l)
  <2>1. PICK s : s = [session[l] EXCEPT !.live = FALSE]
    BY Zenon
  <2>2. s \in Session /\ ~s.live
    BY <1>1, <2>1, Zenon DEF Session
  <2>3. /\ session' = [session EXCEPT ![l] = s] /\ login' = login
        /\ UNCHANGED <<password, secret, mfaEnabled, change, confirm, confirmed, crossed>>
    BY <1>6, <2>1, Zenon DEF EndSession
  <2>4. QED
    BY <1>1, <2>2, <2>3, LoginStep, Zenon DEF LoginOK
<1>7. QED
  BY <1>2, <1>3, <1>4, <1>5, <1>6

\* The check of the current password, and the end of a change that fails, take
\* no session into account.
LEMMA ChangeStep ==
  ASSUME SessionsInv, NEW h \in Changes, VerifyCurrent(h) \/ RollBackChange(h)
  PROVE  SessionsInv'
<1>1. change[h] \in Change /\ change \in [Changes -> Change]
  BY DEF SessionsInv, SessionsTypeOK
<1>2. PICK row \in Change :
        row.pc # "updated" /\ change' = [change EXCEPT ![h] = row]
  <2>1. CASE VerifyCurrent(h)
    <3>1. PICK y : y = [change[h] EXCEPT !.pc = "verified"]
      BY Zenon
    <3>2. y \in Change /\ y.pc # "updated"
      BY <1>1, <3>1 DEF Change
    <3>3. QED
      BY <2>1, <3>1, <3>2, Zenon DEF VerifyCurrent
  <2>2. CASE RollBackChange(h)
    <3>1. PICK y : y = [pc |-> "ended", revokes |-> {}]
      BY Zenon
    <3>2. y \in Change /\ y.pc # "updated"
      BY <3>1 DEF Change
    <3>3. QED
      BY <2>2, <3>1, <3>2, Zenon DEF RollBackChange
  <2>3. QED
    BY <2>1, <2>2
<1>3. UNCHANGED <<password, secret, mfaEnabled, login, session, confirm, confirmed, crossed>>
  BY Zenon DEF VerifyCurrent, RollBackChange
<1>4. \A i \in Changes : change'[i].pc = "updated" => change'[i] = change[i]
  BY <1>1, <1>2
<1>5. Changing' => Changing
  BY <1>4 DEF Changing
<1>6. SessionsTypeOK'
  BY <1>2, <1>3 DEF SessionsInv, SessionsTypeOK
<1>7. ASSUME NEW l \in Logins PROVE LoginOK(l)'
  BY <1>3, <1>5 DEF SessionsInv, LoginOK
<1>8. ASSUME NEW l \in Logins PROVE SessionOK(l)'
  BY <1>3, <1>4 DEF SessionsInv, SessionOK
<1>9. SecretsOK'
  BY <1>3 DEF SessionsInv, SecretsOK
<1>10. QED
  BY <1>6, <1>7, <1>8, <1>9, Zenon DEF SessionsInv

\* The updates of a change: every login in progress overlaps from here on, and
\* every session that is live will be revoked.
LEMMA UpdateKeeps ==
  ASSUME SessionsInv, NEW h \in Changes, UpdateRows(h)
  PROVE  SessionsInv'
<1>1. PICK row : row = [pc |-> "updated", revokes |-> Revokes]
  BY Zenon
<1>2. row \in Change /\ row.revokes = Revokes
  BY <1>1 DEF Change, Revokes
<1>3. /\ change' = [change EXCEPT ![h] = row]
      /\ UNCHANGED <<password, secret, mfaEnabled, session, confirm, confirmed, crossed>>
  BY <1>1, Zenon DEF UpdateRows
<1>4. change'[h] = row /\ \A i \in Changes \ {h} : change'[i] = change[i]
  BY <1>3 DEF SessionsInv, SessionsTypeOK
<1>5. ASSUME NEW l \in Logins
      PROVE  login'[l] \in Login /\ LoginOK(l)'
  <2>1. login[l] \in Login
    BY DEF SessionsInv, SessionsTypeOK
  <2>2. CASE login[l].pc \in InProgress
    <3>1. login'[l] = [login[l] EXCEPT !.overlaps = TRUE]
      BY <2>2 DEF UpdateRows, InProgress
    <3>2. login'[l] \in Login /\ login'[l].overlaps
      BY <2>1, <3>1, Zenon DEF Login
    <3>3. QED
      BY <3>2, Zenon DEF LoginOK
  <2>3. CASE login[l].pc \notin InProgress
    <3>1. login'[l] = login[l]
      BY <2>3 DEF UpdateRows, InProgress
    <3>2. QED
      BY <2>1, <2>3, <3>1, Zenon DEF LoginOK
  <2>4. QED
    BY <2>2, <2>3
<1>6. login' \in [Logins -> Login]
  <2>1. DOMAIN login' = Logins /\ login' = [l \in Logins |-> login'[l]]
    BY DEF UpdateRows
  <2>2. QED
    BY <1>5, <2>1
<1>7. SessionsTypeOK'
  BY <1>2, <1>3, <1>6 DEF SessionsInv, SessionsTypeOK
<1>8. ASSUME NEW l \in Logins PROVE SessionOK(l)'
  <2>1. SessionOK(l) /\ (session[l].live => l \in row.revokes)
    BY <1>2 DEF SessionsInv, Revokes
  <2>2. QED
    BY <1>3, <1>4, <2>1 DEF SessionOK
<1>9. SecretsOK'
  BY <1>3 DEF SessionsInv, SecretsOK
<1>10. QED
  BY <1>5, <1>7, <1>8, <1>9, Zenon DEF SessionsInv

\* The commit: what is live afterwards was not revoked, and so it overlapped.
LEMMA PasswordCommitKeeps ==
  ASSUME SessionsInv, NEW h \in Changes, CommitChange(h)
  PROVE  SessionsInv'
<1>1. PICK row : row = [pc |-> "ended", revokes |-> {}]
  BY Zenon
<1>2. row \in Change /\ row.pc = "ended"
  BY <1>1 DEF Change
<1>3. /\ change' = [change EXCEPT ![h] = row] /\ change[h].pc = "updated"
      /\ password' = password + 1 /\ password \in Nat
      /\ UNCHANGED <<secret, mfaEnabled, login, confirm, confirmed, crossed>>
  BY <1>1 DEF CommitChange, SessionsInv, SessionsTypeOK
<1>4. \A i \in Changes : change'[i].pc = "updated" => change'[i] = change[i]
  BY <1>2, <1>3 DEF SessionsInv, SessionsTypeOK
<1>5. Changing
  BY <1>3 DEF Changing
<1>6. ASSUME NEW l \in Logins
      PROVE  /\ session'[l] \in Session
             /\ session'[l].live => session'[l] = session[l] /\ l \notin change[h].revokes
  <2>1. session[l] \in Session
    BY DEF SessionsInv, SessionsTypeOK
  <2>2. CASE l \in change[h].revokes
    <3>1. session'[l] = [session[l] EXCEPT !.live = FALSE]
      BY <2>2 DEF CommitChange
    <3>2. session'[l] \in Session /\ ~session'[l].live
      BY <2>1, <3>1, Zenon DEF Session
    <3>3. QED
      BY <3>2, Zenon
  <2>3. CASE l \notin change[h].revokes
    BY <2>1, <2>3 DEF CommitChange
  <2>4. QED
    BY <2>2, <2>3
<1>7. session' \in [Logins -> Session]
  <2>1. DOMAIN session' = Logins /\ session' = [l \in Logins |-> session'[l]]
    BY DEF CommitChange
  <2>2. QED
    BY <1>6, <2>1
<1>8. SessionsTypeOK'
  BY <1>2, <1>3, <1>7 DEF SessionsInv, SessionsTypeOK
<1>9. ASSUME NEW l \in Logins PROVE LoginOK(l)'
  <2>1. LoginOK(l) /\ login' = login
    BY <1>3 DEF SessionsInv
  <2>2. QED
    BY <1>5, <2>1, Zenon DEF LoginOK
<1>10. ASSUME NEW l \in Logins PROVE SessionOK(l)'
  <2>1. session'[l].live => session'[l].overlaps
    BY <1>3, <1>6 DEF SessionsInv, SessionOK
  <2>2. QED
    BY <2>1, Zenon DEF SessionOK
<1>11. SecretsOK'
  BY <1>3 DEF SessionsInv, SecretsOK
<1>12. QED
  BY <1>8, <1>9, <1>10, <1>11, Zenon DEF SessionsInv

\* Enrolment and confirmation of a secret.
LEMMA SecretKeeps ==
  ASSUME SessionsInv,
         MfaEnroll \/ \E h \in Confirms : VerifyCode(h) \/ EnableMfa(h)
  PROVE  SessionsInv'
<1>1. UNCHANGED <<password, login, session, change>>
  BY Zenon DEF MfaEnroll, VerifyCode, EnableMfa
<1>2. /\ secret \in 0 .. MaxSecrets /\ confirm \in [Confirms -> 0 .. MaxSecrets]
      /\ confirmed \subseteq 1 .. MaxSecrets /\ SecretsOK /\ MaxSecrets \in Nat
      /\ mfaEnabled \in BOOLEAN /\ crossed \in BOOLEAN
  BY SessionConstants DEF SessionsInv, SessionsTypeOK
<1>3. /\ secret' \in 0 .. MaxSecrets /\ confirm' \in [Confirms -> 0 .. MaxSecrets]
      /\ confirmed' \subseteq 1 .. MaxSecrets /\ SecretsOK'
      /\ mfaEnabled' \in BOOLEAN /\ crossed' \in BOOLEAN
  <2>1. CASE MfaEnroll
    <3>1. /\ secret' = secret + 1 /\ secret < MaxSecrets /\ mfaEnabled' = FALSE
          /\ confirm' = confirm /\ confirmed' = confirmed
      BY <2>1 DEF MfaEnroll
    <3>2. /\ crossed' \in BOOLEAN
          /\ \A h \in Confirms : confirm[h] # 0 => crossed'
      BY <1>2, <2>1, Zenon DEF MfaEnroll
    <3>3. SecretsOK'
      BY <3>1, <3>2, Zenon DEF SecretsOK
    <3>4. secret' \in 0 .. MaxSecrets
      BY <1>2, <3>1
    <3>5. QED
      BY <1>2, <3>1, <3>2, <3>3, <3>4, Zenon
  <2>2. ASSUME NEW h \in Confirms, VerifyCode(h)
        PROVE  confirm' \in [Confirms -> 0 .. MaxSecrets] /\ SecretsOK'
    BY <1>2, <2>2 DEF VerifyCode, SecretsOK
  <2>3. ASSUME NEW h \in Confirms, EnableMfa(h)
        PROVE  /\ confirm' \in [Confirms -> 0 .. MaxSecrets]
               /\ confirmed' \subseteq 1 .. MaxSecrets /\ SecretsOK'
    <3>1. /\ confirm[h] \in 1 .. MaxSecrets /\ confirm[h] # 0 /\ mfaEnabled' = TRUE
          /\ confirmed' = confirmed \cup {confirm[h]}
          /\ confirm' = [confirm EXCEPT ![h] = 0]
          /\ secret' = secret /\ crossed' = crossed
      BY <1>2, <2>3 DEF EnableMfa
    <3>2. confirm' \in [Confirms -> 0 .. MaxSecrets] /\ confirmed' \subseteq 1 .. MaxSecrets
      <4>1. 0 \in 0 .. MaxSecrets
        BY <1>2
      <4>2. QED
        BY <1>2, <3>1, <4>1, Zenon
    <3>3. secret \in confirmed' \/ crossed
      BY <1>2, <3>1, Zenon DEF SecretsOK
    <3>4. \A i \in Confirms : confirm'[i] # 0 => confirm'[i] = confirm[i]
      BY <1>2, <3>1
    <3>5. SecretsOK'
      BY <1>2, <3>1, <3>3, <3>4, Zenon DEF SecretsOK
    <3>6. QED
      BY <3>2, <3>5
  <2>4. QED
    BY <1>2, <2>1, <2>2, <2>3, Zenon DEF VerifyCode, EnableMfa
<1>4. SessionsTypeOK'
  BY <1>1, <1>3 DEF SessionsInv, SessionsTypeOK
<1>5. \A l \in Logins : LoginOK(l)' /\ SessionOK(l)'
  BY <1>1, Zenon DEF SessionsInv, LoginOK, SessionOK, Changing
<1>6. QED
  BY <1>3, <1>4, <1>5, Zenon DEF SessionsInv

\* Every reachable state satisfies the invariant.
LEMMA SessionsInvHolds == SessionsSpec => []SessionsInv
<1>1. SessionsInit => SessionsInv
  <2>1. SUFFICES ASSUME SessionsInit PROVE SessionsInv
    OBVIOUS
  <2>2. SessionsTypeOK
    <3>1. password \in Nat /\ secret \in 0 .. MaxSecrets
          /\ confirm \in [Confirms -> 0 .. MaxSecrets] /\ confirmed \subseteq 1 .. MaxSecrets
      BY <2>1, SessionConstants DEF SessionsInit
    <3>2. NoSession \in Session
      BY DEF NoSession, Session
    <3>3. /\ [pc |-> "none", password |-> 0, overlaps |-> FALSE] \in Login
          /\ [pc |-> "none", revokes |-> {}] \in Change
      BY DEF Login, Change
    <3>4. /\ mfaEnabled \in BOOLEAN /\ crossed \in BOOLEAN
          /\ login \in [Logins -> Login] /\ session \in [Logins -> Session]
          /\ change \in [Changes -> Change]
      BY <2>1, <3>2, <3>3, Zenon DEF SessionsInit
    <3>5. QED
      BY <3>1, <3>4, Zenon DEF SessionsTypeOK
  <2>3. \A l \in Logins : login[l].pc = "none" /\ ~session[l].live
    BY <2>1, Zenon DEF SessionsInit, NoSession
  <2>4. \A l \in Logins : LoginOK(l) /\ SessionOK(l)
    BY <2>3, Zenon DEF LoginOK, SessionOK, InProgress
  <2>5. SecretsOK
    BY <2>1 DEF SessionsInit, SecretsOK
  <2>6. QED
    BY <2>2, <2>4, <2>5, Zenon DEF SessionsInv
<1>2. SessionsInv /\ [SessionsNext]_sessionVars => SessionsInv'
  <2>1. ASSUME SessionsInv, UNCHANGED sessionVars PROVE SessionsInv'
    BY <2>1, Zenon DEF SessionsInv, SessionsTypeOK, LoginOK, SessionOK, SecretsOK, Changing,
                sessionVars
  <2>2. QED
    BY <2>1, LoginKeeps, ChangeStep, UpdateKeeps, PasswordCommitKeeps, SecretKeeps, Zenon
       DEF SessionsNext
<1>3. QED
  BY <1>1, <1>2, PTL DEF SessionsSpec

\* Users, sessions, secrets and the requests on them keep their types.
THEOREM SessionsTypeCorrect == SessionsSpec => []SessionsTypeOK
<1>1. SessionsInv => SessionsTypeOK
  BY Zenon DEF SessionsInv
<1>2. QED
  BY <1>1, SessionsInvHolds, PTL

\* A change of the password leaves no older session live but those whose login
\* it overlapped, however many changes and logins run at once (ChangePassword,
\* Authenticate, CreateSession).
THEOREM OldSessionsEnd == SessionsSpec => []OlderSessionsOverlapped
<1>1. SessionsInv => OlderSessionsOverlapped
  BY Zenon DEF SessionsInv, SessionOK, OlderSessionsOverlapped
<1>2. QED
  BY <1>1, SessionsInvHolds, PTL

\* The secret in force was confirmed, unless an enrolment crossed a
\* confirmation (mfaEnroll, mfaConfirm).
THEOREM EnabledSecretsAreConfirmed == SessionsSpec => []EnabledSecretWasConfirmed
<1>1. SessionsInv => EnabledSecretWasConfirmed
  BY Zenon DEF SessionsInv, SecretsOK, EnabledSecretWasConfirmed
<1>2. QED
  BY <1>1, SessionsInvHolds, PTL
=============================================================================
