----------------------------- MODULE AccessReview -----------------------------
(***************************************************************************)
(* Access reviews: a campaign with one item per active grant, decisions on *)
(* the items by concurrent transactions, and the task that marks campaigns *)
(* OVERDUE.                                                                *)
(*                                                                         *)
(* The transaction of a decision is three steps: what it writes before its *)
(* last update (rows nobody else sees, under the lock of the item), the    *)
(* update that completes the campaign, which sees the items committed at   *)
(* that moment, and the commit.  A request of another user than the        *)
(* reviewer of the campaign changes nothing and is left out.               *)
(***************************************************************************)
EXTENDS Naturals

CONSTANTS
    Campaigns,  \* campaigns, by the identifier the handler generates
    Grants,     \* access grants
    Deciders    \* transactions of DecideReview at work at the same time

\* KEEP stands for the three decisions that propose nothing.
Decisions == {"KEEP", "REVOKE"}

VARIABLES
    campaign,   \* rows of access_review_campaigns
    item,       \* status of the rows of access_review_items
    decision,   \* rows of access_review_decisions
    proposals,  \* how often the outbox proposes to revoke a grant
    deciding,   \* open transactions
    raced       \* campaigns two transactions of which have overlapped

reviewVars == <<campaign, item, decision, proposals, deciding, raced>>

CampaignRow == [status : {"NONE", "ACTIVE", "OVERDUE", "COMPLETED"},
                past : BOOLEAN]   \* due_at < now()
NoDecision == [pc |-> "none"]
OpenDecision == [pc : {"decided", "tested"}, campaign : Campaigns,
                 grant : Grants, decision : Decisions, completes : BOOLEAN]

-----------------------------------------------------------------------------
\* One transaction; there may be no active grant at all.
CreateAccessReview(c, active) ==
    /\ campaign[c].status = "NONE"
    /\ campaign' = [campaign EXCEPT ![c].status = "ACTIVE"]
    /\ item' = [item EXCEPT ![c] = [g \in Grants |->
                  IF g \in active THEN "PENDING" ELSE "NONE"]]
    /\ UNCHANGED <<decision, proposals, deciding, raced>>

DueDatePasses(c) ==
    /\ campaign[c].status # "NONE" /\ ~campaign[c].past
    /\ campaign' = [campaign EXCEPT ![c].past = TRUE]
    /\ UNCHANGED <<item, decision, proposals, deciding, raced>>

\* A transaction that is about to complete a campaign holds the lock of its row.
CampaignLocked(c) ==
    \E t \in Deciders : deciding[t].pc = "tested" /\ deciding[t].campaign = c
                        /\ deciding[t].completes

\* One row of the update, which waits for a locked row and then tests its
\* status again.
MarkOverdue(c) ==
    /\ campaign[c].status = "ACTIVE" /\ campaign[c].past
    /\ ~CampaignLocked(c)
    /\ campaign' = [campaign EXCEPT ![c].status = "OVERDUE"]
    /\ UNCHANGED <<item, decision, proposals, deciding, raced>>

-----------------------------------------------------------------------------
InFlight(c) == {t \in Deciders : deciding[t] # NoDecision
                                 /\ deciding[t].campaign = c}

\* Mutant: nothing keeps a second decision out but the lock.
DecidableAgain(c, g) ==
    /\ item[c][g] # "NONE"
    /\ \A t \in InFlight(c) : deciding[t].grant # g

\* The lock of the item keeps out a second transaction, and the unique
\* constraint on item_id a second decision.  The status of the campaign is
\* not looked at.
Decidable(c, g) ==
    /\ item[c][g] # "NONE"
    /\ decision[c][g] = "NONE"
    /\ \A t \in InFlight(c) : deciding[t].grant # g

DecideItem(t, c, g, d) ==
    /\ deciding[t] = NoDecision
    /\ Decidable(c, g)
    /\ deciding' = [deciding EXCEPT ![t] =
                      [pc |-> "decided", campaign |-> c, grant |-> g,
                       decision |-> d, completes |-> FALSE]]
    /\ UNCHANGED <<campaign, item, decision, proposals, raced>>

\* The items the update sees as DECIDED: the committed ones and its own.
SeesDecided(t, g) ==
    LET c == deciding[t].campaign IN
    item[c][g] \in {"NONE", "DECIDED"} \/ deciding[t].grant = g

\* Mutant: the transaction does not count the item it decides.
CompleteOnOthers(t) ==
    LET c == deciding[t].campaign IN
    /\ deciding[t].pc = "decided"
    /\ deciding' = [deciding EXCEPT
                      ![t].pc = "tested",
                      ![t].completes = \A g \in Grants : item[c][g] # "PENDING"]
    /\ raced' = IF InFlight(c) = {t} THEN raced ELSE raced \cup {c}
    /\ UNCHANGED <<campaign, item, decision, proposals>>

CompleteCampaign(t) ==
    LET c == deciding[t].campaign IN
    /\ deciding[t].pc = "decided"
    /\ deciding' = [deciding EXCEPT
                      ![t].pc = "tested",
                      ![t].completes = \A g \in Grants : SeesDecided(t, g)]
    /\ raced' = IF InFlight(c) = {t} THEN raced ELSE raced \cup {c}
    /\ UNCHANGED <<campaign, item, decision, proposals>>

CommitDecision(t) ==
    LET tx == deciding[t] IN
    /\ tx.pc = "tested"
    /\ item' = [item EXCEPT ![tx.campaign][tx.grant] = "DECIDED"]
    /\ decision' = [decision EXCEPT ![tx.campaign][tx.grant] = tx.decision]
    /\ proposals' = IF tx.decision = "REVOKE"
                    THEN [proposals EXCEPT ![tx.campaign][tx.grant] = @ + 1]
                    ELSE proposals
    /\ campaign' = IF tx.completes
                   THEN [campaign EXCEPT ![tx.campaign].status = "COMPLETED"]
                   ELSE campaign
    /\ deciding' = [deciding EXCEPT ![t] = NoDecision]
    /\ UNCHANGED raced

\* A statement fails, the request is cancelled or the process stops.
RollBackDecision(t) ==
    /\ deciding[t] # NoDecision
    /\ deciding' = [deciding EXCEPT ![t] = NoDecision]
    /\ UNCHANGED <<campaign, item, decision, proposals, raced>>

-----------------------------------------------------------------------------
ReviewInit ==
    /\ campaign = [c \in Campaigns |-> [status |-> "NONE", past |-> FALSE]]
    /\ item = [c \in Campaigns |-> [g \in Grants |-> "NONE"]]
    /\ decision = [c \in Campaigns |-> [g \in Grants |-> "NONE"]]
    /\ proposals = [c \in Campaigns |-> [g \in Grants |-> 0]]
    /\ deciding = [t \in Deciders |-> NoDecision]
    /\ raced = {}

EndDecision(t) == CommitDecision(t) \/ RollBackDecision(t)

ReviewNext ==
    \/ \E c \in Campaigns, active \in SUBSET Grants : CreateAccessReview(c, active)
    \/ \E c \in Campaigns : DueDatePasses(c) \/ MarkOverdue(c)
    \/ \E t \in Deciders, c \in Campaigns, g \in Grants, d \in Decisions :
         DecideItem(t, c, g, d)
    \/ \E t \in Deciders : CompleteCampaign(t) \/ EndDecision(t)

ReviewSpec == ReviewInit /\ [][ReviewNext]_reviewVars

-----------------------------------------------------------------------------
(* Properties. *)

\* The values of the columns and of the transactions.
ReviewTypeOK ==
    /\ campaign \in [Campaigns -> CampaignRow]
    /\ item \in [Campaigns -> [Grants -> {"NONE", "PENDING", "DECIDED"}]]
    /\ decision \in [Campaigns -> [Grants -> {"NONE"} \cup Decisions]]
    /\ proposals \in [Campaigns -> [Grants -> Nat]]
    /\ deciding \in [Deciders -> {NoDecision} \cup OpenDecision]
    /\ raced \subseteq Campaigns

\* A campaign is COMPLETED only when every item of it is decided, although the
\* update tests what other transactions have committed so far; and one whose
\* items are all decided is left open only if it has no items, or if two of its
\* decisions were in flight at once: neither update then saw the other's item,
\* and nothing completes the campaign later.
CompletionFollowsItems ==
    \A c \in Campaigns :
      /\ campaign[c].status = "COMPLETED" => \A g \in Grants : item[c][g] # "PENDING"
      /\ /\ campaign[c].status \in {"ACTIVE", "OVERDUE"}
         /\ InFlight(c) = {}
         /\ \A g \in Grants : item[c][g] # "PENDING"
         => c \in raced \/ \A g \in Grants : item[c][g] = "NONE"

\* Exactly one revocation is proposed for each decision to revoke that was
\* stored, and none for any other, whatever is rolled back or tried again.
RevocationsAreProposed ==
    \A c \in Campaigns, g \in Grants :
      proposals[c][g] = IF decision[c][g] = "REVOKE" THEN 1 ELSE 0
=============================================================================
