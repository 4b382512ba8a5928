------------------------------- MODULE Campaigns -------------------------------
(***************************************************************************)
(* One promotional campaign: the accounts that claim it at sign-up, at     *)
(* e-mail verification and at sign-in, and the administrators who edit it  *)
(* meanwhile.  Each action is one statement, or one transaction that       *)
(* touches no other shared row than its own insert.                        *)
(*                                                                         *)
(* A Claim is one pass of applyEligible over this campaign for one user,   *)
(* an Edit one call of update or setStatus.  Either may stop for good      *)
(* between two statements (a failed query, a dead node): no fairness.      *)
(***************************************************************************)
EXTENDS Integers, FiniteSets

CONSTANTS User, Claim, Edit,
          Amount,   \* token amounts of the campaign
          Cap,      \* values of maxGrants
          None      \* maxGrants null; a field an edit leaves alone

ASSUME ClaimAssumption == IsFiniteSet(Claim)
ASSUME CapAssumption == Cap \subseteq Nat \ {0}
ASSUME NoneAssumption == None \notin User \cup Claim \cup Amount \cup Cap

Statuses == {"DRAFT", "ACTIVE", "PAUSED", "ENDED"}

VARIABLES
    status, tokens, cap, issued,  \* the TokenCampaign row
    caps,      \* history: every maxGrants the campaign has had
    granted,   \* TokenGrant of each user: the claim that made it, its tokens
    pc, who,   \* where each claim is, and its user
    ctokens, ccap,  \* the campaign's tokens and maxGrants when it read them
    epc, edit  \* where each edit is, and what it writes

campaign == <<status, tokens, cap, caps>>
claims   == <<pc, who, ctokens, ccap>>
edits    == <<epc, edit>>
vars     == <<campaign, issued, granted, claims, edits>>

--------------------------------------------------------------------------------
NoGrant == [by |-> None, tokens |-> None]
NoEdit  == [status |-> None, tokens |-> None, setsCap |-> FALSE, cap |-> None]

Init ==
    /\ status = "DRAFT"
    /\ tokens \in Amount
    /\ cap \in Cap \cup {None}
    /\ caps = {cap}
    /\ issued = 0
    /\ granted = [u \in User |-> NoGrant]
    /\ pc = [c \in Claim |-> "idle"]
    /\ who = [c \in Claim |-> None]
    /\ ctokens = [c \in Claim |-> None]
    /\ ccap = [c \in Claim |-> None]
    /\ epc = [e \in Edit |-> "idle"]
    /\ edit = [e \in Edit |-> NoEdit]

--------------------------------------------------------------------------------
(* Claims *)

Goto(c, label) == pc' = [pc EXCEPT ![c] = label]
At(c, label) == pc[c] = label

(* grantsIssued < maxGrants, or no cap. *)
Under(n, limit) == limit # None => n < limit

HasGrant(u) == granted[u] # NoGrant

(* liveCampaigns and the pre-filters of applyEligible; the window, the     *)
(* audience and the e-mail verification are conditions on the user alone.  *)
Eligible(c, u) ==
    /\ At(c, "idle")
    /\ status = "ACTIVE"
    /\ Under(issued, cap)
    /\ who' = [who EXCEPT ![c] = u]
    /\ Goto(c, "read")
    /\ UNCHANGED <<campaign, issued, granted, ctokens, ccap, edits>>

ReadCampaign(c) ==
    /\ At(c, "read")
    /\ ctokens' = [ctokens EXCEPT ![c] = tokens]
    /\ ccap' = [ccap EXCEPT ![c] = cap]
    /\ Goto(c, "existing")
    /\ UNCHANGED <<campaign, issued, granted, who, edits>>

(* The early exit of a user who has the grant. *)
Existing(c) ==
    /\ At(c, "existing")
    /\ Goto(c, IF HasGrant(who[c]) THEN "refused" ELSE "reserve")
    /\ UNCHANGED <<campaign, issued, granted, who, ctokens, ccap, edits>>

(* MUTANT of Reserve: trusts the pre-filter. *)
ReserveUnguarded(c) ==
    /\ At(c, "reserve")
    /\ IF status = "ACTIVE" THEN issued' = issued + 1 /\ Goto(c, "grant")
                            ELSE UNCHANGED issued /\ Goto(c, "refused")
    /\ UNCHANGED <<campaign, granted, who, ctokens, ccap, edits>>

(* The conditional UPDATE compares with the cap read above, not the row's. *)
Reserve(c) ==
    /\ At(c, "reserve")
    /\ IF status = "ACTIVE" /\ Under(issued, ccap[c])
       THEN issued' = issued + 1 /\ Goto(c, "grant")
       ELSE UNCHANGED issued /\ Goto(c, "refused")
    /\ UNCHANGED <<campaign, granted, who, ctokens, ccap, edits>>

Insert(c) ==
    granted' = [granted EXCEPT ![who[c]] = [by |-> c, tokens |-> ctokens[c]]]

(* MUTANT of Grant: no unique index on (campaign, user). *)
GrantAgain(c) ==
    /\ At(c, "grant")
    /\ \/ Insert(c) /\ Goto(c, "granted")
       \/ UNCHANGED granted /\ Goto(c, "release")
    /\ UNCHANGED <<campaign, issued, who, ctokens, ccap, edits>>

(* MUTANT of Grant: a claim that lost the race keeps its slot. *)
GrantLeaky(c) ==
    /\ At(c, "grant")
    /\ \/ ~HasGrant(who[c]) /\ Insert(c) /\ Goto(c, "granted")
       \/ UNCHANGED granted /\ Goto(c, "refused")
    /\ UNCHANGED <<campaign, issued, who, ctokens, ccap, edits>>

(* The transaction inserts the grant and credits the account: the unique   *)
(* index lets the first of two claims commit.  The other one, and one      *)
(* whose transaction fails, roll back.                                     *)
Grant(c) ==
    /\ At(c, "grant")
    /\ \/ ~HasGrant(who[c]) /\ Insert(c) /\ Goto(c, "granted")
       \/ UNCHANGED granted /\ Goto(c, "release")
    /\ UNCHANGED <<campaign, issued, who, ctokens, ccap, edits>>

(* Floored at zero; an error is logged and the slot is lost. *)
ReleaseSlot(c) ==
    /\ At(c, "release")
    /\ \/ issued' = (IF issued > 0 THEN issued - 1 ELSE issued) /\ Goto(c, "refused")
       \/ UNCHANGED issued /\ Goto(c, "lost")
    /\ UNCHANGED <<campaign, granted, who, ctokens, ccap, edits>>

--------------------------------------------------------------------------------
(* Administration: read, check, and an update by id alone *)

Open(e, change) ==
    /\ epc[e] = "idle"
    /\ edit' = [edit EXCEPT ![e] = change]
    /\ epc' = [epc EXCEPT ![e] = "write"]
    /\ UNCHANGED <<campaign, issued, granted, claims>>

(* An ended campaign cannot be restarted. *)
SetStatus(e, s) == status # "ENDED" /\ Open(e, [NoEdit EXCEPT !.status = s])

(* The amount is locked once the campaign has granted. *)
UpdateTokens(e, n) == issued = 0 /\ Open(e, [NoEdit EXCEPT !.tokens = n])

UpdateCap(e, limit) == Open(e, [NoEdit EXCEPT !.setsCap = TRUE, !.cap = limit])

Write(e) ==
    /\ epc[e] = "write"
    /\ status' = IF edit[e].status = None THEN status ELSE edit[e].status
    /\ tokens' = IF edit[e].tokens = None THEN tokens ELSE edit[e].tokens
    /\ cap' = IF edit[e].setsCap THEN edit[e].cap ELSE cap
    /\ caps' = caps \cup {cap'}
    /\ epc' = [epc EXCEPT ![e] = "idle"]
    /\ edit' = [edit EXCEPT ![e] = NoEdit]
    /\ UNCHANGED <<issued, granted, claims>>

--------------------------------------------------------------------------------
ClaimStep(c) ==
    \/ ReadCampaign(c) \/ Existing(c) \/ Reserve(c) \/ Grant(c) \/ ReleaseSlot(c)

EditStep(e) ==
    \/ \E s \in Statuses : SetStatus(e, s)
    \/ \E n \in Amount : UpdateTokens(e, n)
    \/ \E limit \in Cap \cup {None} : UpdateCap(e, limit)
    \/ Write(e)

Next ==
    \/ \E c \in Claim : (\E u \in User : Eligible(c, u)) \/ ClaimStep(c)
    \/ \E e \in Edit : EditStep(e)

Spec == Init /\ [][Next]_vars

--------------------------------------------------------------------------------
(* Properties *)

ClaimLabels == {"idle", "read", "existing", "reserve", "grant", "release",
                "granted", "refused", "lost"}

(* Every variable has its type. *)
TypeOK ==
    /\ status \in Statuses
    /\ tokens \in Amount
    /\ cap \in Cap \cup {None}
    /\ caps \subseteq Cap \cup {None}
    /\ issued \in Nat
    /\ granted \in [User -> [by : Claim \cup {None}, tokens : Amount \cup {None}]]
    /\ pc \in [Claim -> ClaimLabels]
    /\ who \in [Claim -> User \cup {None}]
    /\ ctokens \in [Claim -> Amount \cup {None}]
    /\ ccap \in [Claim -> Cap \cup {None}]
    /\ epc \in [Edit -> {"idle", "write"}]
    /\ edit \in [Edit -> [status : Statuses \cup {None}, tokens : Amount \cup {None},
                          setsCap : BOOLEAN, cap : Cap \cup {None}]]

(* Claims that hold a slot, turned it into a grant, or failed to return it. *)
SlotHolders == {c \in Claim : pc[c] \in {"grant", "release", "granted", "lost"}}

(* grantsIssued counts exactly the slots in use: a claim that loses the    *)
(* race for a user, or whose transaction fails, gives back one slot, and   *)
(* never somebody else's (campaigns.service.ts, claim).                    *)
SlotsAccountedFor == issued = Cardinality(SlotHolders)

(* Exactly once per user, however many requests claim at once: no two      *)
(* claims of a user both report the grant (campaigns.service.ts, rule 1).  *)
OncePerUser ==
    \A c, d \in Claim :
        pc[c] = "granted" /\ pc[d] = "granted" /\ who[c] = who[d] => c = d

Recipients == {u \in User : HasGrant(u)}

(* The cap is never exceeded (campaigns.service.ts, rule 2): no more users *)
(* have the grant than the widest cap the campaign has had allows.         *)
WithinCap ==
    \E limit \in caps : limit = None \/ Cardinality(Recipients) <= limit

--------------------------------------------------------------------------------
(* What comments say and the code does not do *)

(* campaigns.service.ts:323: the amount is locked once the campaign has    *)
(* granted, or "two people got different things from the same named        *)
(* promotion".                                                             *)
OneAmount ==
    \A u, v \in Recipients : granted[u].tokens = granted[v].tokens
================================================================================
