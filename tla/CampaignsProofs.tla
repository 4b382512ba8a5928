---------------------------- MODULE CampaignsProofs ----------------------------
(***************************************************************************)
(* Theorems of Campaigns, for any users, claims, edits, amounts and caps.  *)
(***************************************************************************)
EXTENDS Campaigns, FiniteSetTheorems, TLAPS

(* A grant names the claim that made it, and that claim its user. *)
GrantInv ==
    /\ \A c \in Claim : pc[c] # "idle" => who[c] \in User
    /\ \A u \in User : HasGrant(u) =>
          LET c == granted[u].by IN c \in Claim /\ pc[c] = "granted" /\ who[c] = u
    /\ \A c \in Claim : pc[c] = "granted" => granted[who[c]].by = c

(* Every cap in use is one the campaign has had, and one of them bounds    *)
(* the slots.                                                              *)
CapInv ==
    /\ cap \in caps
    /\ \A c \in Claim : pc[c] \in {"existing", "reserve"} => ccap[c] \in caps
    /\ \E limit \in caps : limit # None => issued <= limit

CampaignInv == TypeOK /\ SlotsAccountedFor /\ GrantInv /\ CapInv
--------------------------------------------------------------------------------
LEMMA SlotHoldersFinite ==
    IsFiniteSet(SlotHolders) /\ Cardinality(SlotHolders) \in Nat
  BY ClaimAssumption, FS_Subset, FS_CardinalityType DEF SlotHolders

LEMMA InitInv == Init => CampaignInv
<1> SUFFICES ASSUME Init PROVE CampaignInv
  OBVIOUS
<1>1. TypeOK
  BY DEF Init, TypeOK, Statuses, NoGrant, NoEdit, ClaimLabels
<1>2. SlotHolders = {}
  BY DEF Init, SlotHolders
<1>3. SlotsAccountedFor
  BY <1>2, FS_EmptySet DEF Init, SlotsAccountedFor
<1>4. GrantInv
  BY DEF Init, GrantInv, HasGrant
<1>5. CapInv
  BY CapAssumption DEF Init, CapInv
<1> QED
  BY <1>1, <1>3, <1>4, <1>5 DEF CampaignInv

LEMMA TypeStep ==
    ASSUME TypeOK, [Next]_vars
    PROVE  TypeOK'
<1> USE DEF TypeOK, ClaimLabels, Statuses, campaign, claims, edits
<1>1. CASE UNCHANGED vars
  BY <1>1 DEF vars
<1>2. ASSUME NEW c \in Claim, NEW u \in User, Eligible(c, u) PROVE TypeOK'
  BY <1>2 DEF Eligible, Goto
<1>3. ASSUME NEW c \in Claim, ReadCampaign(c) \/ Existing(c) PROVE TypeOK'
  BY <1>3 DEF ReadCampaign, Existing, Goto
<1>4. ASSUME NEW c \in Claim, Reserve(c) PROVE TypeOK'
  BY <1>4 DEF Reserve, Goto
<1>5. ASSUME NEW c \in Claim, Grant(c) PROVE TypeOK'
  <2>1. granted' \in [User -> [by : Claim \cup {None}, tokens : Amount \cup {None}]]
    <3>1. [by |-> c, tokens |-> ctokens[c]] \in [by : Claim \cup {None}, tokens : Amount \cup {None}]
      OBVIOUS
    <3> QED
      BY <1>5, <3>1 DEF Grant, Insert
  <2> QED
    BY <1>5, <2>1 DEF Grant, Goto
<1>6. ASSUME NEW c \in Claim, ReleaseSlot(c) PROVE TypeOK'
  BY <1>6 DEF ReleaseSlot, Goto
<1>7. ASSUME NEW e \in Edit, EditStep(e) PROVE TypeOK'
  <2>1. ASSUME NEW s \in Statuses, SetStatus(e, s) PROVE TypeOK'
    BY <2>1 DEF SetStatus, Open, NoEdit
  <2>2. ASSUME NEW n \in Amount, UpdateTokens(e, n) PROVE TypeOK'
    BY <2>2 DEF UpdateTokens, Open, NoEdit
  <2>3. ASSUME NEW limit \in Cap \cup {None}, UpdateCap(e, limit) PROVE TypeOK'
    BY <2>3 DEF UpdateCap, Open, NoEdit
  <2>4. CASE Write(e)
    BY <2>4 DEF Write, NoEdit
  <2> QED
    BY <1>7, <2>1, <2>2, <2>3, <2>4 DEF EditStep
<1> QED
  BY <1>1, <1>2, <1>3, <1>4, <1>5, <1>6, <1>7 DEF Next, ClaimStep

(* A claim that moves between two labels that hold no slot, or two that do. *)
LEMMA SlotsStep ==
    ASSUME TypeOK, SlotsAccountedFor, [Next]_vars
    PROVE  SlotsAccountedFor'
<1> USE DEF TypeOK, Goto, At
<1>1. CASE UNCHANGED <<issued, SlotHolders>>
  BY <1>1 DEF SlotsAccountedFor
<1>2. ASSUME NEW c \in Claim, issued' = issued + 1,
             c \notin SlotHolders, SlotHolders' = SlotHolders \cup {c}
      PROVE  SlotsAccountedFor'
  BY <1>2, SlotHoldersFinite, FS_AddElement DEF SlotsAccountedFor
<1>3. ASSUME NEW c \in Claim, issued' = (IF issued > 0 THEN issued - 1 ELSE issued),
             c \in SlotHolders, SlotHolders' = SlotHolders \ {c}
      PROVE  SlotsAccountedFor'
  <2>1. Cardinality(SlotHolders \ {c}) = Cardinality(SlotHolders) - 1
    BY <1>3, SlotHoldersFinite, FS_RemoveElement
  <2>2. Cardinality(SlotHolders \ {c}) \in Nat
    BY SlotHoldersFinite, FS_RemoveElement, FS_CardinalityType
  <2> QED
    BY <1>3, <2>1, <2>2 DEF SlotsAccountedFor
<1>4. ASSUME NEW c \in Claim, \E u \in User : Eligible(c, u) PROVE SlotsAccountedFor'
  BY <1>1, <1>4 DEF Eligible, SlotHolders
<1>5. ASSUME NEW c \in Claim, ReadCampaign(c) \/ Existing(c) PROVE SlotsAccountedFor'
  BY <1>1, <1>5 DEF ReadCampaign, Existing, SlotHolders
<1>6. ASSUME NEW c \in Claim, Reserve(c) PROVE SlotsAccountedFor'
  <2>1. CASE issued' = issued + 1 /\ Goto(c, "grant")
    BY <1>2, <1>6, <2>1 DEF Reserve, SlotHolders
  <2>2. CASE UNCHANGED issued /\ Goto(c, "refused")
    BY <1>1, <1>6, <2>2 DEF Reserve, SlotHolders
  <2> QED
    BY <1>6, <2>1, <2>2 DEF Reserve
<1>7. ASSUME NEW c \in Claim, Grant(c) PROVE SlotsAccountedFor'
  BY <1>1, <1>7 DEF Grant, SlotHolders
<1>8. ASSUME NEW c \in Claim, ReleaseSlot(c) PROVE SlotsAccountedFor'
  <2>1. CASE issued' = (IF issued > 0 THEN issued - 1 ELSE issued) /\ Goto(c, "refused")
    BY <1>3, <1>8, <2>1 DEF ReleaseSlot, SlotHolders
  <2>2. CASE UNCHANGED issued /\ Goto(c, "lost")
    BY <1>1, <1>8, <2>2 DEF ReleaseSlot, SlotHolders
  <2> QED
    BY <1>8, <2>1, <2>2 DEF ReleaseSlot
<1>9. ASSUME NEW e \in Edit, EditStep(e) PROVE SlotsAccountedFor'
  BY <1>1, <1>9 DEF EditStep, SetStatus, UpdateTokens, UpdateCap, Open, Write, claims, SlotHolders
<1>10. CASE UNCHANGED vars
  BY <1>1, <1>10 DEF vars, claims, SlotHolders
<1> QED
  BY <1>4, <1>5, <1>6, <1>7, <1>8, <1>9, <1>10 DEF Next, ClaimStep

LEMMA GrantStep ==
    ASSUME TypeOK, GrantInv, [Next]_vars
    PROVE  GrantInv'
<1> USE NoneAssumption DEF TypeOK, GrantInv, HasGrant, Goto, At
<1>1. CASE UNCHANGED <<granted, pc, who>>
  BY <1>1
<1>2. ASSUME NEW c \in Claim, NEW u \in User, Eligible(c, u) PROVE GrantInv'
  BY <1>2 DEF Eligible
<1>3. ASSUME NEW c \in Claim, UNCHANGED <<granted, who>>, pc[c] \notin {"idle", "granted"},
             NEW label \in ClaimLabels \ {"idle", "granted"}, Goto(c, label)
      PROVE  GrantInv'
  BY <1>3
<1>4. ASSUME NEW c \in Claim, Grant(c), ~HasGrant(who[c]), Insert(c), Goto(c, "granted")
      PROVE  GrantInv'
  <2>1. /\ who[c] \in User /\ UNCHANGED who /\ pc[c] = "grant"
        /\ pc' = [pc EXCEPT ![c] = "granted"]
        /\ granted' = [granted EXCEPT ![who[c]] = [by |-> c, tokens |-> ctokens[c]]]
    BY <1>4 DEF Grant, Insert
  <2>2. \A d \in Claim : pc[d] = "granted" => who[d] # who[c]
    BY <1>4 DEF NoGrant
  <2> QED
    BY <2>1, <2>2
<1>5. ASSUME NEW c \in Claim, ClaimStep(c) PROVE GrantInv'
  BY <1>3, <1>4, <1>5 DEF ClaimStep, ReadCampaign, Existing, Reserve, Grant, ReleaseSlot, ClaimLabels
<1>6. ASSUME NEW e \in Edit, EditStep(e) PROVE GrantInv'
  BY <1>1, <1>6 DEF EditStep, SetStatus, UpdateTokens, UpdateCap, Open, Write, claims
<1>7. CASE UNCHANGED vars
  BY <1>1, <1>7 DEF vars, claims
<1> QED
  BY <1>2, <1>5, <1>6, <1>7 DEF Next

LEMMA CapStep ==
    ASSUME TypeOK, CapInv, [Next]_vars
    PROVE  CapInv'
<1> USE CapAssumption, NoneAssumption DEF TypeOK, CapInv, Goto, At, campaign, claims
<1>1. CASE UNCHANGED <<campaign, issued, pc, ccap>>
  BY <1>1
<1>2. ASSUME NEW c \in Claim, NEW u \in User, Eligible(c, u) PROVE CapInv'
  BY <1>2 DEF Eligible
<1>3. ASSUME NEW c \in Claim, ReadCampaign(c) \/ Existing(c) \/ Grant(c) PROVE CapInv'
  BY <1>3 DEF ReadCampaign, Existing, Grant
<1>4. ASSUME NEW c \in Claim, Reserve(c) PROVE CapInv'
  <2>1. CASE Under(issued, ccap[c]) /\ issued' = issued + 1 /\ Goto(c, "grant")
    <3>1. ccap[c] \in caps /\ (ccap[c] # None => ccap[c] \in Nat)
      BY <1>4 DEF Reserve
    <3>2. ccap[c] # None => issued + 1 <= ccap[c]
      BY <2>1, <3>1 DEF Under
    <3> QED
      BY <1>4, <2>1, <3>1, <3>2 DEF Reserve
  <2>2. CASE UNCHANGED issued /\ Goto(c, "refused")
    BY <1>4, <2>2 DEF Reserve
  <2> QED
    BY <1>4, <2>1, <2>2 DEF Reserve
<1>5. ASSUME NEW c \in Claim, ReleaseSlot(c) PROVE CapInv'
  <2>1. issued' <= issued /\ issued' \in Int /\ UNCHANGED <<campaign, ccap>>
    BY <1>5 DEF ReleaseSlot
  <2>2. PICK limit \in caps : limit # None => issued <= limit
    OBVIOUS
  <2>3. limit # None => issued' <= limit
    BY <2>1, <2>2
  <2>4. pc' \in {[pc EXCEPT ![c] = "refused"], [pc EXCEPT ![c] = "lost"]}
    BY <1>5 DEF ReleaseSlot
  <2> QED
    BY <2>1, <2>2, <2>3, <2>4
<1>6. ASSUME NEW e \in Edit, EditStep(e) PROVE CapInv'
  <2>1. CASE Write(e)
    BY <2>1 DEF Write
  <2>2. CASE UNCHANGED <<campaign, issued, claims>>
    BY <1>1, <2>2
  <2> QED
    BY <1>6, <2>1, <2>2 DEF EditStep, SetStatus, UpdateTokens, UpdateCap, Open
<1>7. CASE UNCHANGED vars
  BY <1>1, <1>7 DEF vars
<1> QED
  BY <1>2, <1>3, <1>4, <1>5, <1>6, <1>7 DEF Next, ClaimStep

LEMMA InvAlways == Spec => []CampaignInv
<1>1. CampaignInv /\ [Next]_vars => CampaignInv'
  BY TypeStep, SlotsStep, GrantStep, CapStep DEF CampaignInv
<1> QED
  BY InitInv, <1>1, PTL DEF Spec

--------------------------------------------------------------------------------
(* Type correctness of the campaign, its claims and its edits. *)
THEOREM TypeCorrect == Spec => []TypeOK
<1>1. CampaignInv => TypeOK
  BY DEF CampaignInv
<1> QED
  BY InvAlways, <1>1, PTL

(* grantsIssued counts exactly the slots in use, so releaseSlot gives back *)
(* the caller's own slot and its floor at zero is never needed.            *)
THEOREM SlotsAccountedForHolds == Spec => []SlotsAccountedFor
<1>1. CampaignInv => SlotsAccountedFor
  BY DEF CampaignInv
<1> QED
  BY InvAlways, <1>1, PTL

(* A user gets a campaign once, however many requests claim it at once. *)
THEOREM OncePerUserHolds == Spec => []OncePerUser
<1>1. CampaignInv => OncePerUser
  BY DEF CampaignInv, GrantInv, OncePerUser
<1> QED
  BY InvAlways, <1>1, PTL

(* Every grant is backed by a slot of its own. *)
LEMMA RecipientsBounded ==
    ASSUME CampaignInv
    PROVE  /\ Cardinality(Recipients) \in Nat
           /\ Cardinality(Recipients) <= issued
<1> DEFINE by == [u \in Recipients |-> granted[u].by]
<1>1. by \in Injection(Recipients, SlotHolders)
  <2>1. \A u \in Recipients : granted[u].by \in SlotHolders /\ who[granted[u].by] = u
    BY DEF CampaignInv, GrantInv, Recipients, SlotHolders
  <2> QED
    BY <2>1 DEF Injection, IsInjective
<1>2. IsFiniteSet(Recipients) /\ Cardinality(Recipients) <= Cardinality(SlotHolders)
  BY <1>1, SlotHoldersFinite, FS_Injection
<1> QED
  BY <1>2, FS_CardinalityType DEF CampaignInv, SlotsAccountedFor

(* The cap is never exceeded: the users who have the grant are within a    *)
(* cap the campaign has had, the only one if nobody edited it.             *)
THEOREM WithinCapHolds == Spec => []WithinCap
<1>1. CampaignInv => WithinCap
  <2> SUFFICES ASSUME CampaignInv PROVE WithinCap
    OBVIOUS
  <2>1. PICK limit \in caps : limit # None => issued <= limit
    BY DEF CampaignInv, CapInv
  <2>2. limit # None => limit \in Nat /\ issued \in Nat
    BY CapAssumption DEF CampaignInv, TypeOK
  <2> QED
    BY <2>1, <2>2, RecipientsBounded DEF WithinCap
<1> QED
  BY InvAlways, <1>1, PTL
================================================================================
