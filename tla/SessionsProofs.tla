----------------------------- MODULE SessionsProofs -----------------------------
(***************************************************************************)
(* Theorems of Sessions, for any calls and any devices.                    *)
(***************************************************************************)
EXTENDS Sessions, TLAPS

(* No token is ahead of the account; a token, or a refresh about to mint   *)
(* one, of a session that was kicked out is behind it, or split.           *)
Kicked(s) == EndedBy(s, Kicking)

Minting(c) == op[c] = "refresh" /\ pc[c] \in {"restriction", "rotate"}

(* Past its start, a request about a session holds that session. *)
HeldInv ==
    \A c \in Call :
        op[c] \in {"refresh", "logout", "logoutAll", "change", "delete"} /\ pc[c] # "idle"
        => held[c].sid \in Session

KickInv ==
    /\ \A t \in tokens : t.gen <= gen
    /\ \A c \in Call : held[c].gen <= gen
    /\ \A t \in tokens : t.gen = gen /\ Kicked(t.sid) => t.split
    /\ \A c \in Call : Minting(c) /\ held[c].gen = gen /\ Kicked(held[c].sid)
                        => held[c].split

(* The row that names a call was ended by it: the call has started, and a   *)
(* sign-out ends the session of its caller.                                *)
RowInv ==
    \A s \in Session : \A c \in Call : session[s].by = c =>
        /\ pc[c] # "idle"
        /\ op[c] = "logout" => held[c].sid = s

(* Of a session signed out of, the key is still there, or neither a token  *)
(* nor a refresh under way is left.                                        *)
SignedOutOf(s) == EndedBy(s, {"logout"})

Silent(s) ==
    \/ s \in denied
    \/ /\ \A t \in tokens : t.sid # s
       /\ \A c \in Call : ~Refreshing(c, s)

LogoutInv == \A s \in Session : SignedOutOf(s) => Silent(s)

SessionsInv == TypeOK /\ HeldInv /\ KickInv /\ RowInv /\ LogoutInv /\ OpenedWithCurrentPassword
--------------------------------------------------------------------------------
LEMMA RevokeType ==
    ASSUME TypeOK, NEW c \in Call, NEW keep
    PROVE  Revoke(c, keep) \in [Session -> Row]
<1>1. ASSUME NEW row \in Row PROVE Revoked(row, c) \in Row
  BY DEF Revoked, Row
<1> QED
  BY <1>1 DEF TypeOK, Revoke, Row

LEMMA InitInv == Init => SessionsInv
<1> SUFFICES ASSUME Init PROVE SessionsInv
  OBVIOUS
<1>1. TypeOK
  <2>1. session \in [Session -> Row]
    BY DEF Init, Row, NoRow, Session
  <2>2. held \in [Call -> Hold]
    BY DEF Init, Hold, Nothing
  <2>3. tokens \subseteq Token
    <3>1. ASSUME NEW d \in Device PROVE [sid |-> d, gen |-> 0, split |-> FALSE] \in Token
      BY DEF Token, Session
    <3> QED
      BY <3>1 DEF Init
  <2> QED
    BY <2>1, <2>2, <2>3 DEF Init, TypeOK, Operations
<1>5. HeldInv
  BY DEF Init, HeldInv
<1>2. KickInv
  <2>1. \A d \in Device : session[d].state = "live"
    BY DEF Init, NoRow, Session
  <2>2. \A c \in Call : held[c].gen = gen /\ pc[c] = "idle"
    BY DEF Init, Nothing
  <2>3. ASSUME NEW t \in tokens PROVE t.gen = 0 /\ t.sid \in Device
    <3>1. PICK d \in Device : t = [sid |-> d, gen |-> 0, split |-> FALSE]
      BY DEF Init
    <3> QED
      BY <3>1
  <2>4. gen = 0
    BY DEF Init
  <2>5. \A t \in tokens : ~Kicked(t.sid)
    BY <2>1, <2>3 DEF Kicked, EndedBy
  <2>6. \A c \in Call : ~Minting(c)
    BY <2>2 DEF Minting
  <2> QED
    BY <2>2, <2>3, <2>4, <2>5, <2>6 DEF KickInv
<1>3. RowInv /\ LogoutInv
  BY NoneAssumption DEF Init, RowInv, LogoutInv, SignedOutOf, EndedBy, NoRow
<1>4. OpenedWithCurrentPassword
  BY DEF Init, OpenedWithCurrentPassword, NoRow
<1> QED
  BY <1>1, <1>2, <1>3, <1>4, <1>5 DEF SessionsInv


(* A call keeps the session it is about. *)
LEMMA HeldStep ==
    ASSUME TypeOK, HeldInv, [Next]_vars
    PROVE  HeldInv'
<1> USE DEF TypeOK, HeldInv
<1>1. ASSUME NEW c \in Call, LoginRead(c) PROVE HeldInv'
  BY <1>1 DEF LoginRead, Start
<1>2. ASSUME NEW c \in Call, LoginCheck(c) PROVE HeldInv'
  BY <1>2 DEF LoginCheck, Goto, At
<1>3. ASSUME NEW c \in Call, Rehash(c) PROVE HeldInv'
  BY <1>3 DEF Rehash, Goto, At
<1>4. ASSUME NEW c \in Call, IssueSession(c) PROVE HeldInv'
  BY <1>4 DEF IssueSession, Goto, At
<1>5. ASSUME NEW c \in Call, NEW s \in Session, RefreshRead(c, s) PROVE HeldInv'
  BY <1>5 DEF RefreshRead, Start
<1>6. ASSUME NEW c \in Call, RefreshUser(c) PROVE HeldInv'
  BY <1>6 DEF RefreshUser, Goto, At
<1>7. ASSUME NEW c \in Call, RefreshCheck(c) PROVE HeldInv'
  BY <1>7 DEF RefreshCheck, Goto, At
<1>8. ASSUME NEW c \in Call, Rotate(c) PROVE HeldInv'
  BY <1>8 DEF Rotate, Goto, At
<1>9. ASSUME NEW c \in Call, RefreshRevokeAll(c) PROVE HeldInv'
  BY <1>9 DEF RefreshRevokeAll, Goto, At
<1>10. ASSUME NEW c \in Call, NEW t \in tokens, LogoutStart(c, t) PROVE HeldInv'
  BY <1>10 DEF LogoutStart, Authenticated, Start, Token
<1>11. ASSUME NEW c \in Call, LogoutRevoke(c) PROVE HeldInv'
  BY <1>11 DEF LogoutRevoke, Goto, At
<1>12. ASSUME NEW c \in Call, LogoutDeny(c) PROVE HeldInv'
  BY <1>12 DEF LogoutDeny, Goto, At
<1>13. ASSUME NEW c \in Call, NEW t \in tokens, LogoutAllStart(c, t) PROVE HeldInv'
  BY <1>13 DEF LogoutAllStart, Authenticated, Start, Token
<1>14. ASSUME NEW c \in Call, LogoutAllRevoke(c) PROVE HeldInv'
  BY <1>14 DEF LogoutAllRevoke, Goto, At
<1>15. ASSUME NEW c \in Call, LogoutAllBump(c) PROVE HeldInv'
  BY <1>15 DEF LogoutAllBump, Goto, At
<1>16. ASSUME NEW c \in Call, Forgot(c) PROVE HeldInv'
  BY <1>16 DEF Forgot, Start
<1>17. ASSUME NEW c \in Call, NEW l \in Call, ResetRead(c, l) PROVE HeldInv'
  BY <1>17 DEF ResetRead, Start
<1>18. ASSUME NEW c \in Call, ResetCommit(c) PROVE HeldInv'
  BY <1>18 DEF ResetCommit, Goto, At
<1>19. ASSUME NEW c \in Call, NEW t \in tokens, ChangeStart(c, t) PROVE HeldInv'
  BY <1>19 DEF ChangeStart, Authenticated, Start, Token
<1>20. ASSUME NEW c \in Call, ChangeCommit(c) PROVE HeldInv'
  BY <1>20 DEF ChangeCommit, Goto, At
<1>21. ASSUME NEW c \in Call, NEW t \in tokens, DeleteStart(c, t) PROVE HeldInv'
  BY <1>21 DEF DeleteStart, Authenticated, Start, Token
<1>22. ASSUME NEW c \in Call, DeleteCommit(c) PROVE HeldInv'
  BY <1>22 DEF DeleteCommit, Goto, At
<1>23. ASSUME NEW c \in Call, Restrict(c) PROVE HeldInv'
  BY <1>23 DEF Restrict, Start
<1>24. CASE Reinstate
  BY <1>24 DEF Reinstate
<1>25. ASSUME NEW t \in tokens, ExpireToken(t) PROVE HeldInv'
  BY <1>25 DEF ExpireToken
<1>26. ASSUME NEW s \in Session, ExpireDenied(s) PROVE HeldInv'
  BY <1>26 DEF ExpireDenied
<1>27. ASSUME NEW s \in Session, ExpireSession(s) PROVE HeldInv'
  BY <1>27 DEF ExpireSession
<1>28. CASE UNCHANGED vars
  BY <1>28 DEF vars
<1> QED
  BY <1>1, <1>2, <1>3, <1>4, <1>5, <1>6, <1>7, <1>8, <1>9, <1>10, <1>11,
     <1>12, <1>13, <1>14, <1>15, <1>16, <1>17, <1>18, <1>19, <1>20, <1>21,
     <1>22, <1>23, <1>24, <1>25, <1>26, <1>27, <1>28 DEF Next,
     SessionRequest, PasswordRequest

(* The types are preserved. *)
LEMMA TypeStep ==
    ASSUME TypeOK, HeldInv, [Next]_vars
    PROVE  TypeOK'
<1> USE DEF TypeOK, account, stores, Operations
<1>1. ASSUME NEW c \in Call, LoginRead(c) PROVE TypeOK'
  <2>1. held[c] \in Hold
    OBVIOUS
  <2>2. [held[c] EXCEPT !.gen = gen, !.epoch = epoch, !.password = password,
                         !.weak = weak] \in Hold
    BY <2>1 DEF Hold
  <2> QED
    BY <1>1, <2>1, <2>2 DEF LoginRead, Start
<1>2. ASSUME NEW c \in Call, LoginCheck(c) PROVE TypeOK'
  BY <1>2 DEF LoginCheck, Goto
<1>3. ASSUME NEW c \in Call, Rehash(c) PROVE TypeOK'
  <2>1. held[c].password \in Nat
    BY DEF Hold
  <2> QED
    BY <1>3, <2>1 DEF Rehash, Goto
<1>4. ASSUME NEW c \in Call, IssueSession(c) PROVE TypeOK'
  <2>1. [state |-> "live", token |-> c, by |-> None, epoch |-> held[c].epoch,
          late |-> held[c].epoch # epoch] \in Row
    BY DEF Row, Hold, Session
  <2>2. [sid |-> c, gen |-> held[c].gen, split |-> held[c].split] \in Token
    BY DEF Token, Hold, Session
  <2> QED
    BY <1>4, <2>1, <2>2 DEF IssueSession, Goto, Mint
<1>5. ASSUME NEW c \in Call, NEW s \in Session, RefreshRead(c, s) PROVE TypeOK'
  <2>1. held[c] \in Hold /\ session[s] \in Row
    OBVIOUS
  <2>2. [held[c] EXCEPT !.sid = s, !.token = session[s].token] \in Hold
    BY <2>1 DEF Row, Hold
  <2> QED
    BY <1>5, <2>1, <2>2 DEF RefreshRead, Start
<1>6. ASSUME NEW c \in Call, RefreshUser(c) PROVE TypeOK'
  <2>1. held[c] \in Hold
    OBVIOUS
  <2>2. [held[c] EXCEPT !.gen = gen, !.split = session[held[c].sid].state # "live"] \in Hold
    BY <2>1 DEF Hold
  <2> QED
    BY <1>6, <2>1, <2>2 DEF RefreshUser, Goto
<1>7. ASSUME NEW c \in Call, RefreshCheck(c) PROVE TypeOK'
  BY <1>7 DEF RefreshCheck, Goto
<1>8. ASSUME NEW c \in Call, Rotate(c) PROVE TypeOK'
  <2>1. held[c].sid \in Session
    BY <1>8 DEF Rotate, At, HeldInv
  <2>2. [session[held[c].sid] EXCEPT !.token = c] \in Row
    BY <2>1 DEF Row, Session
  <2>3. [sid |-> held[c].sid, gen |-> held[c].gen, split |-> held[c].split] \in Token
    BY <2>1 DEF Token, Hold
  <2> QED
    BY <1>8, <2>1, <2>2, <2>3 DEF Rotate, Goto, Mint
<1>9. ASSUME NEW c \in Call, RefreshRevokeAll(c) PROVE TypeOK'
  <2>1. Revoke(c, None) \in [Session -> Row]
    BY RevokeType
  <2> QED
    BY <1>9, <2>1 DEF RefreshRevokeAll, Goto
<1>10. ASSUME NEW c \in Call, NEW t \in tokens, LogoutStart(c, t) PROVE TypeOK'
  <2>1. t.sid \in Session
    BY <1>10 DEF Token
  <2>2. [held[c] EXCEPT !.sid = t.sid] \in Hold
    BY <2>1 DEF Hold
  <2> QED
    BY <1>10, <2>1, <2>2 DEF LogoutStart, Authenticated, Start
<1>11. ASSUME NEW c \in Call, LogoutRevoke(c) PROVE TypeOK'
  <2>1. held[c].sid \in Session
    BY <1>11 DEF LogoutRevoke, At, HeldInv
  <2>2. session[held[c].sid] \in Row
    BY <2>1
  <2>3. Revoked(session[held[c].sid], c) \in Row
    BY <2>2 DEF Row, Revoked
  <2> QED
    BY <1>11, <2>1, <2>2, <2>3 DEF LogoutRevoke, Goto
<1>12. ASSUME NEW c \in Call, LogoutDeny(c) PROVE TypeOK'
  BY <1>12 DEF LogoutDeny, Goto, At, HeldInv
<1>13. ASSUME NEW c \in Call, NEW t \in tokens, LogoutAllStart(c, t) PROVE TypeOK'
  <2>1. t.sid \in Session
    BY <1>13 DEF Token
  <2>2. [held[c] EXCEPT !.sid = t.sid] \in Hold
    BY <2>1 DEF Hold
  <2> QED
    BY <1>13, <2>1, <2>2 DEF LogoutAllStart, Authenticated, Start
<1>14. ASSUME NEW c \in Call, LogoutAllRevoke(c) PROVE TypeOK'
  <2>1. Revoke(c, None) \in [Session -> Row]
    BY RevokeType
  <2> QED
    BY <1>14, <2>1 DEF LogoutAllRevoke, Goto
<1>15. ASSUME NEW c \in Call, LogoutAllBump(c) PROVE TypeOK'
  BY <1>15 DEF LogoutAllBump, Goto
<1>16. ASSUME NEW c \in Call, Forgot(c) PROVE TypeOK'
  BY <1>16 DEF Forgot, Start
<1>17. ASSUME NEW c \in Call, NEW l \in Call, ResetRead(c, l) PROVE TypeOK'
  <2>1. [held[c] EXCEPT !.link = l] \in Hold
    BY DEF Hold
  <2> QED
    BY <1>17, <2>1 DEF ResetRead, Start
<1>18. ASSUME NEW c \in Call, ResetCommit(c) PROVE TypeOK'
  <2>1. gen' \in Nat /\ epoch' \in Nat /\ password' \in Nat
    BY <1>18 DEF ResetCommit, SetPassword
  <2>2. weak' \in BOOLEAN /\ status' = status
    BY <1>18 DEF ResetCommit, SetPassword
  <2>3. [link EXCEPT ![held[c].link] = "spent"] \in [Call -> {"none", "live", "spent"}]
    OBVIOUS
  <2>4. Revoke(c, None) \in [Session -> Row]
    BY RevokeType
  <2> QED
    BY <1>18, <2>1, <2>2, <2>3, <2>4 DEF ResetCommit, Goto
<1>19. ASSUME NEW c \in Call, NEW t \in tokens, ChangeStart(c, t) PROVE TypeOK'
  <2>1. t.sid \in Session
    BY <1>19 DEF Token
  <2>2. [held[c] EXCEPT !.sid = t.sid] \in Hold
    BY <2>1 DEF Hold
  <2> QED
    BY <1>19, <2>1, <2>2 DEF ChangeStart, Authenticated, Start
<1>20. ASSUME NEW c \in Call, ChangeCommit(c) PROVE TypeOK'
  <2>1. gen' \in Nat /\ epoch' \in Nat /\ password' \in Nat
    BY <1>20 DEF ChangeCommit, SetPassword
  <2>2. weak' \in BOOLEAN /\ status' = status
    BY <1>20 DEF ChangeCommit, SetPassword
  <2>3. epoch + 1 \in Nat
    OBVIOUS
  <2>4. held[c].sid \in Session
    BY <1>20 DEF ChangeCommit, At, HeldInv
  <2>5. Revoke(c, held[c].sid) \in [Session -> Row]
    BY RevokeType
  <2>6. session[held[c].sid] \in Row
    BY <2>4
  <2>7. Knowing(session[held[c].sid]) \in Row
    BY <2>3, <2>6, Zenon DEF Knowing, Row
  <2> QED
    BY <1>20, <2>1, <2>2, <2>3, <2>4, <2>5, <2>6, <2>7 DEF ChangeCommit, Goto
<1>21. ASSUME NEW c \in Call, NEW t \in tokens, DeleteStart(c, t) PROVE TypeOK'
  <2>1. t.sid \in Session
    BY <1>21 DEF Token
  <2>2. [held[c] EXCEPT !.sid = t.sid] \in Hold
    BY <2>1 DEF Hold
  <2> QED
    BY <1>21, <2>1, <2>2 DEF DeleteStart, Authenticated, Start
<1>22. ASSUME NEW c \in Call, DeleteCommit(c) PROVE TypeOK'
  <2>1. Revoke(c, None) \in [Session -> Row]
    BY RevokeType
  <2> QED
    BY <1>22, <2>1 DEF DeleteCommit, Goto
<1>23. ASSUME NEW c \in Call, Restrict(c) PROVE TypeOK'
  <2>1. Revoke(c, None) \in [Session -> Row]
    BY RevokeType
  <2> QED
    BY <1>23, <2>1 DEF Restrict, Start
<1>24. CASE Reinstate
  BY <1>24 DEF Reinstate
<1>25. ASSUME NEW t \in tokens, ExpireToken(t) PROVE TypeOK'
  BY <1>25 DEF ExpireToken
<1>26. ASSUME NEW s \in Session, ExpireDenied(s) PROVE TypeOK'
  BY <1>26 DEF ExpireDenied
<1>27. ASSUME NEW s \in Session, ExpireSession(s) PROVE TypeOK'
  <2>1. [session[s] EXCEPT !.state = "gone"] \in Row
    BY DEF Row
  <2> QED
    BY <1>27, <2>1 DEF ExpireSession
<1>28. CASE UNCHANGED vars
  BY <1>28 DEF vars
<1> QED
  BY <1>1, <1>2, <1>3, <1>4, <1>5, <1>6, <1>7, <1>8, <1>9, <1>10, <1>11,
     <1>12, <1>13, <1>14, <1>15, <1>16, <1>17, <1>18, <1>19, <1>20, <1>21,
     <1>22, <1>23, <1>24, <1>25, <1>26, <1>27, <1>28 DEF Next,
     SessionRequest, PasswordRequest

(* The sessions kicked out by finished calls only. *)
Finished(c) == op[c] \in Kicking /\ pc[c] = "done"

LEMMA RevokedRow ==
    ASSUME NEW row \in Row, NEW c \in Call
    PROVE  /\ Revoked(row, c).state = "revoked" /\ Revoked(row, c).by = c
           /\ Revoked(row, c).epoch = row.epoch /\ Revoked(row, c).late = row.late
BY DEF Row, Revoked

LEMMA KickedStays ==
    ASSUME TypeOK, NEW c \in Call, NEW s \in Session,
           \A k \in Call : Finished(k)' => Finished(k), ~Finished(c)',
           session'[s] \in {session[s], Revoked(session[s], c)}, Kicked(s)'
    PROVE  Kicked(s)
<1>1. session[s] \in Row
  BY DEF TypeOK
<1>2. CASE session'[s] = Revoked(session[s], c)
  BY <1>1, <1>2, RevokedRow DEF Kicked, EndedBy, Finished
<1>3. CASE session'[s] = session[s]
  BY <1>3 DEF Kicked, EndedBy, Finished
<1> QED
  BY <1>2, <1>3

(* Raising the generation leaves every token and every refresh behind. *)
LEMMA Raised ==
    ASSUME TypeOK, KickInv, gen' = gen + 1, tokens' = tokens, held' = held
    PROVE  KickInv'
<1>1. gen \in Nat /\ (\A t \in tokens : t.gen \in Nat) /\ (\A c \in Call : held[c].gen \in Nat)
  BY DEF TypeOK, Token, Hold
<1>2. \A t \in tokens : t.gen <= gen /\ t.gen # gen + 1 /\ t.gen <= gen + 1
  BY <1>1 DEF KickInv
<1>3. \A c \in Call : held[c].gen <= gen /\ held[c].gen # gen + 1 /\ held[c].gen <= gen + 1
  BY <1>1 DEF KickInv
<1> QED
  BY <1>2, <1>3 DEF KickInv

LEMMA NotRaised ==
    ASSUME TypeOK, HeldInv, KickInv, gen' = gen, tokens' = tokens, held' = held,
           \A s \in Session : Kicked(s)' => Kicked(s),
           \A c \in Call : Minting(c)' => Minting(c)
    PROVE  KickInv'
BY DEF TypeOK, KickInv, HeldInv, Minting, Token


(* Only a step that raises the generation ends a session by a kick. *)
LEMMA KickStep ==
    ASSUME TypeOK, HeldInv, KickInv, [Next]_vars
    PROVE  KickInv'
<1> USE DEF TypeOK, account, stores
<1>1. ASSUME NEW c \in Call, LoginRead(c) PROVE KickInv'
  BY <1>1 DEF KickInv, Kicked, EndedBy, Kicking, Minting, Token, Hold, LoginRead, Start
<1>2. ASSUME NEW c \in Call, LoginCheck(c) PROVE KickInv'
  BY <1>2 DEF KickInv, Kicked, EndedBy, Kicking, Minting, Token, Hold, LoginCheck, Goto, At
<1>3. ASSUME NEW c \in Call, Rehash(c) PROVE KickInv'
  BY <1>3 DEF KickInv, Kicked, EndedBy, Kicking, Minting, Token, Hold, Rehash, Goto, At
<1>4. ASSUME NEW c \in Call, IssueSession(c) PROVE KickInv'
  <2>1. ASSUME NEW s \in Session, Kicked(s)' PROVE Kicked(s) /\ s # c
    <3>1. ASSUME NEW k \in Call PROVE Finished(k)' => Finished(k)
      BY <1>4 DEF Finished, Kicking, IssueSession, Goto, At
    <3>2. session' = [session EXCEPT ![c] = session'[c]] /\ session'[c].state = "live"
      BY <1>4 DEF IssueSession, Session
    <3> QED
      BY <2>1, <3>1, <3>2 DEF Kicked, EndedBy, Finished, Session
  <2>2. ASSUME NEW k \in Call, Minting(k)' PROVE Minting(k)
    BY <1>4, <2>2 DEF Minting, IssueSession, Goto, At
  <2>3. ASSUME NEW t \in tokens' PROVE t \in tokens \/ (t.sid = c /\ t.gen = held[c].gen)
    BY <1>4, <2>3 DEF IssueSession, Mint
  <2>4. gen' = gen /\ held' = held
    BY <1>4 DEF IssueSession
  <2>5. held[c].gen <= gen
    BY DEF KickInv
  <2>6. \A t \in tokens' : t.gen <= gen /\ (t.gen = gen /\ Kicked(t.sid)' => t.split)
    BY <2>1, <2>3, <2>5 DEF KickInv, Token, Session
  <2> QED
    BY <2>1, <2>2, <2>4, <2>6 DEF KickInv, HeldInv, Minting
<1>5. ASSUME NEW c \in Call, NEW s \in Session, RefreshRead(c, s) PROVE KickInv'
  <2>1. \A k \in Call : Finished(k)' => Finished(k)
    BY <1>5 DEF Finished, Kicking, RefreshRead, Start
  <2>2. /\ session' = session /\ tokens' = tokens /\ gen' = gen
        /\ \A k \in Call : held'[k].gen = held[k].gen
    BY <1>5 DEF Hold, RefreshRead, Start
  <2>3. \A k \in Call : Minting(k)' => Minting(k) /\ held'[k] = held[k]
    BY <1>5 DEF Minting, RefreshRead, Start
  <2>4. \A d \in Session : Kicked(d)' => Kicked(d)
    BY <2>1, <2>2 DEF Kicked, EndedBy, Finished
  <2> QED
    BY <2>2, <2>3, <2>4 DEF KickInv, HeldInv, Minting, Token
<1>6. ASSUME NEW c \in Call, RefreshUser(c) PROVE KickInv'
  <2>1. \A s \in Session : Kicked(s)' => Kicked(s)
    BY <1>6 DEF Kicked, EndedBy, Kicking, RefreshUser, Goto, At
  <2>2. held[c].sid \in Session /\ gen' = gen /\ tokens' = tokens /\ session' = session
    BY <1>6 DEF RefreshUser, At, HeldInv
  <2>3. /\ held'[c].gen = gen /\ held'[c].split = (session[held[c].sid].state # "live")
        /\ held'[c].sid = held[c].sid
    BY <1>6 DEF RefreshUser, Hold
  <2>4. \A k \in Call : k # c => held'[k] = held[k] /\ (Minting(k)' => Minting(k))
    BY <1>6 DEF RefreshUser, Goto, Minting
  <2>5. Kicked(held[c].sid) => session[held[c].sid].state # "live"
    BY DEF Kicked, EndedBy
  <2>6. ASSUME NEW k \in Call
        PROVE  held'[k].gen <= gen /\ (Minting(k)' /\ held'[k].gen = gen /\ Kicked(held'[k].sid) => held'[k].split)
    <3>1. CASE k = c
      <4>1. held'[c].gen <= gen
        BY <2>3
      <4>2. Kicked(held'[c].sid) => held'[c].split
        BY <2>3, <2>5, Zenon
      <4> QED
        BY <3>1, <4>1, <4>2
    <3>2. CASE k # c
      BY <2>4, <3>2 DEF KickInv
    <3> QED
      BY <3>1, <3>2
  <2>7. \A t \in tokens : t.sid \in Session
    BY DEF Token
  <2>8. \A k \in Call : Minting(k)' => held'[k].sid \in Session
    BY <2>2, <2>3, <2>4 DEF HeldInv, Minting
  <2> QED
    BY <2>1, <2>2, <2>6, <2>7, <2>8 DEF KickInv
<1>7. ASSUME NEW c \in Call, RefreshCheck(c) PROVE KickInv'
  BY <1>7 DEF KickInv, Kicked, EndedBy, Kicking, Minting, Token, Hold, RefreshCheck, Goto, At
<1>8. ASSUME NEW c \in Call, Rotate(c) PROVE KickInv'
  <2> DEFINE new == [sid |-> held[c].sid, gen |-> held[c].gen, split |-> held[c].split]
  <2>1. ASSUME NEW s \in Session, Kicked(s)' PROVE Kicked(s)
    <3>1. ASSUME NEW k \in Call PROVE Finished(k)' => Finished(k)
      BY <1>8 DEF Finished, Kicking, Rotate, Goto, At
    <3>2. session'[s].state = session[s].state /\ session'[s].by = session[s].by
      BY <1>8 DEF Rotate, Row
    <3> QED
      BY <2>1, <3>1, <3>2 DEF Kicked, EndedBy, Finished
  <2>2. ASSUME NEW k \in Call, Minting(k)' PROVE Minting(k)
    BY <1>8, <2>2 DEF Minting, Rotate, Goto, At
  <2>3. ASSUME NEW t \in tokens' PROVE t \in tokens \/ t = new
    BY <1>8, <2>3 DEF Rotate, Mint
  <2>4. gen' = gen /\ held' = held
    BY <1>8 DEF Rotate
  <2>5. Minting(c) /\ held[c].sid \in Session
    BY <1>8 DEF Rotate, At, Minting, HeldInv
  <2>6. new.gen <= gen /\ (new.gen = gen /\ Kicked(new.sid) => new.split)
    BY <2>5 DEF KickInv
  <2>7. \A t \in tokens' : t.gen <= gen /\ (t.gen = gen /\ Kicked(t.sid) => t.split) /\ t.sid \in Session
    BY <2>3, <2>5, <2>6 DEF KickInv, Token
  <2> QED
    BY <2>1, <2>2, <2>4, <2>7 DEF KickInv, HeldInv, Minting
<1>9. ASSUME NEW c \in Call, RefreshRevokeAll(c) PROVE KickInv'
  <2>1. ASSUME NEW k \in Call PROVE Finished(k)' => Finished(k)
    BY <1>9 DEF Finished, Kicking, RefreshRevokeAll, Goto, At
  <2>2. ~Finished(c)'
    BY <1>9 DEF Finished, Kicking, RefreshRevokeAll, Goto, At
  <2>3. ASSUME NEW s \in Session PROVE session'[s] \in {session[s], Revoked(session[s], c)}
    BY <1>9 DEF RefreshRevokeAll, Revoke
  <2>4. ASSUME NEW s \in Session, Kicked(s)' PROVE Kicked(s)
    BY <2>1, <2>2, <2>3, <2>4, KickedStays
  <2>5. ASSUME NEW k \in Call, Minting(k)' PROVE Minting(k)
    BY <1>9, <2>5 DEF Minting, RefreshRevokeAll, Goto, At
  <2> QED
    BY <1>9, <2>4, <2>5, NotRaised DEF RefreshRevokeAll
<1>10. ASSUME NEW c \in Call, NEW t \in tokens, LogoutStart(c, t) PROVE KickInv'
  <2>1. \A k \in Call : Finished(k)' => Finished(k)
    BY <1>10 DEF Finished, Kicking, LogoutStart, Authenticated, Start
  <2>2. /\ session' = session /\ tokens' = tokens /\ gen' = gen
        /\ \A k \in Call : held'[k].gen = held[k].gen
    BY <1>10 DEF Hold, LogoutStart, Authenticated, Start
  <2>3. \A k \in Call : Minting(k)' => Minting(k) /\ held'[k] = held[k]
    BY <1>10 DEF Minting, LogoutStart, Authenticated, Start
  <2>4. \A s \in Session : Kicked(s)' => Kicked(s)
    BY <2>1, <2>2 DEF Kicked, EndedBy, Finished
  <2> QED
    BY <2>2, <2>3, <2>4 DEF KickInv, HeldInv, Minting, Token
<1>11. ASSUME NEW c \in Call, LogoutRevoke(c) PROVE KickInv'
  <2>1. ASSUME NEW k \in Call PROVE Finished(k)' => Finished(k)
    BY <1>11 DEF Finished, Kicking, LogoutRevoke, Goto, At
  <2>2. ~Finished(c)'
    BY <1>11 DEF Finished, Kicking, LogoutRevoke, Goto, At
  <2>3. ASSUME NEW s \in Session PROVE session'[s] \in {session[s], Revoked(session[s], c)}
    BY <1>11 DEF LogoutRevoke, Revoke
  <2>4. ASSUME NEW s \in Session, Kicked(s)' PROVE Kicked(s)
    BY <2>1, <2>2, <2>3, <2>4, KickedStays
  <2>5. ASSUME NEW k \in Call, Minting(k)' PROVE Minting(k)
    BY <1>11, <2>5 DEF Minting, LogoutRevoke, Goto, At
  <2> QED
    BY <1>11, <2>4, <2>5, NotRaised DEF LogoutRevoke
<1>12. ASSUME NEW c \in Call, LogoutDeny(c) PROVE KickInv'
  BY <1>12 DEF KickInv, Kicked, EndedBy, Kicking, Minting, Token, Hold, LogoutDeny, Goto, At
<1>13. ASSUME NEW c \in Call, NEW t \in tokens, LogoutAllStart(c, t) PROVE KickInv'
  <2>1. \A k \in Call : Finished(k)' => Finished(k)
    BY <1>13 DEF Finished, Kicking, LogoutAllStart, Authenticated, Start
  <2>2. /\ session' = session /\ tokens' = tokens /\ gen' = gen
        /\ \A k \in Call : held'[k].gen = held[k].gen
    BY <1>13 DEF Hold, LogoutAllStart, Authenticated, Start
  <2>3. \A k \in Call : Minting(k)' => Minting(k) /\ held'[k] = held[k]
    BY <1>13 DEF Minting, LogoutAllStart, Authenticated, Start
  <2>4. \A s \in Session : Kicked(s)' => Kicked(s)
    BY <2>1, <2>2 DEF Kicked, EndedBy, Finished
  <2> QED
    BY <2>2, <2>3, <2>4 DEF KickInv, HeldInv, Minting, Token
<1>14. ASSUME NEW c \in Call, LogoutAllRevoke(c) PROVE KickInv'
  <2>1. ASSUME NEW k \in Call PROVE Finished(k)' => Finished(k)
    BY <1>14 DEF Finished, Kicking, LogoutAllRevoke, Goto, At
  <2>2. ~Finished(c)'
    BY <1>14 DEF Finished, Kicking, LogoutAllRevoke, Goto, At
  <2>3. ASSUME NEW s \in Session PROVE session'[s] \in {session[s], Revoked(session[s], c)}
    BY <1>14 DEF LogoutAllRevoke, Revoke
  <2>4. ASSUME NEW s \in Session, Kicked(s)' PROVE Kicked(s)
    BY <2>1, <2>2, <2>3, <2>4, KickedStays
  <2>5. ASSUME NEW k \in Call, Minting(k)' PROVE Minting(k)
    BY <1>14, <2>5 DEF Minting, LogoutAllRevoke, Goto, At
  <2> QED
    BY <1>14, <2>4, <2>5, NotRaised DEF LogoutAllRevoke
<1>15. ASSUME NEW c \in Call, LogoutAllBump(c) PROVE KickInv'
  BY <1>15, Raised DEF LogoutAllBump
<1>16. ASSUME NEW c \in Call, Forgot(c) PROVE KickInv'
  <2>1. \A k \in Call : Finished(k)' => Finished(k)
    BY <1>16 DEF Finished, Kicking, Forgot, Start
  <2>2. /\ session' = session /\ tokens' = tokens /\ gen' = gen
        /\ \A k \in Call : held'[k].gen = held[k].gen
    BY <1>16 DEF Hold, Forgot, Start
  <2>3. \A k \in Call : Minting(k)' => Minting(k) /\ held'[k] = held[k]
    BY <1>16 DEF Minting, Forgot, Start
  <2>4. \A s \in Session : Kicked(s)' => Kicked(s)
    BY <2>1, <2>2 DEF Kicked, EndedBy, Finished
  <2> QED
    BY <2>2, <2>3, <2>4 DEF KickInv, HeldInv, Minting, Token
<1>17. ASSUME NEW c \in Call, NEW l \in Call, ResetRead(c, l) PROVE KickInv'
  <2>1. \A k \in Call : Finished(k)' => Finished(k)
    BY <1>17 DEF Finished, Kicking, ResetRead, Start
  <2>2. /\ session' = session /\ tokens' = tokens /\ gen' = gen
        /\ \A k \in Call : held'[k].gen = held[k].gen
    BY <1>17 DEF Hold, ResetRead, Start
  <2>3. \A k \in Call : Minting(k)' => Minting(k) /\ held'[k] = held[k]
    BY <1>17 DEF Minting, ResetRead, Start
  <2>4. \A s \in Session : Kicked(s)' => Kicked(s)
    BY <2>1, <2>2 DEF Kicked, EndedBy, Finished
  <2> QED
    BY <2>2, <2>3, <2>4 DEF KickInv, HeldInv, Minting, Token
<1>18. ASSUME NEW c \in Call, ResetCommit(c) PROVE KickInv'
  BY <1>18, Raised DEF ResetCommit, SetPassword
<1>19. ASSUME NEW c \in Call, NEW t \in tokens, ChangeStart(c, t) PROVE KickInv'
  <2>1. \A k \in Call : Finished(k)' => Finished(k)
    BY <1>19 DEF Finished, Kicking, ChangeStart, Authenticated, Start
  <2>2. /\ session' = session /\ tokens' = tokens /\ gen' = gen
        /\ \A k \in Call : held'[k].gen = held[k].gen
    BY <1>19 DEF Hold, ChangeStart, Authenticated, Start
  <2>3. \A k \in Call : Minting(k)' => Minting(k) /\ held'[k] = held[k]
    BY <1>19 DEF Minting, ChangeStart, Authenticated, Start
  <2>4. \A s \in Session : Kicked(s)' => Kicked(s)
    BY <2>1, <2>2 DEF Kicked, EndedBy, Finished
  <2> QED
    BY <2>2, <2>3, <2>4 DEF KickInv, HeldInv, Minting, Token
<1>20. ASSUME NEW c \in Call, ChangeCommit(c) PROVE KickInv'
  BY <1>20, Raised DEF ChangeCommit, SetPassword
<1>21. ASSUME NEW c \in Call, NEW t \in tokens, DeleteStart(c, t) PROVE KickInv'
  <2>1. \A k \in Call : Finished(k)' => Finished(k)
    BY <1>21 DEF Finished, Kicking, DeleteStart, Authenticated, Start
  <2>2. /\ session' = session /\ tokens' = tokens /\ gen' = gen
        /\ \A k \in Call : held'[k].gen = held[k].gen
    BY <1>21 DEF Hold, DeleteStart, Authenticated, Start
  <2>3. \A k \in Call : Minting(k)' => Minting(k) /\ held'[k] = held[k]
    BY <1>21 DEF Minting, DeleteStart, Authenticated, Start
  <2>4. \A s \in Session : Kicked(s)' => Kicked(s)
    BY <2>1, <2>2 DEF Kicked, EndedBy, Finished
  <2> QED
    BY <2>2, <2>3, <2>4 DEF KickInv, HeldInv, Minting, Token
<1>22. ASSUME NEW c \in Call, DeleteCommit(c) PROVE KickInv'
  <2>1. ASSUME NEW k \in Call PROVE Finished(k)' => Finished(k)
    BY <1>22 DEF Finished, Kicking, DeleteCommit, Goto, At
  <2>2. ~Finished(c)'
    BY <1>22 DEF Finished, Kicking, DeleteCommit, Goto, At
  <2>3. ASSUME NEW s \in Session PROVE session'[s] \in {session[s], Revoked(session[s], c)}
    BY <1>22 DEF DeleteCommit, Revoke
  <2>4. ASSUME NEW s \in Session, Kicked(s)' PROVE Kicked(s)
    BY <2>1, <2>2, <2>3, <2>4, KickedStays
  <2>5. ASSUME NEW k \in Call, Minting(k)' PROVE Minting(k)
    BY <1>22, <2>5 DEF Minting, DeleteCommit, Goto, At
  <2> QED
    BY <1>22, <2>4, <2>5, NotRaised DEF DeleteCommit
<1>23. ASSUME NEW c \in Call, Restrict(c) PROVE KickInv'
  BY <1>23, Raised DEF Restrict
<1>24. CASE Reinstate
  BY <1>24 DEF KickInv, Kicked, EndedBy, Kicking, Minting, Token, Hold, Reinstate
<1>25. ASSUME NEW t \in tokens, ExpireToken(t) PROVE KickInv'
  BY <1>25 DEF KickInv, Kicked, EndedBy, Kicking, Minting, Token, Hold, ExpireToken
<1>26. ASSUME NEW s \in Session, ExpireDenied(s) PROVE KickInv'
  BY <1>26 DEF KickInv, Kicked, EndedBy, Kicking, Minting, Token, Hold, ExpireDenied
<1>27. ASSUME NEW s \in Session, ExpireSession(s) PROVE KickInv'
  BY <1>27 DEF KickInv, Kicked, EndedBy, Kicking, Minting, Token, Hold, ExpireSession
<1>28. CASE UNCHANGED vars
  BY <1>28 DEF vars, KickInv, Kicked, EndedBy, Minting
<1> QED
  BY <1>1, <1>2, <1>3, <1>4, <1>5, <1>6, <1>7, <1>8, <1>9, <1>10, <1>11,
     <1>12, <1>13, <1>14, <1>15, <1>16, <1>17, <1>18, <1>19, <1>20, <1>21,
     <1>22, <1>23, <1>24, <1>25, <1>26, <1>27, <1>28 DEF Next,
     SessionRequest, PasswordRequest

LEMMA KnowingRow ==
    ASSUME TypeOK, NEW row \in Row
    PROVE  /\ Knowing(row).state = row.state /\ Knowing(row).by = row.by
           /\ Knowing(row).epoch = epoch + 1
BY DEF TypeOK, Row, Knowing


(* A row comes to name a call only by a step of that call. *)
LEMMA RowStep ==
    ASSUME TypeOK, HeldInv, RowInv, [Next]_vars
    PROVE  RowInv'
<1> USE DEF TypeOK, account, stores
<1>1. ASSUME NEW c \in Call, LoginRead(c) PROVE RowInv'
  BY <1>1 DEF RowInv, LoginRead, Start
<1>2. ASSUME NEW c \in Call, LoginCheck(c) PROVE RowInv'
  BY <1>2 DEF RowInv, LoginCheck, Goto, At
<1>3. ASSUME NEW c \in Call, Rehash(c) PROVE RowInv'
  BY <1>3 DEF RowInv, Rehash, Goto, At
<1>4. ASSUME NEW c \in Call, IssueSession(c) PROVE RowInv'
  <2>1. session'[c].by = None /\ \A s \in Session : s # c => session'[s] = session[s]
    BY <1>4 DEF IssueSession, Session
  <2> QED
    BY <1>4, <2>1, NoneAssumption DEF RowInv, IssueSession, Goto, At, Session
<1>5. ASSUME NEW c \in Call, NEW s \in Session, RefreshRead(c, s) PROVE RowInv'
  BY <1>5 DEF RowInv, RefreshRead, Start
<1>6. ASSUME NEW c \in Call, RefreshUser(c) PROVE RowInv'
  BY <1>6 DEF RowInv, RefreshUser, Goto, At
<1>7. ASSUME NEW c \in Call, RefreshCheck(c) PROVE RowInv'
  BY <1>7 DEF RowInv, RefreshCheck, Goto, At
<1>8. ASSUME NEW c \in Call, Rotate(c) PROVE RowInv'
  <2>1. ASSUME NEW r \in Session PROVE session'[r].by = session[r].by
    BY <1>8 DEF Rotate, Row
  <2> QED
    BY <1>8, <2>1 DEF RowInv, Rotate, Goto, At
<1>9. ASSUME NEW c \in Call, RefreshRevokeAll(c) PROVE RowInv'
  <2>1. ASSUME NEW s \in Session PROVE session'[s].by \in {session[s].by, c}
    <3>1. session'[s] \in {session[s], Revoked(session[s], c)}
      BY <1>9 DEF RefreshRevokeAll, Revoke
    <3>2. session[s] \in Row
      OBVIOUS
    <3> QED
      BY <3>1, <3>2, RevokedRow
  <2> QED
    BY <1>9, <2>1 DEF RowInv, RefreshRevokeAll, Goto, At
<1>10. ASSUME NEW c \in Call, NEW t \in tokens, LogoutStart(c, t) PROVE RowInv'
  BY <1>10 DEF RowInv, LogoutStart, Authenticated, Start
<1>11. ASSUME NEW c \in Call, LogoutRevoke(c) PROVE RowInv'
  <2> DEFINE r == held[c].sid
  <2>1. CASE session[r].state # "gone" /\ session' = [session EXCEPT ![r] = Revoked(session[r], c)]
    <3>1. r \in Session /\ session[r] \in Row
      BY <1>11 DEF LogoutRevoke, At, HeldInv
    <3>2. session'[r].by = c /\ \A s \in Session : s # r => session'[s] = session[s]
      BY <2>1, <3>1, RevokedRow
    <3> QED
      BY <1>11, <3>1, <3>2 DEF RowInv, LogoutRevoke, Goto, At
  <2>2. CASE UNCHANGED session
    BY <1>11, <2>2 DEF RowInv, LogoutRevoke, Goto, At
  <2> QED
    BY <1>11, <2>1, <2>2 DEF LogoutRevoke
<1>12. ASSUME NEW c \in Call, LogoutDeny(c) PROVE RowInv'
  BY <1>12 DEF RowInv, LogoutDeny, Goto, At
<1>13. ASSUME NEW c \in Call, NEW t \in tokens, LogoutAllStart(c, t) PROVE RowInv'
  BY <1>13 DEF RowInv, LogoutAllStart, Authenticated, Start
<1>14. ASSUME NEW c \in Call, LogoutAllRevoke(c) PROVE RowInv'
  <2>1. ASSUME NEW s \in Session PROVE session'[s].by \in {session[s].by, c}
    <3>1. session'[s] \in {session[s], Revoked(session[s], c)}
      BY <1>14 DEF LogoutAllRevoke, Revoke
    <3>2. session[s] \in Row
      OBVIOUS
    <3> QED
      BY <3>1, <3>2, RevokedRow
  <2> QED
    BY <1>14, <2>1 DEF RowInv, LogoutAllRevoke, Goto, At
<1>15. ASSUME NEW c \in Call, LogoutAllBump(c) PROVE RowInv'
  BY <1>15 DEF RowInv, LogoutAllBump, Goto, At
<1>16. ASSUME NEW c \in Call, Forgot(c) PROVE RowInv'
  BY <1>16 DEF RowInv, Forgot, Start
<1>17. ASSUME NEW c \in Call, NEW l \in Call, ResetRead(c, l) PROVE RowInv'
  BY <1>17 DEF RowInv, ResetRead, Start
<1>18. ASSUME NEW c \in Call, ResetCommit(c) PROVE RowInv'
  <2>1. ASSUME NEW s \in Session PROVE session'[s].by \in {session[s].by, c}
    <3>1. session'[s] \in {session[s], Revoked(session[s], c)}
      BY <1>18 DEF ResetCommit, Revoke
    <3>2. session[s] \in Row
      OBVIOUS
    <3> QED
      BY <3>1, <3>2, RevokedRow
  <2> QED
    BY <1>18, <2>1 DEF RowInv, ResetCommit, Goto, At, SetPassword
<1>19. ASSUME NEW c \in Call, NEW t \in tokens, ChangeStart(c, t) PROVE RowInv'
  BY <1>19 DEF RowInv, ChangeStart, Authenticated, Start
<1>20. ASSUME NEW c \in Call, ChangeCommit(c) PROVE RowInv'
  <2>1. ASSUME NEW s \in Session PROVE session'[s].by \in {session[s].by, c}
    <3>1. session'[s] \in {session[s], Revoked(session[s], c), Knowing(session[s])}
      BY <1>20 DEF ChangeCommit, Revoke
    <3>2. session[s] \in Row
      OBVIOUS
    <3> QED
      BY <3>1, <3>2, RevokedRow, KnowingRow
  <2> QED
    BY <1>20, <2>1 DEF RowInv, ChangeCommit, Goto, At, SetPassword
<1>21. ASSUME NEW c \in Call, NEW t \in tokens, DeleteStart(c, t) PROVE RowInv'
  BY <1>21 DEF RowInv, DeleteStart, Authenticated, Start
<1>22. ASSUME NEW c \in Call, DeleteCommit(c) PROVE RowInv'
  <2>1. ASSUME NEW s \in Session PROVE session'[s].by \in {session[s].by, c}
    <3>1. session'[s] \in {session[s], Revoked(session[s], c)}
      BY <1>22 DEF DeleteCommit, Revoke
    <3>2. session[s] \in Row
      OBVIOUS
    <3> QED
      BY <3>1, <3>2, RevokedRow
  <2> QED
    BY <1>22, <2>1 DEF RowInv, DeleteCommit, Goto, At
<1>23. ASSUME NEW c \in Call, Restrict(c) PROVE RowInv'
  <2>1. ASSUME NEW s \in Session PROVE session'[s].by \in {session[s].by, c}
    <3>1. session'[s] \in {session[s], Revoked(session[s], c)}
      BY <1>23 DEF Restrict, Revoke
    <3>2. session[s] \in Row
      OBVIOUS
    <3> QED
      BY <3>1, <3>2, RevokedRow
  <2> QED
    BY <1>23, <2>1 DEF RowInv, Restrict, Start
<1>24. CASE Reinstate
  BY <1>24 DEF RowInv, Reinstate
<1>25. ASSUME NEW t \in tokens, ExpireToken(t) PROVE RowInv'
  BY <1>25 DEF RowInv, ExpireToken
<1>26. ASSUME NEW s \in Session, ExpireDenied(s) PROVE RowInv'
  BY <1>26 DEF RowInv, ExpireDenied
<1>27. ASSUME NEW s \in Session, ExpireSession(s) PROVE RowInv'
  <2>1. ASSUME NEW r \in Session PROVE session'[r].by = session[r].by
    BY <1>27 DEF ExpireSession, Row
  <2> QED
    BY <1>27, <2>1 DEF RowInv, ExpireSession
<1>28. CASE UNCHANGED vars
  BY <1>28 DEF vars, RowInv
<1> QED
  BY <1>1, <1>2, <1>3, <1>4, <1>5, <1>6, <1>7, <1>8, <1>9, <1>10, <1>11,
     <1>12, <1>13, <1>14, <1>15, <1>16, <1>17, <1>18, <1>19, <1>20, <1>21,
     <1>22, <1>23, <1>24, <1>25, <1>26, <1>27, <1>28 DEF Next,
     SessionRequest, PasswordRequest

LoggedOut(c) == op[c] = "logout" /\ pc[c] = "done"

(* Nothing speaks for a session signed out of. *)
LEMMA LogoutStep ==
    ASSUME TypeOK, HeldInv, RowInv, LogoutInv, [Next]_vars
    PROVE  LogoutInv'
<1> USE DEF TypeOK, account, stores
<1>1. ASSUME NEW c \in Call, LoginRead(c) PROVE LogoutInv'
  <2>1. \A k \in Call : LoggedOut(k)' => LoggedOut(k)
    BY <1>1 DEF LoggedOut, LoginRead, Start
  <2>2. \A s \in Session : SignedOutOf(s)' => SignedOutOf(s)
    BY <1>1, <2>1 DEF SignedOutOf, EndedBy, LoggedOut, LoginRead
  <2>3. ASSUME NEW s \in Session, SignedOutOf(s)', Silent(s) PROVE Silent(s)'
    BY <1>1, <2>2, <2>3 DEF Silent, Refreshing, SignedOutOf, EndedBy, Live, LoginRead, Start
  <2> QED
    BY <2>2, <2>3 DEF LogoutInv
<1>2. ASSUME NEW c \in Call, LoginCheck(c) PROVE LogoutInv'
  <2>1. \A k \in Call : LoggedOut(k)' => LoggedOut(k)
    BY <1>2 DEF LoggedOut, LoginCheck, Goto, At
  <2>2. \A s \in Session : SignedOutOf(s)' => SignedOutOf(s)
    BY <1>2, <2>1 DEF SignedOutOf, EndedBy, LoggedOut, LoginCheck
  <2>3. ASSUME NEW s \in Session, SignedOutOf(s)', Silent(s) PROVE Silent(s)'
    BY <1>2, <2>2, <2>3 DEF Silent, Refreshing, SignedOutOf, EndedBy, Live, LoginCheck, Goto, At
  <2> QED
    BY <2>2, <2>3 DEF LogoutInv
<1>3. ASSUME NEW c \in Call, Rehash(c) PROVE LogoutInv'
  <2>1. \A k \in Call : LoggedOut(k)' => LoggedOut(k)
    BY <1>3 DEF LoggedOut, Rehash, Goto, At
  <2>2. \A s \in Session : SignedOutOf(s)' => SignedOutOf(s)
    BY <1>3, <2>1 DEF SignedOutOf, EndedBy, LoggedOut, Rehash
  <2>3. ASSUME NEW s \in Session, SignedOutOf(s)', Silent(s) PROVE Silent(s)'
    BY <1>3, <2>2, <2>3 DEF Silent, Refreshing, SignedOutOf, EndedBy, Live, Rehash, Goto, At
  <2> QED
    BY <2>2, <2>3 DEF LogoutInv
<1>4. ASSUME NEW c \in Call, IssueSession(c) PROVE LogoutInv'
  <2>1. \A k \in Call : LoggedOut(k)' => LoggedOut(k)
    BY <1>4 DEF LoggedOut, IssueSession, Goto, At
  <2>2. ASSUME NEW s \in Session, SignedOutOf(s)' PROVE SignedOutOf(s) /\ s # c
    <3>1. session'[c].state = "live" /\ (s # c => session'[s] = session[s])
      BY <1>4 DEF IssueSession, Session
    <3> QED
      BY <2>1, <2>2, <3>1 DEF SignedOutOf, EndedBy, LoggedOut
  <2>3. ASSUME NEW s \in Session, SignedOutOf(s)', Silent(s) PROVE Silent(s)'
    BY <1>4, <2>2, <2>3 DEF Silent, Refreshing, SignedOutOf, EndedBy, Live, IssueSession, Goto, At, Mint
  <2> QED
    BY <2>2, <2>3 DEF LogoutInv
<1>5. ASSUME NEW c \in Call, NEW s \in Session, RefreshRead(c, s) PROVE LogoutInv'
  <2>1. \A k \in Call : LoggedOut(k)' => LoggedOut(k)
    BY <1>5 DEF LoggedOut, RefreshRead, Start
  <2>2. \A d \in Session : SignedOutOf(d)' => SignedOutOf(d)
    BY <1>5, <2>1 DEF SignedOutOf, EndedBy, LoggedOut, RefreshRead
  <2>3. ASSUME NEW r \in Session, SignedOutOf(r)', Silent(r) PROVE Silent(r)'
    BY <1>5, <2>2, <2>3 DEF Silent, Refreshing, SignedOutOf, EndedBy, Live, RefreshRead, Start
  <2> QED
    BY <2>2, <2>3 DEF LogoutInv
<1>6. ASSUME NEW c \in Call, RefreshUser(c) PROVE LogoutInv'
  <2>1. \A k \in Call : LoggedOut(k)' => LoggedOut(k)
    BY <1>6 DEF LoggedOut, RefreshUser, Goto, At
  <2>2. \A s \in Session : SignedOutOf(s)' => SignedOutOf(s)
    BY <1>6, <2>1 DEF SignedOutOf, EndedBy, LoggedOut, RefreshUser
  <2>3. ASSUME NEW s \in Session, SignedOutOf(s)', Silent(s) PROVE Silent(s)'
    BY <1>6, <2>2, <2>3 DEF Silent, Refreshing, SignedOutOf, EndedBy, Live, RefreshUser, Goto, At
  <2> QED
    BY <2>2, <2>3 DEF LogoutInv
<1>7. ASSUME NEW c \in Call, RefreshCheck(c) PROVE LogoutInv'
  <2>1. \A k \in Call : LoggedOut(k)' => LoggedOut(k)
    BY <1>7 DEF LoggedOut, RefreshCheck, Goto, At
  <2>2. \A s \in Session : SignedOutOf(s)' => SignedOutOf(s)
    BY <1>7, <2>1 DEF SignedOutOf, EndedBy, LoggedOut, RefreshCheck
  <2>3. ASSUME NEW s \in Session, SignedOutOf(s)', Silent(s) PROVE Silent(s)'
    BY <1>7, <2>2, <2>3 DEF Silent, Refreshing, SignedOutOf, EndedBy, Live, RefreshCheck, Goto, At
  <2> QED
    BY <2>2, <2>3 DEF LogoutInv
<1>8. ASSUME NEW c \in Call, Rotate(c) PROVE LogoutInv'
  <2>1. \A k \in Call : LoggedOut(k)' => LoggedOut(k)
    BY <1>8 DEF LoggedOut, Rotate, Goto, At
  <2>2. ASSUME NEW r \in Session, SignedOutOf(r)' PROVE SignedOutOf(r)
    <3>1. session'[r].by = session[r].by /\ session'[r].state \in {session[r].state, "gone"}
      BY <1>8 DEF Rotate, Row
    <3> QED
      BY <2>1, <2>2, <3>1 DEF SignedOutOf, EndedBy, LoggedOut
  <2>3. ASSUME NEW s \in Session, SignedOutOf(s)', Silent(s) PROVE Silent(s)'
    BY <1>8, <2>2, <2>3 DEF Silent, Refreshing, SignedOutOf, EndedBy, Live, Rotate, Goto, At, Mint
  <2> QED
    BY <2>2, <2>3 DEF LogoutInv
<1>9. ASSUME NEW c \in Call, RefreshRevokeAll(c) PROVE LogoutInv'
  <2>1. \A k \in Call : LoggedOut(k)' => LoggedOut(k)
    BY <1>9 DEF LoggedOut, RefreshRevokeAll, Goto, At
  <2>2. ASSUME NEW s \in Session, SignedOutOf(s)' PROVE SignedOutOf(s)
    <3>1. session'[s] \in {session[s], Revoked(session[s], c)}
      BY <1>9 DEF RefreshRevokeAll, Revoke
    <3>2. session[s] \in Row
      OBVIOUS
    <3>3. ~LoggedOut(c)'
      BY <1>9 DEF LoggedOut, RefreshRevokeAll, Goto, At
    <3> QED
      BY <2>1, <2>2, <3>1, <3>2, <3>3, RevokedRow DEF SignedOutOf, EndedBy, LoggedOut
  <2>3. ASSUME NEW s \in Session, Silent(s) PROVE Silent(s)'
    BY <1>9, <2>3 DEF Silent, Refreshing, RefreshRevokeAll, Goto, At
  <2> QED
    BY <2>2, <2>3 DEF LogoutInv
<1>10. ASSUME NEW c \in Call, NEW t \in tokens, LogoutStart(c, t) PROVE LogoutInv'
  <2>1. \A k \in Call : LoggedOut(k)' => LoggedOut(k)
    BY <1>10 DEF LoggedOut, LogoutStart, Authenticated, Start
  <2>2. \A s \in Session : SignedOutOf(s)' => SignedOutOf(s)
    BY <1>10, <2>1 DEF SignedOutOf, EndedBy, LoggedOut, LogoutStart, Authenticated, Start
  <2>3. ASSUME NEW s \in Session, SignedOutOf(s)', Silent(s) PROVE Silent(s)'
    BY <1>10, <2>2, <2>3 DEF Silent, Refreshing, SignedOutOf, EndedBy, Live, LogoutStart, Authenticated, Start
  <2> QED
    BY <2>2, <2>3 DEF LogoutInv
<1>11. ASSUME NEW c \in Call, LogoutRevoke(c) PROVE LogoutInv'
  <2>1. \A k \in Call : LoggedOut(k)' => LoggedOut(k)
    BY <1>11 DEF LoggedOut, LogoutRevoke, Goto, At
  <2>2. ASSUME NEW s \in Session, SignedOutOf(s)' PROVE SignedOutOf(s)
    <3>1. session'[s] \in {session[s], Revoked(session[s], c)}
      BY <1>11 DEF LogoutRevoke
    <3>2. session[s] \in Row
      OBVIOUS
    <3>3. ~LoggedOut(c)'
      BY <1>11 DEF LoggedOut, LogoutRevoke, Goto, At
    <3> QED
      BY <2>1, <2>2, <3>1, <3>2, <3>3, RevokedRow DEF SignedOutOf, EndedBy, LoggedOut
  <2>3. ASSUME NEW s \in Session, Silent(s) PROVE Silent(s)'
    BY <1>11, <2>3 DEF Silent, Refreshing, LogoutRevoke, Goto, At
  <2> QED
    BY <2>2, <2>3 DEF LogoutInv
<1>12. ASSUME NEW c \in Call, LogoutDeny(c) PROVE LogoutInv'
  <2>1. ASSUME NEW s \in Session, SignedOutOf(s)', ~SignedOutOf(s) PROVE s = held[c].sid
    BY <1>12, <2>1 DEF SignedOutOf, EndedBy, RowInv, LogoutDeny, Goto, At
  <2>2. ASSUME NEW s \in Session, Silent(s) PROVE Silent(s)'
    BY <1>12, <2>2 DEF Silent, Refreshing, LogoutDeny, Goto, At
  <2>3. held[c].sid \in denied'
    BY <1>12 DEF LogoutDeny
  <2> QED
    BY <2>1, <2>2, <2>3 DEF LogoutInv, Silent
<1>13. ASSUME NEW c \in Call, NEW t \in tokens, LogoutAllStart(c, t) PROVE LogoutInv'
  <2>1. \A k \in Call : LoggedOut(k)' => LoggedOut(k)
    BY <1>13 DEF LoggedOut, LogoutAllStart, Authenticated, Start
  <2>2. \A s \in Session : SignedOutOf(s)' => SignedOutOf(s)
    BY <1>13, <2>1 DEF SignedOutOf, EndedBy, LoggedOut, LogoutAllStart, Authenticated, Start
  <2>3. ASSUME NEW s \in Session, SignedOutOf(s)', Silent(s) PROVE Silent(s)'
    BY <1>13, <2>2, <2>3 DEF Silent, Refreshing, SignedOutOf, EndedBy, Live, LogoutAllStart, Authenticated, Start
  <2> QED
    BY <2>2, <2>3 DEF LogoutInv
<1>14. ASSUME NEW c \in Call, LogoutAllRevoke(c) PROVE LogoutInv'
  <2>1. \A k \in Call : LoggedOut(k)' => LoggedOut(k)
    BY <1>14 DEF LoggedOut, LogoutAllRevoke, Goto, At
  <2>2. ASSUME NEW s \in Session, SignedOutOf(s)' PROVE SignedOutOf(s)
    <3>1. session'[s] \in {session[s], Revoked(session[s], c)}
      BY <1>14 DEF LogoutAllRevoke, Revoke
    <3>2. session[s] \in Row
      OBVIOUS
    <3>3. ~LoggedOut(c)'
      BY <1>14 DEF LoggedOut, LogoutAllRevoke, Goto, At
    <3> QED
      BY <2>1, <2>2, <3>1, <3>2, <3>3, RevokedRow DEF SignedOutOf, EndedBy, LoggedOut
  <2>3. ASSUME NEW s \in Session, Silent(s) PROVE Silent(s)'
    BY <1>14, <2>3 DEF Silent, Refreshing, LogoutAllRevoke, Goto, At
  <2> QED
    BY <2>2, <2>3 DEF LogoutInv
<1>15. ASSUME NEW c \in Call, LogoutAllBump(c) PROVE LogoutInv'
  <2>1. \A k \in Call : LoggedOut(k)' => LoggedOut(k)
    BY <1>15 DEF LoggedOut, LogoutAllBump, Goto, At
  <2>2. \A s \in Session : SignedOutOf(s)' => SignedOutOf(s)
    BY <1>15, <2>1 DEF SignedOutOf, EndedBy, LoggedOut, LogoutAllBump
  <2>3. ASSUME NEW s \in Session, SignedOutOf(s)', Silent(s) PROVE Silent(s)'
    BY <1>15, <2>2, <2>3 DEF Silent, Refreshing, SignedOutOf, EndedBy, Live, LogoutAllBump, Goto, At
  <2> QED
    BY <2>2, <2>3 DEF LogoutInv
<1>16. ASSUME NEW c \in Call, Forgot(c) PROVE LogoutInv'
  <2>1. \A k \in Call : LoggedOut(k)' => LoggedOut(k)
    BY <1>16 DEF LoggedOut, Forgot, Start
  <2>2. \A s \in Session : SignedOutOf(s)' => SignedOutOf(s)
    BY <1>16, <2>1 DEF SignedOutOf, EndedBy, LoggedOut, Forgot
  <2>3. ASSUME NEW s \in Session, SignedOutOf(s)', Silent(s) PROVE Silent(s)'
    BY <1>16, <2>2, <2>3 DEF Silent, Refreshing, SignedOutOf, EndedBy, Live, Forgot, Start
  <2> QED
    BY <2>2, <2>3 DEF LogoutInv
<1>17. ASSUME NEW c \in Call, NEW l \in Call, ResetRead(c, l) PROVE LogoutInv'
  <2>1. \A k \in Call : LoggedOut(k)' => LoggedOut(k)
    BY <1>17 DEF LoggedOut, ResetRead, Start
  <2>2. \A s \in Session : SignedOutOf(s)' => SignedOutOf(s)
    BY <1>17, <2>1 DEF SignedOutOf, EndedBy, LoggedOut, ResetRead
  <2>3. ASSUME NEW s \in Session, SignedOutOf(s)', Silent(s) PROVE Silent(s)'
    BY <1>17, <2>2, <2>3 DEF Silent, Refreshing, SignedOutOf, EndedBy, Live, ResetRead, Start
  <2> QED
    BY <2>2, <2>3 DEF LogoutInv
<1>18. ASSUME NEW c \in Call, ResetCommit(c) PROVE LogoutInv'
  <2>1. \A k \in Call : LoggedOut(k)' => LoggedOut(k)
    BY <1>18 DEF LoggedOut, ResetCommit, Goto, At, SetPassword
  <2>2. ASSUME NEW s \in Session, SignedOutOf(s)' PROVE SignedOutOf(s)
    <3>1. session'[s] \in {session[s], Revoked(session[s], c)}
      BY <1>18 DEF ResetCommit, Revoke
    <3>2. session[s] \in Row
      OBVIOUS
    <3>3. ~LoggedOut(c)'
      BY <1>18 DEF LoggedOut, ResetCommit, Goto, At, SetPassword
    <3> QED
      BY <2>1, <2>2, <3>1, <3>2, <3>3, RevokedRow DEF SignedOutOf, EndedBy, LoggedOut
  <2>3. ASSUME NEW s \in Session, Silent(s) PROVE Silent(s)'
    BY <1>18, <2>3 DEF Silent, Refreshing, ResetCommit, Goto, At, SetPassword
  <2> QED
    BY <2>2, <2>3 DEF LogoutInv
<1>19. ASSUME NEW c \in Call, NEW t \in tokens, ChangeStart(c, t) PROVE LogoutInv'
  <2>1. \A k \in Call : LoggedOut(k)' => LoggedOut(k)
    BY <1>19 DEF LoggedOut, ChangeStart, Authenticated, Start
  <2>2. \A s \in Session : SignedOutOf(s)' => SignedOutOf(s)
    BY <1>19, <2>1 DEF SignedOutOf, EndedBy, LoggedOut, ChangeStart, Authenticated, Start
  <2>3. ASSUME NEW s \in Session, SignedOutOf(s)', Silent(s) PROVE Silent(s)'
    BY <1>19, <2>2, <2>3 DEF Silent, Refreshing, SignedOutOf, EndedBy, Live, ChangeStart, Authenticated, Start
  <2> QED
    BY <2>2, <2>3 DEF LogoutInv
<1>20. ASSUME NEW c \in Call, ChangeCommit(c) PROVE LogoutInv'
  <2>1. \A k \in Call : LoggedOut(k)' => LoggedOut(k)
    BY <1>20 DEF LoggedOut, ChangeCommit, Goto, At, SetPassword
  <2>2. ASSUME NEW s \in Session, SignedOutOf(s)' PROVE SignedOutOf(s)
    <3>1. session'[s] \in {session[s], Revoked(session[s], c), Knowing(session[s])}
      BY <1>20 DEF ChangeCommit, Revoke
    <3>2. session[s] \in Row
      OBVIOUS
    <3>3. ~LoggedOut(c)'
      BY <1>20 DEF LoggedOut, ChangeCommit, Goto, At, SetPassword
    <3> QED
      BY <2>1, <2>2, <3>1, <3>2, <3>3, RevokedRow, KnowingRow DEF SignedOutOf, EndedBy, LoggedOut
  <2>3. ASSUME NEW s \in Session, Silent(s) PROVE Silent(s)'
    BY <1>20, <2>3 DEF Silent, Refreshing, ChangeCommit, Goto, At, SetPassword
  <2> QED
    BY <2>2, <2>3 DEF LogoutInv
<1>21. ASSUME NEW c \in Call, NEW t \in tokens, DeleteStart(c, t) PROVE LogoutInv'
  <2>1. \A k \in Call : LoggedOut(k)' => LoggedOut(k)
    BY <1>21 DEF LoggedOut, DeleteStart, Authenticated, Start
  <2>2. \A s \in Session : SignedOutOf(s)' => SignedOutOf(s)
    BY <1>21, <2>1 DEF SignedOutOf, EndedBy, LoggedOut, DeleteStart, Authenticated, Start
  <2>3. ASSUME NEW s \in Session, SignedOutOf(s)', Silent(s) PROVE Silent(s)'
    BY <1>21, <2>2, <2>3 DEF Silent, Refreshing, SignedOutOf, EndedBy, Live, DeleteStart, Authenticated, Start
  <2> QED
    BY <2>2, <2>3 DEF LogoutInv
<1>22. ASSUME NEW c \in Call, DeleteCommit(c) PROVE LogoutInv'
  <2>1. \A k \in Call : LoggedOut(k)' => LoggedOut(k)
    BY <1>22 DEF LoggedOut, DeleteCommit, Goto, At
  <2>2. ASSUME NEW s \in Session, SignedOutOf(s)' PROVE SignedOutOf(s)
    <3>1. session'[s] \in {session[s], Revoked(session[s], c)}
      BY <1>22 DEF DeleteCommit, Revoke
    <3>2. session[s] \in Row
      OBVIOUS
    <3>3. ~LoggedOut(c)'
      BY <1>22 DEF LoggedOut, DeleteCommit, Goto, At
    <3> QED
      BY <2>1, <2>2, <3>1, <3>2, <3>3, RevokedRow DEF SignedOutOf, EndedBy, LoggedOut
  <2>3. ASSUME NEW s \in Session, Silent(s) PROVE Silent(s)'
    BY <1>22, <2>3 DEF Silent, Refreshing, DeleteCommit, Goto, At
  <2> QED
    BY <2>2, <2>3 DEF LogoutInv
<1>23. ASSUME NEW c \in Call, Restrict(c) PROVE LogoutInv'
  <2>1. \A k \in Call : LoggedOut(k)' => LoggedOut(k)
    BY <1>23 DEF LoggedOut, Restrict, Start
  <2>2. ASSUME NEW s \in Session, SignedOutOf(s)' PROVE SignedOutOf(s)
    <3>1. session'[s] \in {session[s], Revoked(session[s], c)}
      BY <1>23 DEF Restrict, Revoke
    <3>2. session[s] \in Row
      OBVIOUS
    <3>3. ~LoggedOut(c)'
      BY <1>23 DEF LoggedOut, Restrict, Start
    <3> QED
      BY <2>1, <2>2, <3>1, <3>2, <3>3, RevokedRow DEF SignedOutOf, EndedBy, LoggedOut
  <2>3. ASSUME NEW s \in Session, Silent(s) PROVE Silent(s)'
    BY <1>23, <2>3 DEF Silent, Refreshing, Restrict, Start
  <2> QED
    BY <2>2, <2>3 DEF LogoutInv
<1>24. CASE Reinstate
  <2>1. \A k \in Call : LoggedOut(k)' => LoggedOut(k)
    BY <1>24 DEF LoggedOut, Reinstate
  <2>2. \A s \in Session : SignedOutOf(s)' => SignedOutOf(s)
    BY <1>24, <2>1 DEF SignedOutOf, EndedBy, LoggedOut, Reinstate
  <2>3. ASSUME NEW s \in Session, SignedOutOf(s)', Silent(s) PROVE Silent(s)'
    BY <1>24, <2>2, <2>3 DEF Silent, Refreshing, SignedOutOf, EndedBy, Live, Reinstate
  <2> QED
    BY <2>2, <2>3 DEF LogoutInv
<1>25. ASSUME NEW t \in tokens, ExpireToken(t) PROVE LogoutInv'
  <2>1. \A k \in Call : LoggedOut(k)' => LoggedOut(k)
    BY <1>25 DEF LoggedOut, ExpireToken
  <2>2. \A s \in Session : SignedOutOf(s)' => SignedOutOf(s)
    BY <1>25, <2>1 DEF SignedOutOf, EndedBy, LoggedOut, ExpireToken
  <2>3. ASSUME NEW s \in Session, SignedOutOf(s)', Silent(s) PROVE Silent(s)'
    BY <1>25, <2>2, <2>3 DEF Silent, Refreshing, SignedOutOf, EndedBy, Live, ExpireToken
  <2> QED
    BY <2>2, <2>3 DEF LogoutInv
<1>26. ASSUME NEW s \in Session, ExpireDenied(s) PROVE LogoutInv'
  <2>1. \A k \in Call : LoggedOut(k)' => LoggedOut(k)
    BY <1>26 DEF LoggedOut, ExpireDenied
  <2>2. \A d \in Session : SignedOutOf(d)' => SignedOutOf(d)
    BY <1>26, <2>1 DEF SignedOutOf, EndedBy, LoggedOut, ExpireDenied
  <2>3. ASSUME NEW r \in Session, SignedOutOf(r)', Silent(r) PROVE Silent(r)'
    BY <1>26, <2>2, <2>3 DEF Silent, Refreshing, SignedOutOf, EndedBy, Live, ExpireDenied
  <2> QED
    BY <2>2, <2>3 DEF LogoutInv
<1>27. ASSUME NEW s \in Session, ExpireSession(s) PROVE LogoutInv'
  <2>1. \A k \in Call : LoggedOut(k)' => LoggedOut(k)
    BY <1>27 DEF LoggedOut, ExpireSession
  <2>2. ASSUME NEW r \in Session, SignedOutOf(r)' PROVE SignedOutOf(r)
    <3>1. session'[r].by = session[r].by /\ session'[r].state \in {session[r].state, "gone"}
      BY <1>27 DEF ExpireSession, Row
    <3> QED
      BY <2>1, <2>2, <3>1 DEF SignedOutOf, EndedBy, LoggedOut
  <2>3. ASSUME NEW r \in Session, SignedOutOf(r)', Silent(r) PROVE Silent(r)'
    BY <1>27, <2>2, <2>3 DEF Silent, Refreshing, SignedOutOf, EndedBy, Live, ExpireSession
  <2> QED
    BY <2>2, <2>3 DEF LogoutInv
<1>28. CASE UNCHANGED vars
  BY <1>28 DEF vars, LogoutInv, SignedOutOf, EndedBy, Silent, Refreshing
<1> QED
  BY <1>1, <1>2, <1>3, <1>4, <1>5, <1>6, <1>7, <1>8, <1>9, <1>10, <1>11,
     <1>12, <1>13, <1>14, <1>15, <1>16, <1>17, <1>18, <1>19, <1>20, <1>21,
     <1>22, <1>23, <1>24, <1>25, <1>26, <1>27, <1>28 DEF Next,
     SessionRequest, PasswordRequest

(* Setting a password ends the sessions opened with the one before. *)
LEMMA PasswordStep ==
    ASSUME TypeOK, HeldInv, OpenedWithCurrentPassword, [Next]_vars
    PROVE  OpenedWithCurrentPassword'
<1> USE DEF TypeOK, account, stores
<1>1. ASSUME NEW c \in Call, LoginRead(c) PROVE OpenedWithCurrentPassword'
  BY <1>1 DEF OpenedWithCurrentPassword, Live, LoginRead, Start
<1>2. ASSUME NEW c \in Call, LoginCheck(c) PROVE OpenedWithCurrentPassword'
  BY <1>2 DEF OpenedWithCurrentPassword, Live, LoginCheck, Goto, At
<1>3. ASSUME NEW c \in Call, Rehash(c) PROVE OpenedWithCurrentPassword'
  BY <1>3 DEF OpenedWithCurrentPassword, Live, Rehash, Goto, At
<1>4. ASSUME NEW c \in Call, IssueSession(c) PROVE OpenedWithCurrentPassword'
  <2>1. ASSUME NEW s \in Session, s # c PROVE session'[s] = session[s]
    BY <1>4, <2>1 DEF IssueSession
  <2>2. session'[c].epoch = epoch \/ session'[c].late
    <3>1. session'[c].epoch = held[c].epoch /\ session'[c].late = (held[c].epoch # epoch)
      BY <1>4 DEF IssueSession, Session
    <3> QED
      BY <3>1
  <2> QED
    BY <1>4, <2>1, <2>2 DEF OpenedWithCurrentPassword, Live, IssueSession
<1>5. ASSUME NEW c \in Call, NEW s \in Session, 
             RefreshRead(c, s)
      PROVE  OpenedWithCurrentPassword'
  BY <1>5 DEF OpenedWithCurrentPassword, Live, RefreshRead, Start
<1>6. ASSUME NEW c \in Call, RefreshUser(c) PROVE OpenedWithCurrentPassword'
  BY <1>6 DEF OpenedWithCurrentPassword, Live, RefreshUser, Goto, At
<1>7. ASSUME NEW c \in Call, RefreshCheck(c) PROVE OpenedWithCurrentPassword'
  BY <1>7 DEF OpenedWithCurrentPassword, Live, RefreshCheck, Goto, At
<1>8. ASSUME NEW c \in Call, Rotate(c) PROVE OpenedWithCurrentPassword'
  <2>1. ASSUME NEW r \in Session, Live(r)'
        PROVE  Live(r) /\ session'[r].epoch = session[r].epoch /\ session'[r].late = session[r].late
    BY <1>8, <2>1 DEF Live, Rotate, Row
  <2> QED
    BY <1>8, <2>1 DEF OpenedWithCurrentPassword, Rotate
<1>9. ASSUME NEW c \in Call, RefreshRevokeAll(c) PROVE OpenedWithCurrentPassword'
  <2>1. ASSUME NEW s \in Session PROVE ~Live(s)'
    <3>1. session[s] \in Row
      OBVIOUS
    <3>2. session'[s] = IF Live(s) THEN Revoked(session[s], c) ELSE session[s]
      BY <1>9, NoneAssumption DEF RefreshRevokeAll, Revoke, Session
    <3> QED
      BY <3>1, <3>2, RevokedRow DEF Live
  <2> QED
    BY <2>1 DEF OpenedWithCurrentPassword
<1>10. ASSUME NEW c \in Call, NEW t \in tokens, 
             LogoutStart(c, t)
      PROVE  OpenedWithCurrentPassword'
  BY <1>10 DEF OpenedWithCurrentPassword, Live, LogoutStart, Authenticated, Start
<1>11. ASSUME NEW c \in Call, LogoutRevoke(c) PROVE OpenedWithCurrentPassword'
  <2>1. ASSUME NEW s \in Session, Live(s)' PROVE session'[s] = session[s]
    <3>1. session'[s] \in {session[s], Revoked(session[s], c)} /\ session[s] \in Row
      BY <1>11 DEF LogoutRevoke
    <3> QED
      BY <2>1, <3>1, RevokedRow DEF Live
  <2> QED
    BY <1>11, <2>1 DEF OpenedWithCurrentPassword, Live, LogoutRevoke
<1>12. ASSUME NEW c \in Call, LogoutDeny(c) PROVE OpenedWithCurrentPassword'
  BY <1>12 DEF OpenedWithCurrentPassword, Live, LogoutDeny, Goto, At
<1>13. ASSUME NEW c \in Call, NEW t \in tokens, 
             LogoutAllStart(c, t)
      PROVE  OpenedWithCurrentPassword'
  BY <1>13 DEF OpenedWithCurrentPassword, Live, LogoutAllStart, Authenticated, Start
<1>14. ASSUME NEW c \in Call, LogoutAllRevoke(c) PROVE OpenedWithCurrentPassword'
  <2>1. ASSUME NEW s \in Session PROVE ~Live(s)'
    <3>1. session[s] \in Row
      OBVIOUS
    <3>2. session'[s] = IF Live(s) THEN Revoked(session[s], c) ELSE session[s]
      BY <1>14, NoneAssumption DEF LogoutAllRevoke, Revoke, Session
    <3> QED
      BY <3>1, <3>2, RevokedRow DEF Live
  <2> QED
    BY <2>1 DEF OpenedWithCurrentPassword
<1>15. ASSUME NEW c \in Call, LogoutAllBump(c) PROVE OpenedWithCurrentPassword'
  BY <1>15 DEF OpenedWithCurrentPassword, Live, LogoutAllBump, Goto, At
<1>16. ASSUME NEW c \in Call, Forgot(c) PROVE OpenedWithCurrentPassword'
  BY <1>16 DEF OpenedWithCurrentPassword, Live, Forgot, Start
<1>17. ASSUME NEW c \in Call, NEW l \in Call, ResetRead(c, l) PROVE OpenedWithCurrentPassword'
  BY <1>17 DEF OpenedWithCurrentPassword, Live, ResetRead, Start
<1>18. ASSUME NEW c \in Call, ResetCommit(c) PROVE OpenedWithCurrentPassword'
  <2>1. ASSUME NEW s \in Session PROVE ~Live(s)'
    <3>1. session[s] \in Row
      OBVIOUS
    <3>2. session'[s] = IF Live(s) THEN Revoked(session[s], c) ELSE session[s]
      BY <1>18, NoneAssumption DEF ResetCommit, Revoke, Session
    <3> QED
      BY <3>1, <3>2, RevokedRow DEF Live
  <2> QED
    BY <2>1 DEF OpenedWithCurrentPassword
<1>19. ASSUME NEW c \in Call, NEW t \in tokens, 
             ChangeStart(c, t)
      PROVE  OpenedWithCurrentPassword'
  BY <1>19 DEF OpenedWithCurrentPassword, Live, ChangeStart, Authenticated, Start
<1>20. ASSUME NEW c \in Call, ChangeCommit(c) PROVE OpenedWithCurrentPassword'
  <2>1. ASSUME NEW s \in Session, Live(s)' PROVE session'[s].epoch = epoch'
    <3>1. held[c].sid \in Session /\ session[s] \in Row /\ session[held[c].sid] \in Row
      BY <1>20 DEF HeldInv, ChangeCommit, At
    <3>2. CASE s = held[c].sid
      <4>1. session'[s] = Knowing(session[s])
        BY <1>20, <3>1, <3>2 DEF ChangeCommit, Revoke
      <4> QED
        BY <1>20, <3>1, <4>1, KnowingRow DEF ChangeCommit, SetPassword
    <3>3. CASE s # held[c].sid
      <4>1. session'[s] = IF Live(s) THEN Revoked(session[s], c) ELSE session[s]
        BY <1>20, <3>3 DEF ChangeCommit, Revoke
      <4> QED
        BY <2>1, <3>1, <4>1, RevokedRow DEF Live
    <3> QED
      BY <3>2, <3>3
  <2> QED
    BY <2>1 DEF OpenedWithCurrentPassword
<1>21. ASSUME NEW c \in Call, NEW t \in tokens, 
             DeleteStart(c, t)
      PROVE  OpenedWithCurrentPassword'
  BY <1>21 DEF OpenedWithCurrentPassword, Live, DeleteStart, Authenticated, Start
<1>22. ASSUME NEW c \in Call, DeleteCommit(c) PROVE OpenedWithCurrentPassword'
  <2>1. ASSUME NEW s \in Session PROVE ~Live(s)'
    <3>1. session[s] \in Row
      OBVIOUS
    <3>2. session'[s] = IF Live(s) THEN Revoked(session[s], c) ELSE session[s]
      BY <1>22, NoneAssumption DEF DeleteCommit, Revoke, Session
    <3> QED
      BY <3>1, <3>2, RevokedRow DEF Live
  <2> QED
    BY <2>1 DEF OpenedWithCurrentPassword
<1>23. ASSUME NEW c \in Call, Restrict(c) PROVE OpenedWithCurrentPassword'
  <2>1. ASSUME NEW s \in Session PROVE ~Live(s)'
    <3>1. session[s] \in Row
      OBVIOUS
    <3>2. session'[s] = IF Live(s) THEN Revoked(session[s], c) ELSE session[s]
      BY <1>23, NoneAssumption DEF Restrict, Revoke, Session
    <3> QED
      BY <3>1, <3>2, RevokedRow DEF Live
  <2> QED
    BY <2>1 DEF OpenedWithCurrentPassword
<1>24. CASE Reinstate
  BY <1>24 DEF OpenedWithCurrentPassword, Live, Reinstate
<1>25. ASSUME NEW t \in tokens, ExpireToken(t) PROVE OpenedWithCurrentPassword'
  BY <1>25 DEF OpenedWithCurrentPassword, Live, ExpireToken
<1>26. ASSUME NEW s \in Session, ExpireDenied(s) PROVE OpenedWithCurrentPassword'
  BY <1>26 DEF OpenedWithCurrentPassword, Live, ExpireDenied
<1>27. ASSUME NEW s \in Session, ExpireSession(s) PROVE OpenedWithCurrentPassword'
  <2>1. ASSUME NEW r \in Session, Live(r)'
        PROVE  Live(r) /\ session'[r].epoch = session[r].epoch /\ session'[r].late = session[r].late
    BY <1>27, <2>1 DEF Live, ExpireSession, Row
  <2> QED
    BY <1>27, <2>1 DEF OpenedWithCurrentPassword, ExpireSession
<1>28. CASE UNCHANGED vars
  BY <1>28 DEF vars, OpenedWithCurrentPassword, Live
<1> QED
  BY <1>1, <1>2, <1>3, <1>4, <1>5, <1>6, <1>7, <1>8, <1>9, <1>10, <1>11,
     <1>12, <1>13, <1>14, <1>15, <1>16, <1>17, <1>18, <1>19, <1>20, <1>21,
     <1>22, <1>23, <1>24, <1>25, <1>26, <1>27, <1>28 DEF Next,
     SessionRequest, PasswordRequest

--------------------------------------------------------------------------------
LEMMA Invariance == Spec => []SessionsInv
<1>1. ASSUME SessionsInv, [Next]_vars PROVE SessionsInv'
  BY <1>1, TypeStep, HeldStep, KickStep, RowStep, LogoutStep, PasswordStep DEF SessionsInv
<1> QED
  BY InitInv, <1>1, PTL DEF Spec

(* The rows, tokens, keys and calls keep their types, whatever the number  *)
(* of requests under way (schema.prisma, auth.service.ts).                 *)
THEOREM SessionsTypes == Spec => []TypeOK
<1>1. SessionsInv => TypeOK
  BY DEF SessionsInv
<1> QED
  BY Invariance, <1>1, PTL

(* However sign-ins, refreshes and sign-outs interleave, a session ended   *)
(* with a raised generation is not spoken for again, but by a refresh      *)
(* whose two reads straddled the end (auth.service.ts, auth.plugin.ts).    *)
THEOREM KicksHold == Spec => []KickedOut
<1>1. SessionsInv => KickedOut
  <2> SUFFICES ASSUME SessionsInv, NEW t \in tokens, Accepted(t), EndedBy(t.sid, Kicking)
               PROVE  t.split
    BY DEF KickedOut
  <2> QED
    BY DEF SessionsInv, KickInv, Accepted, Kicked
<1> QED
  BY Invariance, <1>1, PTL

(* A signed-out session stays silent: the refresh that rotates it while it *)
(* is being signed out mints a token the denylist covers to its end        *)
(* (auth.routes.ts logout, REDIS_TTL.revokedSession).                      *)
THEOREM SignOutHolds == Spec => []SignedOut
<1>1. SessionsInv => SignedOut
  <2> SUFFICES ASSUME SessionsInv, NEW t \in tokens, Accepted(t), EndedBy(t.sid, {"logout"})
               PROVE  FALSE
    BY DEF SignedOut
  <2>1. t.sid \in Session
    BY DEF SessionsInv, TypeOK, Token
  <2> QED
    BY <2>1 DEF SessionsInv, LogoutInv, SignedOutOf, Silent, Accepted
<1> QED
  BY Invariance, <1>1, PTL

(* No live session was opened with a replaced password, unless its sign-in *)
(* was under way when it was replaced (resetPassword, changePassword).     *)
THEOREM ResetEndsSessions == Spec => []OpenedWithCurrentPassword
<1>1. SessionsInv => OpenedWithCurrentPassword
  BY DEF SessionsInv
<1> QED
  BY Invariance, <1>1, PTL
================================================================================
