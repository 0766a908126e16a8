--------------------------- MODULE Organization_proofs ---------------------------
(***************************************************************************)
(* What holds of accounts, user keys and the creation of transactions for  *)
(* every number of users, keys, requests and seconds.  The three share no  *)
(* state; each part has its own invariant.                                 *)
(***************************************************************************)
EXTENDS Accounts, UserKeys, TransactionCreation, FiniteSetTheorems, TLAPS

-----------------------------------------------------------------------------
(* Accounts: type correctness.  Only a sign-up may find no row, and once    *)
(* there is a row it stays.                                                 *)

RowsKnown ==
  \A c \in Calls : calls[c] # Idle /\ calls[c].kind # "signup" =>
    calls[c].row \in Rows /\ account \in Rows

LEMMA NoRowIsNone == NoRow \notin Rows
BY DEF NoRow, Rows

LEMMA IdleIsNone == Idle \notin Works
BY DEF Idle, Works, Kinds

LEMMA WorkType ==
  ASSUME NEW w \in Works
  PROVE  /\ w.kind \in Kinds /\ w.stage \in {"loaded", "saved"}
         /\ w.row \in Rows \cup {NoRow} /\ w.token \in Tokens \cup {NoToken}
         /\ w.held \in SUBSET Tokens
         /\ \A stage \in {"loaded", "saved"}, row \in Rows \cup {NoRow} :
              /\ [w EXCEPT !.stage = stage] \in Works
              /\ [w EXCEPT !.stage = stage, !.row = row] \in Works
BY DEF Works

LEMMA RowType ==
  ASSUME NEW row \in Rows
  PROVE  /\ \A p \in Temporary \cup Own :
              /\ \A s \in {"NEW", "NONE"} : [row EXCEPT !.password = p, !.status = s] \in Rows
              /\ [row EXCEPT !.password = p] \in Rows
         /\ \A s \in {"NEW", "NONE"} : [row EXCEPT !.status = s] \in Rows
         /\ [row EXCEPT !.deleted = TRUE] \in Rows
BY DEF Rows


(* What a step may do to the calls in flight.                               *)
Goes(d) ==
  \/ calls'[d] = calls[d]
  \/ calls'[d] = Idle
  \/ /\ calls[d] # Idle
     /\ calls'[d].kind = calls[d].kind
     /\ calls'[d].token = calls[d].token
     /\ calls'[d].held = calls[d].held
     /\ calls'[d].kind # "signup" => calls'[d].row = calls[d].row

LEMMA RowsStayKnown ==
  ASSUME RowsKnown, account' = account \/ account' \in Rows,
         \A d \in Calls : Goes(d)
  PROVE  RowsKnown'
BY DEF RowsKnown, Goes

LEMMA BeginType ==
  ASSUME AccountsTypeOK, RowsKnown, NEW c \in Calls, NEW kind \in Kinds,
         NEW token \in Tokens \cup {NoToken}, NEW held \in SUBSET Tokens,
         Begin(c, kind, token, held), account' = account,
         kind # "signup" => Live
  PROVE  /\ calls' \in [Calls -> Works \cup {Idle}]
         /\ torn' \in BOOLEAN
         /\ RowsKnown'
<1> DEFINE w == [kind |-> kind, stage |-> "loaded", row |-> account,
                 token |-> token, held |-> held]
<1>1. w \in Works
  BY DEF AccountsTypeOK, Works
<1>2. calls' = [calls EXCEPT ![c] = w]
  BY DEF Begin
<1>3. calls' \in [Calls -> Works \cup {Idle}]
  BY <1>1, <1>2 DEF AccountsTypeOK
<1>4. torn' \in BOOLEAN
  BY DEF Begin, AccountsTypeOK
<1>5. ASSUME NEW d \in Calls, calls'[d] # Idle, calls'[d].kind # "signup"
      PROVE  calls'[d].row \in Rows /\ account' \in Rows
  <2>1. CASE d = c
    <3>1. calls'[d].row = account /\ calls'[d].kind = kind
      BY <1>2, <2>1 DEF AccountsTypeOK
    <3> QED
      BY <1>5, <3>1 DEF Live, AccountsTypeOK
  <2>2. CASE d # c
    BY <1>2, <1>5, <2>2 DEF RowsKnown, AccountsTypeOK
  <2> QED
    BY <2>1, <2>2
<1> QED
  BY <1>3, <1>4, <1>5 DEF RowsKnown

LEMMA EndsType ==
  ASSUME AccountsTypeOK, RowsKnown, NEW c \in Calls, Ends(c),
         account' = account \/ account' \in Rows
  PROVE  /\ calls' \in [Calls -> Works \cup {Idle}]
         /\ RowsKnown'
<1>1. calls' \in [Calls -> Works \cup {Idle}]
  BY DEF Ends, AccountsTypeOK
<1>2. \A d \in Calls : Goes(d)
  BY DEF Ends, AccountsTypeOK, Goes
<1> QED
  BY <1>1, <1>2, RowsStayKnown

LEMMA SavedType ==
  ASSUME AccountsTypeOK, RowsKnown, NEW c \in Calls, calls[c] # Idle, Saved(c),
         account' = account \/ account' \in Rows
  PROVE  /\ calls' \in [Calls -> Works \cup {Idle}]
         /\ RowsKnown'
<1>1. calls[c] \in Works
  BY DEF AccountsTypeOK
<1>2. calls' = [calls EXCEPT ![c] = [calls[c] EXCEPT !.stage = "saved"]]
  BY DEF Saved
<1>3. calls' \in [Calls -> Works \cup {Idle}]
  BY <1>1, <1>2, WorkType DEF AccountsTypeOK
<1>4. \A d \in Calls : Goes(d)
  BY <1>1, <1>2 DEF AccountsTypeOK, Goes, Works
<1> QED
  BY <1>3, <1>4, RowsStayKnown

LEMMA SignType ==
  ASSUME AccountsTypeOK, NEW kind \in {"access", "otp", "verified"}, Sign(kind)
  PROVE  issued' \in SUBSET Tokens
BY DEF Sign, AccountsTypeOK, Tokens

LEMMA BlacklistType ==
  ASSUME AccountsTypeOK, NEW t \in Tokens, Blacklist(t)
  PROVE  black' \in [Tokens -> Expires]
BY LivesAssumption DEF Blacklist, AccountsTypeOK, Expires, Seconds

(* The row, the token and the stage of a call that is in flight.            *)
LEMMA AtType ==
  ASSUME AccountsTypeOK, RowsKnown, NEW c \in Calls, NEW kind, NEW stage,
         At(c, kind, stage)
  PROVE  /\ calls[c] \in Works /\ calls[c] # Idle /\ calls[c].kind = kind
         /\ kind # "signup" => calls[c].row \in Rows /\ account \in Rows
BY DEF At, AccountsTypeOK, RowsKnown

(* A token comes with the kinds of request that need one.                   *)
TokensKnown ==
  \A c \in Calls : calls[c] # Idle =>
    /\ calls[c].kind \in {"logout", "change", "verify", "set"} => calls[c].token \in issued
    /\ calls[c].held \subseteq {t \in issued : t.kind = "access"}

Steady == AccountsTypeOK /\ RowsKnown /\ TokensKnown

LEMMA TokensStayKnown ==
  ASSUME TokensKnown, issued \subseteq issued', \A d \in Calls : Goes(d)
  PROVE  TokensKnown'
<1> SUFFICES ASSUME NEW d \in Calls, calls'[d] # Idle
             PROVE  /\ calls'[d].kind \in {"logout", "change", "verify", "set"} =>
                         calls'[d].token \in issued'
                    /\ calls'[d].held \subseteq {t \in issued' : t.kind = "access"}
  BY DEF TokensKnown
<1>1. /\ calls[d] # Idle /\ calls'[d].kind = calls[d].kind
      /\ calls'[d].token = calls[d].token /\ calls'[d].held = calls[d].held
  BY DEF Goes
<1> QED
  BY <1>1 DEF TokensKnown

LEMMA BeginTokens ==
  ASSUME AccountsTypeOK, TokensKnown, NEW c \in Calls, NEW kind \in Kinds,
         NEW token, NEW held \in SUBSET {t \in issued : t.kind = "access"},
         kind \in {"logout", "change", "verify", "set"} => token \in issued,
         Begin(c, kind, token, held), issued' = issued
  PROVE  TokensKnown'
<1> DEFINE w == [kind |-> kind, stage |-> "loaded", row |-> account,
                 token |-> token, held |-> held]
<1>1. calls' = [calls EXCEPT ![c] = w]
  BY DEF Begin
<1>2. ASSUME NEW d \in Calls, calls'[d] # Idle
      PROVE  /\ calls'[d].kind \in {"logout", "change", "verify", "set"} =>
                  calls'[d].token \in issued'
             /\ calls'[d].held \subseteq {t \in issued' : t.kind = "access"}
  <2>1. CASE d = c
    <3>1. calls'[d] = w
      BY <1>1, <2>1 DEF AccountsTypeOK
    <3> QED
      BY <3>1
  <2>2. CASE d # c
    <3>1. calls'[d] = calls[d]
      BY <1>1, <2>2 DEF AccountsTypeOK
    <3> QED
      BY <1>2, <3>1 DEF TokensKnown
  <2> QED
    BY <2>1, <2>2
<1> QED
  BY <1>2 DEF TokensKnown

(* A request that begins.                                                   *)
LEMMA SteadyBegin ==
  ASSUME Steady, NEW c \in Calls, NEW kind \in Kinds,
         NEW token \in Tokens \cup {NoToken},
         NEW held \in SUBSET {t \in issued : t.kind = "access"},
         kind \in {"logout", "change", "verify", "set"} => token \in issued,
         kind # "signup" => Live,
         Begin(c, kind, token, held),
         UNCHANGED <<clock, account, issued, black, cutoff, spent>>
  PROVE  Steady'
<1>1. held \in SUBSET Tokens
  BY DEF Steady, AccountsTypeOK
<1>2. calls' \in [Calls -> Works \cup {Idle}] /\ torn' \in BOOLEAN /\ RowsKnown'
  BY <1>1, BeginType DEF Steady
<1>3. TokensKnown'
  BY BeginTokens DEF Steady
<1> QED
  BY <1>2, <1>3 DEF Steady, AccountsTypeOK

LEMMA SteadyWithToken ==
  ASSUME Steady, NEW c \in Calls,
         NEW kind \in {"logout", "change", "verify", "set"},
         NEW t \in Tokens, WithToken(c, kind, t)
  PROVE  Steady'
<1>1. t \in issued /\ Live /\ kind \in Kinds
  BY DEF WithToken, Accepted, Kinds
<1> QED
  BY <1>1, SteadyBegin DEF WithToken

(* A request that goes on or ends.                                          *)
LEMMA SteadyRest ==
  ASSUME Steady, \A d \in Calls : Goes(d),
         clock' \in Seconds, account' = account \/ account' \in Rows,
         issued \subseteq issued', issued' \in SUBSET Tokens,
         black' \in [Tokens -> Expires], cutoff' \in [at : Seconds, until : Expires],
         calls' \in [Calls -> Works \cup {Idle}], spent' \in SUBSET Tokens, torn' = torn
  PROVE  Steady'
<1>1. RowsKnown' /\ TokensKnown'
  BY RowsStayKnown, TokensStayKnown DEF Steady
<1> QED
  BY <1>1 DEF Steady, AccountsTypeOK

LEMMA EndsGoes ==
  ASSUME AccountsTypeOK, NEW c \in Calls, Ends(c)
  PROVE  calls' \in [Calls -> Works \cup {Idle}] /\ \A d \in Calls : Goes(d)
BY DEF Ends, AccountsTypeOK, Goes

LEMMA SavedGoes ==
  ASSUME AccountsTypeOK, NEW c \in Calls, calls[c] # Idle, Saved(c)
  PROVE  calls' \in [Calls -> Works \cup {Idle}] /\ \A d \in Calls : Goes(d)
<1>1. calls[c] \in Works
  BY DEF AccountsTypeOK
<1>2. calls' = [calls EXCEPT ![c] = [calls[c] EXCEPT !.stage = "saved"]]
  BY DEF Saved
<1>3. calls' \in [Calls -> Works \cup {Idle}]
  BY <1>1, <1>2, WorkType DEF AccountsTypeOK
<1>4. \A d \in Calls : Goes(d)
  BY <1>1, <1>2 DEF AccountsTypeOK, Goes, Works
<1> QED
  BY <1>3, <1>4

LEMMA UntilType ==
  ASSUME AccountsTypeOK
  PROVE  clock + JwtLife \in Expires /\ clock \in Seconds
BY LivesAssumption DEF AccountsTypeOK, Expires, Seconds

LEMMA SteadyNext ==
  ASSUME Steady, [AccountsNext]_accountVars
  PROVE  Steady'
<1> USE DEF Steady
<1>r. UNCHANGED <<clock, account, issued, black, cutoff, spent, torn>> =>
        /\ clock' \in Seconds /\ account' = account
        /\ issued \subseteq issued' /\ issued' \in SUBSET Tokens
        /\ black' \in [Tokens -> Expires] /\ cutoff' \in [at : Seconds, until : Expires]
        /\ spent' \in SUBSET Tokens /\ torn' = torn
  BY DEF AccountsTypeOK
<1>1. CASE UNCHANGED accountVars
  BY <1>1 DEF accountVars, AccountsTypeOK, RowsKnown, TokensKnown
<1>2. CASE CreateOtp
  <2>1. \A d \in Calls : Goes(d)
    BY <1>2 DEF CreateOtp, Goes
  <2>2. issued' \in SUBSET Tokens /\ issued \subseteq issued'
    BY <1>2, SignType DEF CreateOtp, Sign
  <2> QED
    BY <1>2, <2>1, <2>2, SteadyRest DEF CreateOtp, AccountsTypeOK
<1>3. CASE Tick
  <2>1. \A d \in Calls : Goes(d)
    BY <1>3 DEF Tick, Goes
  <2>2. clock' \in Seconds
    BY <1>3, LivesAssumption DEF Tick, AccountsTypeOK, Seconds
  <2> QED
    BY <1>3, <2>1, <2>2, SteadyRest DEF Tick, AccountsTypeOK
<1>4. ASSUME NEW c \in Calls, BeginLogin(c) PROVE Steady'
  <2>1. "login" \in Kinds /\ {} \in SUBSET {t \in issued : t.kind = "access"}
    BY DEF Kinds
  <2> QED
    BY <1>4, <2>1, SteadyBegin DEF BeginLogin
<1>5. ASSUME NEW c \in Calls, FinishLogin(c) PROVE Steady'
  <2>1. issued' \in SUBSET Tokens /\ issued \subseteq issued'
    BY <1>5, SignType DEF FinishLogin, Sign
  <2> QED
    BY <1>5, <2>1, EndsGoes, SteadyRest DEF FinishLogin, AccountsTypeOK
<1>6. ASSUME NEW c \in Calls, BeginLogout(c) PROVE Steady'
  BY <1>6, SteadyWithToken DEF BeginLogout
<1>7. ASSUME NEW c \in Calls, FinishLogout(c) PROVE Steady'
  <2>1. calls[c].token \in Tokens
    BY <1>7 DEF FinishLogout, At, TokensKnown, AccountsTypeOK
  <2>2. black' \in [Tokens -> Expires] /\ spent' \in SUBSET Tokens
    BY <1>7, <2>1, BlacklistType DEF FinishLogout, AccountsTypeOK
  <2> QED
    BY <1>7, <2>2, EndsGoes, SteadyRest DEF FinishLogout, AccountsTypeOK
<1>8. ASSUME NEW c \in Calls, BeginChange(c) PROVE Steady'
  BY <1>8, SteadyWithToken DEF BeginChange
<1>9. ASSUME NEW c \in Calls, SaveChange(c) PROVE Steady'
  <2>1. calls[c].row \in Rows
    BY <1>9, AtType DEF SaveChange
  <2>2. account' \in Rows
    BY <1>9, <2>1, RowType DEF SaveChange
  <2> QED
    BY <1>9, <2>2, EndsGoes, SteadyRest DEF SaveChange, AccountsTypeOK
<1>10. ASSUME NEW c \in Calls, BeginVerify(c) PROVE Steady'
  BY <1>10, SteadyWithToken DEF BeginVerify
<1>11. ASSUME NEW c \in Calls, SaveVerify(c) PROVE Steady'
  <2>1. calls[c].row \in Rows /\ calls[c] # Idle
    BY <1>11, AtType DEF SaveVerify
  <2>2. account' \in Rows
    BY <1>11, <2>1, RowType DEF SaveVerify
  <2> QED
    BY <1>11, <2>1, <2>2, SavedGoes, SteadyRest DEF SaveVerify, AccountsTypeOK
<1>12. ASSUME NEW c \in Calls, FinishVerify(c) PROVE Steady'
  <2>1. calls[c].token \in Tokens
    BY <1>12 DEF FinishVerify, At, TokensKnown, AccountsTypeOK
  <2>2. black' \in [Tokens -> Expires] /\ spent' \in SUBSET Tokens
    BY <1>12, <2>1, BlacklistType DEF FinishVerify, AccountsTypeOK
  <2>3. issued' \in SUBSET Tokens /\ issued \subseteq issued'
    BY <1>12, SignType DEF FinishVerify, Sign
  <2> QED
    BY <1>12, <2>2, <2>3, EndsGoes, SteadyRest DEF FinishVerify, AccountsTypeOK
<1>13. ASSUME NEW c \in Calls, BeginSet(c) PROVE Steady'
  BY <1>13, SteadyWithToken DEF BeginSet
<1>14. ASSUME NEW c \in Calls, SaveSet(c) PROVE Steady'
  <2>1. calls[c].row \in Rows /\ calls[c] # Idle
    BY <1>14, AtType DEF SaveSet
  <2>2. account' \in Rows
    BY <1>14, <2>1, RowType DEF SaveSet
  <2> QED
    BY <1>14, <2>1, <2>2, SavedGoes, SteadyRest DEF SaveSet, AccountsTypeOK
<1>15. ASSUME NEW c \in Calls, FinishSet(c) PROVE Steady'
  <2>1. calls[c].token \in Tokens
    BY <1>15 DEF FinishSet, At, TokensKnown, AccountsTypeOK
  <2>2. black' \in [Tokens -> Expires] /\ spent' \in SUBSET Tokens
    BY <1>15, <2>1, BlacklistType DEF FinishSet, AccountsTypeOK
  <2> QED
    BY <1>15, <2>2, EndsGoes, SteadyRest DEF FinishSet, AccountsTypeOK
<1>16. ASSUME NEW c \in Calls, BeginRemove(c) PROVE Steady'
  <2>1. "remove" \in Kinds
    BY DEF Kinds
  <2> QED
    BY <1>16, <2>1, SteadyBegin DEF BeginRemove
<1>17. ASSUME NEW c \in Calls, Revoke(c) PROVE Steady'
  <2>1. calls[c] # Idle
    BY <1>17 DEF Revoke, At
  <2>2. cutoff' \in [at : Seconds, until : Expires]
    BY <1>17, UntilType DEF Revoke
  <2> QED
    BY <1>17, <2>1, <2>2, SavedGoes, SteadyRest DEF Revoke, AccountsTypeOK
<1>18. ASSUME NEW c \in Calls, SoftRemove(c) PROVE Steady'
  <2>1. account \in Rows /\ calls[c] \in Works
    BY <1>18, AtType DEF SoftRemove
  <2>2. account' \in Rows
    BY <1>18, <2>1, RowType DEF SoftRemove
  <2>3. spent' \in SUBSET Tokens
    BY <1>18, <2>1, WorkType DEF SoftRemove, AccountsTypeOK
  <2> QED
    BY <1>18, <2>2, <2>3, EndsGoes, SteadyRest DEF SoftRemove, AccountsTypeOK
<1>19. ASSUME NEW c \in Calls, BeginSignUp(c) PROVE Steady'
  <2>1. "signup" \in Kinds /\ {} \in SUBSET {t \in issued : t.kind = "access"}
    BY DEF Kinds
  <2> QED
    BY <1>19, <2>1, SteadyBegin DEF BeginSignUp
<1>20. ASSUME NEW c \in Calls, ReloadSignUp(c) PROVE Steady'
  <2>1. calls[c] \in Works /\ calls[c] # Idle /\ calls[c].kind = "signup"
    BY <1>20, AtType DEF ReloadSignUp
  <2>2. CASE calls' = [calls EXCEPT ![c].stage = "saved", ![c].row = account]
    <3>1. calls' = [calls EXCEPT ![c] = [calls[c] EXCEPT !.stage = "saved", !.row = account]]
      BY <2>2
    <3>2. calls' \in [Calls -> Works \cup {Idle}]
      BY <2>1, <3>1, WorkType DEF AccountsTypeOK
    <3>3. \A d \in Calls : Goes(d)
      BY <2>1, <3>1 DEF AccountsTypeOK, Goes, Works
    <3> QED
      BY <1>20, <3>2, <3>3, SteadyRest DEF ReloadSignUp, AccountsTypeOK
  <2>3. CASE Ends(c)
    BY <1>20, <2>3, EndsGoes, SteadyRest DEF ReloadSignUp, AccountsTypeOK
  <2> QED
    BY <1>20, <2>2, <2>3 DEF ReloadSignUp
<1>21. ASSUME NEW c \in Calls, SaveSignUp(c) PROVE Steady'
  <2> DEFINE row == calls[c].row
  <2>1. row \in Rows \cup {NoRow}
    BY <1>21, AtType, WorkType DEF SaveSignUp
  <2>2. account' = account \/ account' \in Rows
    <3>1. ASSUME NEW p \in Temporary, row # NoRow PROVE [row EXCEPT !.password = p] \in Rows
      BY <2>1, <3>1, RowType
    <3>2. \A p \in Temporary : [status |-> "NEW", password |-> p, deleted |-> FALSE] \in Rows
      BY DEF Rows
    <3> QED
      BY <1>21, <3>1, <3>2 DEF SaveSignUp
  <2> QED
    BY <1>21, <2>2, EndsGoes, SteadyRest DEF SaveSignUp, AccountsTypeOK
<1>22. ASSUME NEW c \in Calls, BeginUpdate(c) PROVE Steady'
  <2>1. "update" \in Kinds /\ {} \in SUBSET {t \in issued : t.kind = "access"}
    BY DEF Kinds
  <2> QED
    BY <1>22, <2>1, SteadyBegin DEF BeginUpdate
<1>23. ASSUME NEW c \in Calls, SaveUpdate(c) PROVE Steady'
  <2>1. calls[c].row \in Rows
    BY <1>23, AtType DEF SaveUpdate
  <2>2. account' \in Rows
    BY <1>23, <2>1 DEF SaveUpdate
  <2> QED
    BY <1>23, <2>2, EndsGoes, SteadyRest DEF SaveUpdate, AccountsTypeOK
<1>24. ASSUME NEW c \in Calls, Fail(c) PROVE Steady'
  BY <1>24, EndsGoes, SteadyRest DEF Fail, AccountsTypeOK
<1> QED
  BY <1>1, <1>2, <1>3, <1>4, <1>5, <1>6, <1>7, <1>8, <1>9, <1>10, <1>11, <1>12, <1>13,
     <1>14, <1>15, <1>16, <1>17, <1>18, <1>19, <1>20, <1>21, <1>22, <1>23, <1>24
  DEF AccountsNext

LEMMA SteadyInit == AccountsInit => Steady
<1> SUFFICES ASSUME AccountsInit PROVE Steady
  OBVIOUS
<1>1. 0 \in Seconds /\ 0 \in Expires
  BY LivesAssumption DEF Seconds, Expires
<1>2. AccountsTypeOK
  BY <1>1 DEF AccountsInit, AccountsTypeOK
<1>3. RowsKnown /\ TokensKnown
  BY DEF AccountsInit, RowsKnown, TokensKnown
<1> QED
  BY <1>2, <1>3 DEF Steady

(* The state of an account keeps its type: the row, once there, is a row,   *)
(* and every request in flight holds one.                                   *)
THEOREM AccountsTypeCorrect == AccountsSpec => []AccountsTypeOK
<1>1. Steady => AccountsTypeOK
  BY DEF Steady
<1> QED
  BY <1>1, SteadyInit, SteadyNext, PTL DEF AccountsSpec

-----------------------------------------------------------------------------
(* Accounts: a spent token is dead.  Time, the entries of Redis and the     *)
(* cutoff only move forward, and what was spent has expired, or its entry   *)
(* or the cutoff outlives it.                                               *)

Times ==
  /\ \A t \in issued : t.iat <= clock
  /\ \A t \in Tokens : black[t] <= clock + JwtLife
  /\ cutoff.at <= clock /\ cutoff.until <= cutoff.at + JwtLife

Forward ==
  /\ clock <= clock'
  /\ \A t \in Tokens : black[t] <= black'[t]
  /\ cutoff.at <= cutoff'.at /\ cutoff.until <= cutoff'.until

Cut(t) == t.iat <= cutoff.at /\ t.iat + JwtLife <= cutoff.until

Dead(t) ==
  \/ t.iat + Life(t) <= clock
  \/ t.iat + Life(t) <= black[t]
  \/ t.kind = "access" /\ Cut(t)

Removes(c) == calls[c] # Idle /\ calls[c].kind = "remove" /\ calls[c].stage = "saved"

HeldCut == \A c \in Calls : Removes(c) => \A t \in calls[c].held : Cut(t)

SpentDead == \A t \in spent : Dead(t)

LEMMA TokenType ==
  ASSUME NEW t \in Tokens
  PROVE  /\ t.iat \in Nat /\ Life(t) \in Nat /\ Life(t) <= JwtLife
         /\ t.kind \in {"access", "otp", "verified"}
BY LivesAssumption DEF Tokens, Seconds, Life

LEMMA NumberTypes ==
  ASSUME AccountsTypeOK
  PROVE  /\ clock \in Nat /\ JwtLife \in Nat /\ cutoff.at \in Nat /\ cutoff.until \in Nat
         /\ \A t \in Tokens : black[t] \in Nat
<1>1. Seconds \subseteq Nat /\ Expires \subseteq Nat
  BY LivesAssumption DEF Seconds, Expires
<1> QED
  BY <1>1, LivesAssumption DEF AccountsTypeOK

LEMMA TimeWriters ==
  ASSUME [AccountsNext]_accountVars
  PROVE  \/ UNCHANGED <<clock, issued, black, cutoff>>
         \/ CreateOtp \/ Tick
         \/ \E c \in Calls : FinishLogin(c) \/ FinishLogout(c) \/ FinishVerify(c)
                             \/ FinishSet(c) \/ Revoke(c)
BY DEF AccountsNext, accountVars, BeginLogin, BeginLogout, BeginChange, SaveChange,
       BeginVerify, SaveVerify, BeginSet, SaveSet, BeginRemove, SoftRemove, BeginSignUp,
       ReloadSignUp, SaveSignUp, BeginUpdate, SaveUpdate, Fail, WithToken

LEMMA SignTimes ==
  ASSUME AccountsTypeOK, \A t \in issued : t.iat <= clock, NEW kind, Sign(kind), clock' = clock
  PROVE  \A t \in issued' : t.iat <= clock'
BY NumberTypes DEF Sign

LEMMA BlacklistTimes ==
  ASSUME AccountsTypeOK, Times, NEW u \in Tokens, Blacklist(u), clock' = clock
  PROVE  \A t \in Tokens : black'[t] <= clock + JwtLife /\ black[t] <= black'[t]
<1>1. black' = [black EXCEPT ![u] = clock + JwtLife]
  BY DEF Blacklist
<1> QED
  BY <1>1, NumberTypes DEF Times, AccountsTypeOK

LEMMA TimesNext ==
  ASSUME Steady, Times, [AccountsNext]_accountVars
  PROVE  Times' /\ Forward
<1> USE NumberTypes DEF Steady
<1>1. CASE UNCHANGED <<clock, issued, black, cutoff>>
  BY <1>1 DEF Times, Forward
<1>2. CASE CreateOtp
  BY <1>2, SignTimes DEF CreateOtp, Times, Forward
<1>3. CASE Tick
  <2>1. clock' = clock + 1 /\ UNCHANGED <<issued, black, cutoff>>
    BY <1>3 DEF Tick
  <2>2. \A t \in issued : t.iat <= clock + 1
    BY TokenType DEF Times, AccountsTypeOK
  <2> QED
    BY <2>1, <2>2 DEF Times, Forward
<1>4. ASSUME NEW c \in Calls, FinishLogin(c) PROVE Times' /\ Forward
  BY <1>4, SignTimes DEF FinishLogin, Times, Forward
<1>5. ASSUME NEW c \in Calls, FinishLogout(c) PROVE Times' /\ Forward
  <2>1. calls[c].token \in Tokens
    BY <1>5 DEF FinishLogout, At, TokensKnown, AccountsTypeOK
  <2> QED
    BY <1>5, <2>1, BlacklistTimes DEF FinishLogout, Times, Forward
<1>6. ASSUME NEW c \in Calls, FinishVerify(c) PROVE Times' /\ Forward
  <2>1. calls[c].token \in Tokens
    BY <1>6 DEF FinishVerify, At, TokensKnown, AccountsTypeOK
  <2> QED
    BY <1>6, <2>1, BlacklistTimes, SignTimes DEF FinishVerify, Times, Forward
<1>7. ASSUME NEW c \in Calls, FinishSet(c) PROVE Times' /\ Forward
  <2>1. calls[c].token \in Tokens
    BY <1>7 DEF FinishSet, At, TokensKnown, AccountsTypeOK
  <2> QED
    BY <1>7, <2>1, BlacklistTimes DEF FinishSet, Times, Forward
<1>8. ASSUME NEW c \in Calls, Revoke(c) PROVE Times' /\ Forward
  <2>1. cutoff' = [at |-> clock, until |-> clock + JwtLife] /\ UNCHANGED <<clock, issued, black>>
    BY <1>8 DEF Revoke
  <2>2. cutoff'.at = clock /\ cutoff'.until = clock + JwtLife
    BY <2>1
  <2> QED
    BY <2>1, <2>2 DEF Times, Forward
<1> QED
  BY <1>1, <1>2, <1>3, <1>4, <1>5, <1>6, <1>7, <1>8, TimeWriters

LEMMA CutStays ==
  ASSUME AccountsTypeOK, AccountsTypeOK', Forward, NEW t \in Tokens, Cut(t)
  PROVE  Cut(t)'
<1>1. cutoff'.at \in Nat /\ cutoff'.until \in Nat
  <2>1. Seconds \subseteq Nat /\ Expires \subseteq Nat
    BY LivesAssumption DEF Seconds, Expires
  <2> QED
    BY <2>1 DEF AccountsTypeOK
<1> QED
  BY <1>1, NumberTypes, TokenType DEF Cut, Forward

LEMMA DeadStays ==
  ASSUME AccountsTypeOK, AccountsTypeOK', Forward, NEW t \in Tokens, Dead(t)
  PROVE  Dead(t)'
<1>1. clock' \in Nat /\ black'[t] \in Nat
  <2>1. Seconds \subseteq Nat /\ Expires \subseteq Nat
    BY LivesAssumption DEF Seconds, Expires
  <2> QED
    BY <2>1 DEF AccountsTypeOK
<1>2. CASE t.iat + Life(t) <= clock
  BY <1>1, <1>2, NumberTypes, TokenType DEF Dead, Forward, Life
<1>3. CASE t.iat + Life(t) <= black[t]
  BY <1>1, <1>3, NumberTypes, TokenType DEF Dead, Forward, Life
<1>4. CASE t.kind = "access" /\ Cut(t)
  BY <1>4, CutStays DEF Dead
<1> QED
  BY <1>2, <1>3, <1>4 DEF Dead

(* Only a revocation brings a removal to its second half.                   *)
LEMMA RemovesOnlyByRevoke ==
  ASSUME Steady, [AccountsNext]_accountVars, NEW d \in Calls, Removes(d)'
  PROVE  (Removes(d) /\ calls'[d].held = calls[d].held) \/ Revoke(d)
<1> USE DEF Steady, AccountsTypeOK, Removes
<1>b. ASSUME NEW c \in Calls, NEW kind, NEW token, NEW held, Begin(c, kind, token, held)
      PROVE  Removes(d) /\ calls'[d].held = calls[d].held
  <2>1. calls' = [calls EXCEPT ![c] = [kind |-> kind, stage |-> "loaded", row |-> account,
                                       token |-> token, held |-> held]]
    BY <1>b DEF Begin
  <2>2. d # c
    BY <2>1
  <2> QED
    BY <2>1, <2>2
<1>e. ASSUME NEW c \in Calls, Ends(c)
      PROVE  Removes(d) /\ calls'[d].held = calls[d].held
  BY <1>e DEF Ends
<1>s. ASSUME NEW c \in Calls, NEW kind, NEW stage, At(c, kind, stage), Saved(c), kind # "remove"
      PROVE  Removes(d) /\ calls'[d].held = calls[d].held
  <2>1. calls' = [calls EXCEPT ![c] = [calls[c] EXCEPT !.stage = "saved"]]
    BY <1>s DEF Saved
  <2>2. calls[c] \in Works /\ calls[c].kind = kind
    BY <1>s DEF At
  <2>3. d # c
    BY <1>s, <2>1, <2>2 DEF Works
  <2> QED
    BY <2>1, <2>3
<1>1. CASE calls' = calls
  BY <1>1
<1>2. CASE \E c \in Calls : Ends(c)
  BY <1>2, <1>e
<1>3. CASE \E c \in Calls : \E kind \in Kinds, token \in Tokens \cup {NoToken} :
              \E held \in SUBSET Tokens : Begin(c, kind, token, held)
  BY <1>3, <1>b
<1>4. ASSUME NEW c \in Calls, SaveVerify(c) PROVE Removes(d) /\ calls'[d].held = calls[d].held
  BY <1>4, <1>s DEF SaveVerify
<1>5. ASSUME NEW c \in Calls, SaveSet(c) PROVE Removes(d) /\ calls'[d].held = calls[d].held
  BY <1>5, <1>s DEF SaveSet
<1>6. ASSUME NEW c \in Calls, Revoke(c)
      PROVE  (Removes(d) /\ calls'[d].held = calls[d].held) \/ Revoke(d)
  <2>1. CASE d = c
    BY <1>6, <2>1
  <2>2. CASE d # c
    BY <1>6, <2>2 DEF Revoke, Saved
  <2> QED
    BY <2>1, <2>2
<1>7. ASSUME NEW c \in Calls, ReloadSignUp(c) PROVE Removes(d) /\ calls'[d].held = calls[d].held
  <2>1. CASE Ends(c)
    BY <2>1, <1>e
  <2>2. CASE calls' = [calls EXCEPT ![c].stage = "saved", ![c].row = account]
    <3>1. calls' = [calls EXCEPT ![c] = [calls[c] EXCEPT !.stage = "saved", !.row = account]]
      BY <2>2
    <3>2. calls[c] \in Works /\ calls[c].kind = "signup"
      BY <1>7 DEF ReloadSignUp, At
    <3>3. d # c
      BY <3>1, <3>2 DEF Works
    <3> QED
      BY <3>1, <3>3
  <2> QED
    BY <1>7, <2>1, <2>2 DEF ReloadSignUp
<1>8. \/ calls' = calls
      \/ \E c \in Calls : Ends(c)
      \/ \E c \in Calls : \E kind \in Kinds, token \in Tokens \cup {NoToken} :
              \E held \in SUBSET Tokens : Begin(c, kind, token, held)
      \/ \E c \in Calls : SaveVerify(c) \/ SaveSet(c) \/ Revoke(c) \/ ReloadSignUp(c)
  <2>1. CASE UNCHANGED accountVars \/ CreateOtp \/ Tick
    BY <2>1 DEF accountVars, CreateOtp, Tick
  <2>2. ASSUME NEW c \in Calls,
               \/ FinishLogin(c) \/ FinishLogout(c) \/ SaveChange(c) \/ FinishVerify(c)
               \/ FinishSet(c) \/ SoftRemove(c) \/ SaveSignUp(c) \/ SaveUpdate(c) \/ Fail(c)
        PROVE  Ends(c)
    BY <2>2 DEF FinishLogin, FinishLogout, SaveChange, FinishVerify, FinishSet, SoftRemove,
                SaveSignUp, SaveUpdate, Fail
  <2>3. ASSUME NEW c \in Calls,
               \/ BeginLogin(c) \/ BeginLogout(c) \/ BeginChange(c) \/ BeginVerify(c)
               \/ BeginSet(c) \/ BeginRemove(c) \/ BeginSignUp(c) \/ BeginUpdate(c)
        PROVE  \E kind \in Kinds, token \in Tokens \cup {NoToken} :
                 \E held \in SUBSET Tokens : Begin(c, kind, token, held)
    <3>1. /\ "login" \in Kinds /\ "logout" \in Kinds /\ "change" \in Kinds /\ "verify" \in Kinds
          /\ "set" \in Kinds /\ "remove" \in Kinds /\ "signup" \in Kinds /\ "update" \in Kinds
      BY DEF Kinds
    <3>2. {t \in issued : t.kind = "access"} \in SUBSET Tokens /\ {} \in SUBSET Tokens
      OBVIOUS
    <3>3. CASE BeginLogin(c)
      BY <3>1, <3>2, <3>3 DEF BeginLogin
    <3>4. CASE BeginLogout(c)
      BY <3>1, <3>2, <3>4 DEF BeginLogout, WithToken
    <3>5. CASE BeginChange(c)
      BY <3>1, <3>2, <3>5 DEF BeginChange, WithToken
    <3>6. CASE BeginVerify(c)
      BY <3>1, <3>2, <3>6 DEF BeginVerify, WithToken
    <3>7. CASE BeginSet(c)
      BY <3>1, <3>2, <3>7 DEF BeginSet, WithToken
    <3>8. CASE BeginRemove(c)
      BY <3>1, <3>2, <3>8 DEF BeginRemove
    <3>9. CASE BeginSignUp(c)
      BY <3>1, <3>2, <3>9 DEF BeginSignUp
    <3>10. CASE BeginUpdate(c)
      BY <3>1, <3>2, <3>10 DEF BeginUpdate
    <3> QED
      BY <2>3, <3>3, <3>4, <3>5, <3>6, <3>7, <3>8, <3>9, <3>10
  <2> HIDE DEF Steady, AccountsTypeOK, Removes
  <2> QED
    BY <2>1, <2>2, <2>3 DEF AccountsNext
<1> HIDE DEF Steady, AccountsTypeOK, Removes
<1> QED
  BY <1>1, <1>2, <1>3, <1>4, <1>5, <1>6, <1>7, <1>8

LEMMA HeldCutNext ==
  ASSUME Steady, Steady', Times, Forward, HeldCut, [AccountsNext]_accountVars
  PROVE  HeldCut'
<1> SUFFICES ASSUME NEW d \in Calls, Removes(d)', NEW t \in calls'[d].held
             PROVE  Cut(t)'
  BY DEF HeldCut
<1>1. CASE Removes(d) /\ calls'[d].held = calls[d].held
  <2>1. t \in Tokens
    BY <1>1 DEF Steady, TokensKnown, Removes, AccountsTypeOK
  <2> QED
    BY <1>1, <2>1, CutStays DEF HeldCut, Steady
<1>2. CASE Revoke(d)
  <2>1. calls[d] \in Works /\ calls[d] # Idle
    BY <1>2, AtType DEF Revoke, Steady
  <2>2. calls' = [calls EXCEPT ![d] = [calls[d] EXCEPT !.stage = "saved"]]
    BY <1>2 DEF Revoke, Saved
  <2>3. calls'[d].held = calls[d].held
    BY <2>1, <2>2 DEF Steady, AccountsTypeOK, Works
  <2>4. t \in issued /\ t \in Tokens
    BY <2>1, <2>3 DEF Steady, TokensKnown, AccountsTypeOK
  <2>5. t.iat <= clock
    BY <2>4 DEF Times
  <2>6. cutoff'.at = clock /\ cutoff'.until = clock + JwtLife
    BY <1>2 DEF Revoke
  <2> QED
    BY <2>4, <2>5, <2>6, TokenType, NumberTypes DEF Cut, Steady
<1> QED
  BY <1>1, <1>2, RemovesOnlyByRevoke

LEMMA SpentWriters ==
  ASSUME [AccountsNext]_accountVars
  PROVE  \/ UNCHANGED spent
         \/ \E c \in Calls : FinishLogout(c) \/ FinishVerify(c) \/ FinishSet(c) \/ SoftRemove(c)
BY DEF AccountsNext, accountVars, BeginLogin, BeginLogout, BeginChange, SaveChange,
       BeginVerify, SaveVerify, BeginSet, SaveSet, BeginRemove, BeginSignUp,
       ReloadSignUp, SaveSignUp, BeginUpdate, SaveUpdate, Fail, WithToken,
       CreateOtp, Tick, FinishLogin, Revoke

(* A token whose use ends in Blacklist dies with it.                        *)
LEMMA BlacklistedDies ==
  ASSUME Steady, Times, NEW t \in issued, Blacklist(t)
  PROVE  Dead(t)'
<1>1. t \in Tokens /\ t.iat <= clock
  BY DEF Steady, AccountsTypeOK, Times
<1>2. black'[t] = clock + JwtLife
  BY <1>1 DEF Blacklist, Steady, AccountsTypeOK
<1> QED
  BY <1>1, <1>2, TokenType, NumberTypes DEF Dead, Steady, Life

LEMMA SpentDeadNext ==
  ASSUME Steady, Steady', Times, Forward, HeldCut, SpentDead, [AccountsNext]_accountVars
  PROVE  SpentDead'
<1>1. \A t \in spent : Dead(t)'
  <2>1. \A t \in spent : t \in Tokens
    BY DEF Steady, AccountsTypeOK
  <2> QED
    BY <2>1, DeadStays DEF SpentDead, Steady
<1>2. CASE UNCHANGED spent
  BY <1>1, <1>2 DEF SpentDead
<1>3. ASSUME NEW c \in Calls, FinishLogout(c) PROVE SpentDead'
  <2>1. calls[c].token \in issued
    BY <1>3 DEF FinishLogout, At, Steady, TokensKnown
  <2> QED
    BY <1>1, <1>3, <2>1, BlacklistedDies DEF FinishLogout, SpentDead
<1>4. ASSUME NEW c \in Calls, FinishVerify(c) PROVE SpentDead'
  <2>1. calls[c].token \in issued
    BY <1>4 DEF FinishVerify, At, Steady, TokensKnown
  <2> QED
    BY <1>1, <1>4, <2>1, BlacklistedDies DEF FinishVerify, SpentDead
<1>5. ASSUME NEW c \in Calls, FinishSet(c) PROVE SpentDead'
  <2>1. calls[c].token \in issued
    BY <1>5 DEF FinishSet, At, Steady, TokensKnown
  <2> QED
    BY <1>1, <1>5, <2>1, BlacklistedDies DEF FinishSet, SpentDead
<1>6. ASSUME NEW c \in Calls, SoftRemove(c) PROVE SpentDead'
  <2>1. Removes(c) /\ UNCHANGED cutoff /\ spent' = spent \cup calls[c].held
    BY <1>6 DEF SoftRemove, At, Removes
  <2>2. \A t \in calls[c].held : Cut(t) /\ t.kind = "access"
    BY <2>1 DEF HeldCut, Removes, Steady, TokensKnown
  <2>3. \A t \in calls[c].held : Dead(t)'
    BY <2>1, <2>2 DEF Dead, Cut
  <2> QED
    BY <1>1, <2>1, <2>3 DEF SpentDead
<1> QED
  BY <1>2, <1>3, <1>4, <1>5, <1>6, SpentWriters

SpentInv == Steady /\ Times /\ HeldCut /\ SpentDead

LEMMA SpentInit == AccountsInit => SpentInv
<1> SUFFICES ASSUME AccountsInit PROVE SpentInv
  OBVIOUS
<1>1. Steady
  BY SteadyInit
<1>2. Times
  BY <1>1, NumberTypes DEF AccountsInit, Times, Steady
<1>3. HeldCut /\ SpentDead
  BY DEF AccountsInit, HeldCut, SpentDead, Removes
<1> QED
  BY <1>1, <1>2, <1>3 DEF SpentInv

LEMMA SpentNext == SpentInv /\ [AccountsNext]_accountVars => SpentInv'
<1> SUFFICES ASSUME SpentInv, [AccountsNext]_accountVars PROVE SpentInv'
  OBVIOUS
<1> USE DEF SpentInv
<1>1. Steady'
  BY SteadyNext
<1>2. Times' /\ Forward
  BY TimesNext
<1> QED
  BY <1>1, <1>2, HeldCutNext, SpentDeadNext

LEMMA DeadNotAccepted ==
  ASSUME AccountsTypeOK, NEW t \in Tokens, Dead(t)
  PROVE  ~Accepted(t)
<1>1. CASE t.iat + Life(t) <= clock
  BY <1>1, NumberTypes, TokenType DEF Accepted
<1>2. CASE t.iat + Life(t) <= black[t]
  BY <1>2, NumberTypes, TokenType DEF Accepted, Blacklisted
<1>3. CASE t.kind = "access" /\ Cut(t)
  <2>1. Life(t) = JwtLife
    BY <1>3 DEF Life
  <2> QED
    BY <1>3, <2>1, NumberTypes, TokenType DEF Accepted, Blacklisted, Cut
<1> QED
  BY <1>1, <1>2, <1>3 DEF Dead

(* A token that was logged out, verified, used for a new password, or held  *)
(* when its user was removed is never accepted again: its Redis entry, or   *)
(* the cutoff of its user, lives until the token has expired by itself.     *)
THEOREM SpentHolds == AccountsSpec => []SpentStaysSpent
<1>1. SpentInv => SpentStaysSpent
  BY DeadNotAccepted DEF SpentInv, Steady, AccountsTypeOK, SpentDead, SpentStaysSpent
<1> QED
  BY <1>1, SpentInit, SpentNext, PTL DEF AccountsSpec

-----------------------------------------------------------------------------
(* Accounts: a verified account has a password of its own.  As long as no   *)
(* sign-up overlapped another request, a sign-up is alone, knows the row as *)
(* it is, and only replaces passwords of rows nobody has verified.          *)

OwnRow(row) == row # NoRow /\ row.status = "NONE" => row.password \in Own

Alone(c) ==
  /\ InFlight = {c}
  /\ calls[c].row = account
  /\ calls[c].stage = "saved" /\ account # NoRow /\ ~account.deleted => account.status = "NEW"

Untorn ==
  ~torn =>
    /\ OwnRow(account)
    /\ \A c \in Calls : calls[c] # Idle => OwnRow(calls[c].row)
    /\ \A c \in Calls : calls[c] # Idle /\ calls[c].kind = "signup" => Alone(c)

(* Beginning a request keeps it.                                            *)
LEMMA BeginUntorn ==
  ASSUME AccountsTypeOK, Untorn, NEW c \in Calls, NEW kind, NEW token, NEW held,
         Begin(c, kind, token, held), account' = account
  PROVE  Untorn'
<1> SUFFICES ASSUME ~torn' PROVE Untorn'
  BY DEF Untorn
<1> DEFINE w == [kind |-> kind, stage |-> "loaded", row |-> account,
                 token |-> token, held |-> held]
<1>1. calls' = [calls EXCEPT ![c] = w] /\ calls[c] = Idle /\ ~torn
  BY DEF Begin
<1>2. InFlight = {} \/ "signup" \notin {kind} \cup {calls[d].kind : d \in InFlight}
  BY DEF Begin
<1>3. calls'[c] = w /\ \A d \in Calls \ {c} : calls'[d] = calls[d]
  BY <1>1 DEF AccountsTypeOK
<1>4. \A d \in Calls : calls'[d] # Idle => OwnRow(calls'[d].row)
  BY <1>1, <1>3 DEF Untorn
<1>5. ASSUME NEW d \in Calls, calls'[d] # Idle, calls'[d].kind = "signup"
      PROVE  Alone(d)'
  <2>1. InFlight = {}
    <3>1. CASE d = c
      BY <1>2, <1>3, <1>5, <3>1
    <3>2. CASE d # c
      BY <1>2, <1>3, <1>5, <3>2 DEF InFlight
    <3> QED
      BY <3>1, <3>2
  <2>2. d = c
    BY <1>3, <1>5, <2>1 DEF InFlight
  <2>3. w # Idle
    BY DEF Idle
  <2>4. InFlight' = {c}
    BY <1>3, <2>1, <2>3 DEF InFlight
  <2>5. w.row = account /\ w.stage = "loaded"
    OBVIOUS
  <2> HIDE DEF w
  <2> QED
    BY <1>3, <2>2, <2>4, <2>5 DEF Alone
<1>6. OwnRow(account)'
  BY <1>1 DEF Untorn, OwnRow
<1> QED
  BY <1>4, <1>5, <1>6 DEF Untorn

(* Going on or ending keeps it, when the row is written by nobody but a     *)
(* request that was not a sign-up, or by the only request in flight.        *)
LEMMA EndsUntorn ==
  ASSUME AccountsTypeOK, Untorn, NEW c \in Calls, calls[c] # Idle, Ends(c),
         torn' = torn, ~torn => OwnRow(account')
  PROVE  Untorn'
<1> SUFFICES ASSUME ~torn' PROVE Untorn'
  BY DEF Untorn
<1>1. calls'[c] = Idle /\ \A d \in Calls \ {c} : calls'[d] = calls[d]
  BY DEF Ends, AccountsTypeOK
<1>2. ASSUME NEW d \in Calls, calls'[d] # Idle, calls'[d].kind = "signup" PROVE FALSE
  <2>1. d # c /\ calls[d] # Idle /\ calls[d].kind = "signup"
    BY <1>1, <1>2
  <2>2. InFlight = {d}
    BY <2>1 DEF Untorn, Alone
  <2> QED
    BY <2>1, <2>2 DEF InFlight
<1>3. OwnRow(account)'
  BY DEF OwnRow
<1>4. \A d \in Calls : calls'[d] # Idle => OwnRow(calls'[d].row)
  BY <1>1 DEF Untorn
<1> QED
  BY <1>2, <1>3, <1>4 DEF Untorn

LEMMA SavedUntorn ==
  ASSUME AccountsTypeOK, Untorn, NEW c \in Calls, calls[c] # Idle, Saved(c),
         torn' = torn, ~torn => OwnRow(account'), calls[c].kind # "signup"
  PROVE  Untorn'
<1> SUFFICES ASSUME ~torn' PROVE Untorn'
  BY DEF Untorn
<1>0. calls[c] \in Works
  BY DEF AccountsTypeOK
<1>1. calls' = [calls EXCEPT ![c] = [calls[c] EXCEPT !.stage = "saved"]]
  BY DEF Saved
<1>2. /\ calls'[c].row = calls[c].row /\ calls'[c].kind = calls[c].kind
      /\ \A d \in Calls \ {c} : calls'[d] = calls[d]
  BY <1>0, <1>1 DEF AccountsTypeOK, Works
<1>3. ASSUME NEW d \in Calls, calls'[d] # Idle, calls'[d].kind = "signup" PROVE FALSE
  <2>1. d # c /\ calls[d] # Idle /\ calls[d].kind = "signup"
    BY <1>2, <1>3
  <2>2. InFlight = {d}
    BY <2>1 DEF Untorn, Alone
  <2> QED
    BY <2>1, <2>2 DEF InFlight
<1>4. OwnRow(account)'
  BY DEF OwnRow
<1>5. ASSUME NEW d \in Calls, calls'[d] # Idle PROVE OwnRow(calls'[d].row)
  <2>1. calls'[d].row = calls[d].row /\ calls[d] # Idle
    BY <1>2, <1>5
  <2> QED
    BY <2>1 DEF Untorn, OwnRow
<1> QED
  BY <1>3, <1>4, <1>5 DEF Untorn

LEMMA ReloadUntorn ==
  ASSUME Steady, Untorn, NEW c \in Calls, ReloadSignUp(c)
  PROVE  Untorn'
<1> SUFFICES ASSUME ~torn' PROVE Untorn'
  BY DEF Untorn
<1>0. /\ calls[c] \in Works /\ calls[c] # Idle /\ calls[c].kind = "signup"
      /\ account' = account /\ ~torn
  BY AtType DEF ReloadSignUp, Steady
<1>1. Alone(c) /\ OwnRow(account)
  BY <1>0 DEF Untorn
<1>2. CASE Ends(c)
  BY <1>0, <1>1, <1>2, EndsUntorn DEF Steady, ReloadSignUp
<1>3. CASE /\ Live <=> Renews(calls[c].row)
           /\ calls' = [calls EXCEPT ![c].stage = "saved", ![c].row = account]
  <2>1. calls' = [calls EXCEPT ![c] = [calls[c] EXCEPT !.stage = "saved", !.row = account]]
    BY <1>3
  <2>2. calls'[c].row = account /\ \A d \in Calls \ {c} : calls'[d] = calls[d]
    BY <1>0, <2>1 DEF Steady, AccountsTypeOK, Works
  <2>3. calls'[c] # Idle
    <3>1. calls'[c] = [calls[c] EXCEPT !.stage = "saved", !.row = account]
      BY <2>1 DEF Steady, AccountsTypeOK
    <3>2. account \in Rows \cup {NoRow}
      BY DEF Steady, AccountsTypeOK
    <3>3. calls'[c] \in Works
      BY <1>0, <3>1, <3>2 DEF Works
    <3> QED
      BY <3>3, IdleIsNone
  <2>4. \A d \in Calls \ {c} : calls'[d] = Idle
    BY <1>1, <2>2 DEF Alone, InFlight
  <2>5. InFlight' = {c}
    BY <2>3, <2>4 DEF InFlight
  <2>6. account # NoRow /\ ~account.deleted => account.status = "NEW"
    BY <1>1, <1>3 DEF Live, Renews, Alone
  <2>7. Alone(c)'
    BY <1>0, <2>2, <2>5, <2>6 DEF Alone
  <2> QED
    BY <1>0, <1>1, <2>2, <2>4, <2>7 DEF Untorn, OwnRow
<1> QED
  BY <1>2, <1>3 DEF ReloadSignUp

LEMMA UntornNext ==
  ASSUME Steady, Untorn, [AccountsNext]_accountVars
  PROVE  Untorn'
<1> USE DEF Steady
<1>k. ASSUME ~torn, account' = account PROVE OwnRow(account')
  BY <1>k DEF Untorn
<1>r. ASSUME NEW c \in Calls, calls[c] # Idle, ~torn PROVE OwnRow(calls[c].row)
  BY <1>r DEF Untorn
<1>w. ASSUME NEW c \in Calls, NEW kind, NEW t, WithToken(c, kind, t) PROVE Untorn'
  BY <1>w, BeginUntorn DEF WithToken
<1>1. CASE UNCHANGED <<account, calls, torn>>
  BY <1>1 DEF Untorn, OwnRow, Alone, InFlight
<1>2. CASE UNCHANGED accountVars \/ CreateOtp \/ Tick
  BY <1>1, <1>2 DEF accountVars, CreateOtp, Tick
<1>3. ASSUME NEW c \in Calls,
             \/ BeginLogout(c) \/ BeginChange(c) \/ BeginVerify(c) \/ BeginSet(c)
      PROVE  Untorn'
  BY <1>3, <1>w DEF BeginLogout, BeginChange, BeginVerify, BeginSet
<1>4. ASSUME NEW c \in Calls,
             \/ BeginLogin(c) \/ BeginRemove(c) \/ BeginSignUp(c) \/ BeginUpdate(c)
      PROVE  Untorn'
  <2>1. account' = account
    BY <1>4 DEF BeginLogin, BeginRemove, BeginSignUp, BeginUpdate
  <2>2. \E kind, held : Begin(c, kind, NoToken, held)
    BY <1>4 DEF BeginLogin, BeginRemove, BeginSignUp, BeginUpdate
  <2>3. PICK kind, held : Begin(c, kind, NoToken, held)
    BY <2>2
  <2> QED
    BY <2>1, <2>3, BeginUntorn
<1>5. ASSUME NEW c \in Calls,
             \/ FinishLogin(c) \/ FinishLogout(c) \/ FinishVerify(c) \/ FinishSet(c) \/ Fail(c)
      PROVE  Untorn'
  <2>1. calls[c] # Idle /\ Ends(c) /\ account' = account /\ torn' = torn
    BY <1>5 DEF FinishLogin, FinishLogout, FinishVerify, FinishSet, Fail, At
  <2> QED
    BY <2>1, <1>k, EndsUntorn
<1>6. ASSUME NEW c \in Calls, SaveChange(c) PROVE Untorn'
  <2>1. calls[c] # Idle /\ calls[c].row \in Rows /\ Ends(c) /\ torn' = torn
    BY <1>6, AtType DEF SaveChange
  <2>2. PICK p \in Own : account' = [calls[c].row EXCEPT !.password = p, !.status = "NONE"]
    BY <1>6 DEF SaveChange
  <2>3. account'.password = p
    BY <2>1, <2>2 DEF Rows
  <2> QED
    BY <2>1, <2>3, EndsUntorn DEF OwnRow
<1>7. ASSUME NEW c \in Calls, SaveVerify(c) PROVE Untorn'
  <2>1. /\ calls[c] # Idle /\ calls[c].kind # "signup" /\ calls[c].row \in Rows
        /\ Saved(c) /\ torn' = torn
    BY <1>7, AtType DEF SaveVerify
  <2>2. account' = [calls[c].row EXCEPT !.status = "NEW"]
    BY <1>7 DEF SaveVerify
  <2>3. account'.status = "NEW"
    BY <2>1, <2>2 DEF Rows
  <2> QED
    BY <2>1, <2>3, SavedUntorn DEF OwnRow
<1>8. ASSUME NEW c \in Calls, SaveSet(c) PROVE Untorn'
  <2>1. /\ calls[c] # Idle /\ calls[c].kind # "signup" /\ calls[c].row \in Rows
        /\ Saved(c) /\ torn' = torn
    BY <1>8, AtType DEF SaveSet
  <2>2. PICK p \in Own : account' = [calls[c].row EXCEPT !.password = p, !.status = "NONE"]
    BY <1>8 DEF SaveSet
  <2>3. account'.password = p
    BY <2>1, <2>2 DEF Rows
  <2> QED
    BY <2>1, <2>3, SavedUntorn DEF OwnRow
<1>9. ASSUME NEW c \in Calls, Revoke(c) PROVE Untorn'
  <2>1. /\ calls[c] # Idle /\ calls[c].kind # "signup" /\ Saved(c)
        /\ account' = account /\ torn' = torn
    BY <1>9, AtType DEF Revoke
  <2> QED
    BY <2>1, <1>k, SavedUntorn
<1>10. ASSUME NEW c \in Calls, SoftRemove(c) PROVE Untorn'
  <2>1. calls[c] # Idle /\ account \in Rows /\ Ends(c) /\ torn' = torn
    BY <1>10, AtType DEF SoftRemove
  <2>2. account' = [account EXCEPT !.deleted = TRUE]
    BY <1>10 DEF SoftRemove
  <2>3. account'.status = account.status /\ account'.password = account.password
    BY <2>1, <2>2 DEF Rows
  <2>4. ~torn => OwnRow(account')
    BY <2>1, <2>3, NoRowIsNone DEF Untorn, OwnRow
  <2> QED
    BY <2>1, <2>4, EndsUntorn
<1>11. ASSUME NEW c \in Calls, ReloadSignUp(c) PROVE Untorn'
  BY <1>11, ReloadUntorn
<1>12. ASSUME NEW c \in Calls, SaveSignUp(c) PROVE Untorn'
  <2> DEFINE row == calls[c].row
  <2>1. /\ calls[c] # Idle /\ calls[c].kind = "signup" /\ calls[c].stage = "saved"
        /\ calls[c] \in Works /\ row \in Rows \cup {NoRow} /\ Ends(c) /\ torn' = torn
    BY <1>12, AtType, WorkType DEF SaveSignUp, At
  <2>2. ASSUME ~torn PROVE OwnRow(account')
    <3>1. OwnRow(account) /\ Alone(c)
      BY <2>1, <2>2 DEF Untorn
    <3>2. CASE account' = account
      BY <3>1, <3>2
    <3>3. ASSUME NEW p \in Temporary, row # NoRow, ~row.deleted,
                 account' = [row EXCEPT !.password = p]
          PROVE  OwnRow(account')
      <4>1. row.status = "NEW" /\ row \in Rows
        BY <2>1, <3>1, <3>3 DEF Alone
      <4>2. account'.status = "NEW"
        BY <3>3, <4>1 DEF Rows
      <4> QED
        BY <4>2 DEF OwnRow
    <3>4. ASSUME NEW p \in Temporary,
                 account' = [status |-> "NEW", password |-> p, deleted |-> FALSE]
          PROVE  OwnRow(account')
      <4>1. account'.status = "NEW"
        BY <3>4
      <4> QED
        BY <4>1 DEF OwnRow
    <3> QED
      BY <1>12, <3>2, <3>3, <3>4 DEF SaveSignUp
  <2> QED
    BY <2>1, <2>2, EndsUntorn
<1>13. ASSUME NEW c \in Calls, SaveUpdate(c) PROVE Untorn'
  <2>1. calls[c] # Idle /\ Ends(c) /\ account' = calls[c].row /\ torn' = torn
    BY <1>13 DEF SaveUpdate, At
  <2> QED
    BY <2>1, <1>r, EndsUntorn
<1> QED
  BY <1>2, <1>3, <1>4, <1>5, <1>6, <1>7, <1>8, <1>9, <1>10, <1>11, <1>12, <1>13
  DEF AccountsNext

(* A verified account has a password its user chose: sign-ups that overlap  *)
(* no other request replace only passwords nobody has verified.             *)
THEOREM VerifiedHolds == AccountsSpec => []VerifiedMeansOwn
<1>1. AccountsInit => Untorn
  BY DEF AccountsInit, Untorn, OwnRow
<1>2. Untorn => VerifiedMeansOwn
  BY DEF Untorn, OwnRow, VerifiedMeansOwn
<1>3. Steady /\ Untorn /\ [AccountsNext]_accountVars => (Steady /\ Untorn)'
  BY SteadyNext, UntornNext
<1> QED
  BY <1>1, <1>2, <1>3, SteadyInit, PTL DEF AccountsSpec

-----------------------------------------------------------------------------
(* User keys: one row for a public key.  An upload that found no row is the *)
(* only one that did, and one that found a row still knows whose it is.     *)

Found(q) == uploads[q] # NoUpload /\ uploads[q].stage = "found"

UploadsKnown ==
  \A q \in Uploads : uploads[q] # NoUpload =>
    /\ uploads[q].row.key = uploads[q].key /\ uploads[q].row.owner = uploads[q].user
    /\ ~Found(q) => uploads[q].id = NewRow
    /\ Found(q) /\ uploads[q].id # NewRow =>
         /\ uploads[q].id \in Ids
         /\ keys[uploads[q].id].key = uploads[q].key
         /\ keys[uploads[q].id].owner = uploads[q].user

Unique ==
  \A i, j \in Ids : keys[i].key = keys[j].key /\ keys[i].key \notin contested => i = j

Absent ==
  \A q \in Uploads : Found(q) /\ uploads[q].id = NewRow /\ uploads[q].key \notin contested =>
    \A i \in Ids : keys[i].key # uploads[q].key

FoundOnce ==
  \A q, r \in Uploads :
    Found(q) /\ Found(r) /\ uploads[q].key = uploads[r].key /\ q # r =>
      uploads[q].key \in contested

Singled == UploadsKnown /\ Unique /\ Absent /\ FoundOnce

LEMMA KeysAre ==
  ASSUME KeysTypeOK
  PROVE  /\ Ids = 1 .. Len(keys) /\ Len(keys) \in Nat
         /\ keys \in [Ids -> KeyRows]
BY DEF KeysTypeOK, Ids

LEMMA FunctionIsSeq ==
  ASSUME NEW S, NEW n \in Nat, NEW f \in [1 .. n -> S]
  PROVE  f \in Seq(S) /\ Len(f) = n
OBVIOUS

LEMMA UploadType ==
  ASSUME KeysTypeOK, NEW q \in Uploads, uploads[q] # NoUpload
  PROVE  /\ uploads[q] \in UploadSteps
         /\ uploads[q].user \in Users /\ uploads[q].key \in PublicKeys
         /\ uploads[q].index \in Indexes \cup {NoIndex}
         /\ uploads[q].stage \in {"counted", "found"}
         /\ uploads[q].id \in 0 .. MaxKeyRows /\ uploads[q].row \in KeyRows
BY DEF KeysTypeOK, UploadSteps

(* Rows keep their key and their owner.                                     *)
RowsKept ==
  /\ Ids' = Ids
  /\ \A i \in Ids : keys'[i].key = keys[i].key /\ keys'[i].owner = keys[i].owner

(* No deleted row comes back.                                               *)
NoneRevived == \A i \in Ids : keys[i].deleted => keys'[i].deleted

(* An upload is still for the same key and row, and as far as it was.       *)
SameUpload(q) ==
  /\ uploads[q] # NoUpload
  /\ uploads'[q].user = uploads[q].user /\ uploads'[q].key = uploads[q].key
  /\ uploads'[q].stage = uploads[q].stage /\ uploads'[q].id = uploads[q].id
  /\ uploads'[q].row.key = uploads[q].row.key
  /\ uploads'[q].row.owner = uploads[q].row.owner

LEMMA Kept ==
  ASSUME Singled, RowsKept, contested' = contested,
         \A q \in Uploads :
           uploads'[q] = uploads[q] \/ uploads'[q] = NoUpload \/ SameUpload(q)
  PROVE  Singled'
<1>1. \A q \in Uploads : uploads'[q] # NoUpload => SameUpload(q)
  BY DEF SameUpload
<1>2. /\ \A q \in Uploads : Found(q)' => Found(q) /\ SameUpload(q)
      /\ \A q \in Uploads : uploads'[q] # NoUpload /\ ~Found(q)' => ~Found(q)
  BY <1>1 DEF Found, SameUpload
<1>3. UploadsKnown'
  BY <1>1, <1>2 DEF Singled, UploadsKnown, RowsKept, SameUpload
<1>4. Unique'
  BY DEF Singled, Unique, RowsKept
<1>5. Absent'
  BY <1>2 DEF Singled, Absent, RowsKept, SameUpload
<1>6. FoundOnce'
  BY <1>2 DEF Singled, FoundOnce, SameUpload
<1> QED
  BY <1>3, <1>4, <1>5, <1>6 DEF Singled

LEMMA BeginSingled ==
  ASSUME KeysTypeOK, Singled, NEW q \in Uploads, NEW u \in Users, NEW k \in PublicKeys,
         NEW x \in Indexes \cup {NoIndex}, BeginUpload(q, u, k, x)
  PROVE  KeysTypeOK' /\ Singled'
<1> DEFINE w == [user |-> u, key |-> k, index |-> x,
                 stage |-> "counted", id |-> NewRow, row |-> Fresh(u, k, x)]
<1>1. /\ uploads' = [uploads EXCEPT ![q] = w] /\ UNCHANGED <<keys, removed, leaving, contested>>
      /\ crowded' = IF UploadsOf(u) # {} \/ u \in leaving THEN crowded \cup {u} ELSE crowded
  BY DEF BeginUpload
<1>2. Fresh(u, k, x) \in KeyRows /\ Fresh(u, k, x).key = k /\ Fresh(u, k, x).owner = u
  BY DEF Fresh, KeyRows
<1>3. NewRow \in 0 .. MaxKeyRows
  BY KeyBoundsAssumption DEF NewRow
<1>4. w \in UploadSteps
  BY <1>2, <1>3 DEF UploadSteps
<1>5. uploads' \in [Uploads -> UploadSteps \cup {NoUpload}]
  BY <1>1, <1>4 DEF KeysTypeOK
<1>6. KeysTypeOK'
  <2>1. crowded' \subseteq Users
    BY <1>1 DEF KeysTypeOK
  <2> QED
    BY <1>1, <1>5, <2>1 DEF KeysTypeOK
<1>7. uploads'[q] = w /\ \A r \in Uploads \ {q} : uploads'[r] = uploads[r]
  BY <1>1 DEF KeysTypeOK
<1>8. w.stage = "counted" /\ w.id = NewRow /\ w.row.key = w.key /\ w.row.owner = w.user
  BY <1>2
<1> HIDE DEF w
<1>9. /\ ~Found(q)' /\ \A r \in Uploads : Found(r)' => Found(r) /\ uploads'[r] = uploads[r]
      /\ \A r \in Uploads \ {q} : ~Found(r)' <=> ~Found(r)
  BY <1>7, <1>8 DEF Found
<1>10. UploadsKnown'
  BY <1>1, <1>7, <1>8, <1>9 DEF Singled, UploadsKnown, Ids
<1>11. Unique' /\ Absent' /\ FoundOnce'
  BY <1>1, <1>9 DEF Singled, Unique, Absent, FoundOnce, Ids
<1> QED
  BY <1>6, <1>10, <1>11 DEF Singled

LEMMA LookUpSingled ==
  ASSUME KeysTypeOK, Singled, NEW q \in Uploads, LookUp(q)
  PROVE  KeysTypeOK' /\ Singled'
<1> DEFINE up == uploads[q]
           Row(i) == IF up.index = NoIndex THEN keys[i] ELSE [keys[i] EXCEPT !.index = up.index]
           others == \E r \in Busy \ {q} : uploads[r].key = up.key /\ uploads[r].stage = "found"
<1>0. /\ up # NoUpload /\ up.stage = "counted" /\ UNCHANGED <<keys, removed, leaving, crowded>>
      /\ contested' = IF others THEN contested \cup {up.key} ELSE contested
  BY DEF LookUp
<1>1. up \in UploadSteps /\ up.key \in PublicKeys
  BY <1>0, UploadType
<1>2. contested \subseteq contested' /\ contested' \subseteq PublicKeys
  BY <1>0, <1>1 DEF KeysTypeOK
<1>3. keys \in [Ids -> KeyRows]
  BY KeysAre
<1>4. CASE uploads' = [uploads EXCEPT ![q] = NoUpload]
  <2>1. uploads' \in [Uploads -> UploadSteps \cup {NoUpload}]
    BY <1>4 DEF KeysTypeOK
  <2>2. \A r \in Uploads : uploads'[r] # NoUpload => uploads'[r] = uploads[r]
    BY <1>4 DEF KeysTypeOK
  <2>3. KeysTypeOK'
    BY <1>0, <1>2, <2>1 DEF KeysTypeOK
  <2>4. /\ \A r \in Uploads : Found(r)' => Found(r) /\ uploads'[r] = uploads[r]
        /\ \A r \in Uploads : uploads'[r] # NoUpload /\ ~Found(r)' => ~Found(r)
    BY <2>2 DEF Found
  <2>5. UploadsKnown' /\ Unique' /\ Absent' /\ FoundOnce'
    BY <1>0, <1>2, <2>2, <2>4 DEF Singled, UploadsKnown, Unique, Absent, FoundOnce, Ids
  <2> QED
    BY <2>3, <2>5 DEF Singled
<1>5. ASSUME NEW w \in UploadSteps, uploads' = [uploads EXCEPT ![q] = w],
             w.stage = "found", w.key = up.key, w.user = up.user, w.row.key = up.key, w.row.owner = up.user,
             w.id = NewRow => RowsOf(up.key) = {},
             w.id # NewRow => w.id \in Ids /\ keys[w.id].key = up.key /\ keys[w.id].owner = up.user
      PROVE  KeysTypeOK' /\ Singled'
  <2>1. uploads' \in [Uploads -> UploadSteps \cup {NoUpload}]
    BY <1>5 DEF KeysTypeOK
  <2>2. uploads'[q] = w /\ \A r \in Uploads \ {q} : uploads'[r] = uploads[r]
    BY <1>5 DEF KeysTypeOK
  <2>3. KeysTypeOK'
    BY <1>0, <1>2, <2>1 DEF KeysTypeOK
  <2>4. UploadsKnown'
    BY <1>0, <1>5, <2>2 DEF Singled, UploadsKnown, Ids, Found
  <2>5. Unique'
    BY <1>0, <1>2 DEF Singled, Unique, Ids
  <2>6. Absent'
    BY <1>0, <1>2, <1>5, <2>2 DEF Singled, Absent, Ids, Found, RowsOf
  <2>7. ASSUME NEW r \in Uploads, Found(r)', r # q, uploads'[r].key = up.key
        PROVE  up.key \in contested'
    <3>1. uploads[r] # NoUpload /\ uploads[r].stage = "found" /\ uploads[r].key = up.key
      BY <2>2, <2>7 DEF Found
    <3>2. others
      BY <2>7, <3>1 DEF Busy
    <3> QED
      BY <1>0, <3>2
  <2>8. FoundOnce'
    <3> SUFFICES ASSUME NEW r \in Uploads, NEW s \in Uploads, Found(r)', Found(s)',
                        uploads'[r].key = uploads'[s].key, r # s
                 PROVE  uploads'[r].key \in contested'
      BY DEF FoundOnce
    <3>1. CASE r = q
      BY <1>5, <2>2, <2>7, <3>1
    <3>2. CASE s = q
      BY <1>5, <2>2, <2>7, <3>2
    <3>3. CASE r # q /\ s # q
      BY <1>2, <2>2, <3>3 DEF Singled, FoundOnce, Found
    <3> QED
      BY <3>1, <3>2, <3>3
  <2> QED
    BY <2>3, <2>4, <2>5, <2>6, <2>8 DEF Singled
<1>6. up.row.key = up.key /\ up.row.owner = up.user /\ up.id = NewRow
  BY <1>0 DEF Singled, UploadsKnown, Found
<1>7. CASE Candidates(up.key) = {} /\ uploads' = [uploads EXCEPT ![q].stage = "found"]
  <2> DEFINE w == [up EXCEPT !.stage = "found"]
  <2>1. uploads' = [uploads EXCEPT ![q] = w] /\ RowsOf(up.key) = {}
    BY <1>7 DEF Candidates
  <2>2. /\ w \in UploadSteps /\ w.key = up.key /\ w.user = up.user /\ w.row = up.row
        /\ w.id = up.id /\ w.stage = "found"
    BY <1>1 DEF UploadSteps
  <2> QED
    BY <1>5, <1>6, <2>1, <2>2
<1>8. ASSUME NEW i \in Candidates(up.key), ~Refuses(keys[i], up.user, up.index),
             uploads' = [uploads EXCEPT ![q] = [up EXCEPT !.stage = "found", !.id = i, !.row = Row(i)]]
      PROVE  KeysTypeOK' /\ Singled'
  <2> DEFINE w == [up EXCEPT !.stage = "found", !.id = i, !.row = Row(i)]
  <2>1. i \in Ids /\ keys[i].key = up.key /\ keys[i].owner = up.user /\ keys[i] \in KeyRows
    BY <1>3, <1>8 DEF Candidates, RowsOf, Refuses
  <2>2. i \in 0 .. MaxKeyRows /\ i # NewRow
    BY <2>1, KeysAre, KeyBoundsAssumption DEF KeysTypeOK, NewRow
  <2>3. Row(i) \in KeyRows /\ Row(i).key = keys[i].key /\ Row(i).owner = keys[i].owner
    BY <1>1, <2>1 DEF KeyRows, UploadSteps
  <2> HIDE DEF Row
  <2>4. /\ w \in UploadSteps /\ w.key = up.key /\ w.user = up.user /\ w.row = Row(i) /\ w.id = i
        /\ w.stage = "found"
    BY <1>1, <2>2, <2>3 DEF UploadSteps
  <2>5. uploads' = [uploads EXCEPT ![q] = w]
    BY <1>8
  <2> HIDE DEF w
  <2> QED
    BY <1>5, <2>1, <2>2, <2>3, <2>4, <2>5
<1>9. \/ Candidates(up.key) = {} /\ uploads' = [uploads EXCEPT ![q].stage = "found"]
      \/ \E i \in Candidates(up.key) :
           uploads' = [uploads EXCEPT ![q] = IF Refuses(keys[i], up.user, up.index)
              THEN NoUpload ELSE [up EXCEPT !.stage = "found", !.id = i, !.row = Row(i)]]
  BY DEF LookUp
<1> QED
  <2>1. CASE Candidates(up.key) = {} /\ uploads' = [uploads EXCEPT ![q].stage = "found"]
    BY <2>1, <1>7
  <2>2. ASSUME NEW i \in Candidates(up.key),
               uploads' = [uploads EXCEPT ![q] = IF Refuses(keys[i], up.user, up.index)
                  THEN NoUpload ELSE [up EXCEPT !.stage = "found", !.id = i, !.row = Row(i)]]
        PROVE  KeysTypeOK' /\ Singled'
    <3>1. CASE Refuses(keys[i], up.user, up.index)
      BY <1>4, <2>2, <3>1
    <3>2. CASE ~Refuses(keys[i], up.user, up.index)
      BY <1>8, <2>2, <3>2
    <3> QED
      BY <3>1, <3>2
  <2> QED
    BY <1>9, <2>1, <2>2

(* The rows of a step that changes no upload.                               *)
LEMMA RowsRewritten ==
  ASSUME KeysTypeOK, NEW f \in [Ids -> KeyRows], keys' = f
  PROVE  keys' \in Seq(KeyRows) /\ Len(keys') = Len(keys) /\ Ids' = Ids
<1>1. Ids = 1 .. Len(keys) /\ Len(keys) \in Nat
  BY KeysAre
<1>2. f \in Seq(KeyRows) /\ Len(f) = Len(keys) /\ DOMAIN f = Ids
  BY <1>1, FunctionIsSeq
<1> QED
  BY <1>2 DEF Ids

LEMMA SaveSingled ==
  ASSUME KeysTypeOK, Singled, NEW q \in Uploads, SaveKey(q)
  PROVE  KeysTypeOK' /\ Singled'
<1> DEFINE up == uploads[q]
<1>0. /\ up # NoUpload /\ up.stage = "found" /\ Found(q)
      /\ uploads' = [uploads EXCEPT ![q] = NoUpload]
      /\ UNCHANGED <<removed, leaving, crowded, contested>>
  BY DEF SaveKey, Found
<1>1. /\ up \in UploadSteps /\ up.key \in PublicKeys /\ up.row \in KeyRows
      /\ up.row.key = up.key /\ up.row.owner = up.user
  BY <1>0, UploadType DEF Singled, UploadsKnown
<1>2. /\ uploads' \in [Uploads -> UploadSteps \cup {NoUpload}]
      /\ \A r \in Uploads : r # q => uploads'[r] = uploads[r]
      /\ uploads'[q] = NoUpload
  BY <1>0 DEF KeysTypeOK
<1>3. CASE up.id = NewRow
  <2> DEFINE n == Len(keys) + 1
  <2>1. keys' = Append(keys, up.row) /\ Len(keys) < MaxKeyRows
    BY <1>3 DEF SaveKey
  <2>2. /\ keys' \in Seq(KeyRows) /\ Len(keys') = n /\ Ids' = Ids \cup {n}
        /\ keys'[n] = up.row /\ n \notin Ids /\ \A i \in Ids : keys'[i] = keys[i]
    BY <1>1, <2>1, KeysAre DEF KeysTypeOK, Ids
  <2>3. KeysTypeOK'
    BY <1>0, <1>2, <2>1, <2>2, KeysAre, KeyBoundsAssumption DEF KeysTypeOK
  <2> HIDE DEF n
  <2>4. /\ \A r \in Uploads : Found(r)' => Found(r) /\ r # q /\ uploads'[r] = uploads[r]
        /\ \A r \in Uploads : uploads'[r] # NoUpload /\ ~Found(r)' => ~Found(r)
    BY <1>2 DEF Found
  <2>5. UploadsKnown'
    <3> SUFFICES ASSUME NEW r \in Uploads, uploads'[r] # NoUpload
                 PROVE  /\ uploads'[r].row.key = uploads'[r].key
                        /\ uploads'[r].row.owner = uploads'[r].user
                        /\ ~Found(r)' => uploads'[r].id = NewRow
                        /\ Found(r)' /\ uploads'[r].id # NewRow =>
                             /\ uploads'[r].id \in Ids'
                             /\ keys'[uploads'[r].id].key = uploads'[r].key
                             /\ keys'[uploads'[r].id].owner = uploads'[r].user
      BY DEF UploadsKnown
    <3>1. r # q /\ uploads'[r] = uploads[r] /\ uploads[r] # NoUpload
      BY <1>2
    <3> QED
      BY <2>2, <2>4, <3>1 DEF Singled, UploadsKnown
  <2>6. up.key \notin contested => \A i \in Ids : keys[i].key # up.key
    BY <1>0, <1>3 DEF Singled, Absent
  <2>7. Unique'
    BY <1>0, <1>1, <2>2, <2>6 DEF Singled, Unique
  <2>8. Absent'
    <3> SUFFICES ASSUME NEW r \in Uploads, Found(r)', uploads'[r].id = NewRow,
                        uploads'[r].key \notin contested', NEW i \in Ids'
                 PROVE  keys'[i].key # uploads'[r].key
      BY DEF Absent
    <3>1. Found(r) /\ r # q /\ uploads'[r] = uploads[r]
      BY <2>4
    <3>2. uploads[r].key # up.key
      BY <1>0, <3>1 DEF Singled, FoundOnce
    <3> QED
      BY <1>0, <1>1, <2>2, <3>1, <3>2 DEF Singled, Absent
  <2>9. FoundOnce'
    BY <1>0, <2>4 DEF Singled, FoundOnce
  <2> QED
    BY <2>3, <2>5, <2>7, <2>8, <2>9 DEF Singled
<1>4. CASE up.id # NewRow
  <2> DEFINE row == up.row
             f == [keys EXCEPT ![up.id] = row]
  <2>1. keys' = f
    BY <1>4 DEF SaveKey
  <2>2. up.id \in Ids /\ keys[up.id].key = up.key /\ keys[up.id].owner = up.user
    BY <1>0, <1>4 DEF Singled, UploadsKnown
  <2>3. row \in KeyRows /\ row.key = up.key /\ row.owner = up.user
    BY <1>1
  <2> HIDE DEF row
  <2>4. /\ f \in [Ids -> KeyRows] /\ f[up.id] = row
        /\ \A i \in Ids : i # up.id => f[i] = keys[i]
    BY <2>2, <2>3, KeysAre
  <2>5. keys' \in Seq(KeyRows) /\ Len(keys') = Len(keys) /\ Ids' = Ids
    BY <2>1, <2>4, RowsRewritten
  <2>6. RowsKept
    BY <2>1, <2>2, <2>3, <2>4, <2>5 DEF RowsKept
  <2>7. KeysTypeOK'
    BY <1>0, <1>2, <2>5 DEF KeysTypeOK
  <2>8. \A r \in Uploads : uploads'[r] = uploads[r] \/ uploads'[r] = NoUpload
    BY <1>2
  <2> QED
    BY <1>0, <2>6, <2>7, <2>8, Kept
<1> QED
  BY <1>3, <1>4

(* A row that comes back, and the upload that brought it.                   *)
LEMMA Recovered ==
  ASSUME KeysTypeOK, Singled, NEW q \in Uploads, RecoverKey(q)
  PROVE  /\ KeysTypeOK' /\ RowsKept /\ UNCHANGED <<removed, leaving, crowded, contested>>
         /\ uploads[q].id \in Ids /\ keys[uploads[q].id].owner = uploads[q].user
         /\ \A i \in Ids : i # uploads[q].id => keys'[i] = keys[i]
         /\ SameUpload(q) /\ \A r \in Uploads : r # q => uploads'[r] = uploads[r]
<1> DEFINE up == uploads[q]
           row == [keys[up.id] EXCEPT !.deleted = FALSE]
           w == [up EXCEPT !.row = [up.row EXCEPT !.deleted = FALSE]]
           f == [keys EXCEPT ![up.id] = row]
<1>1. /\ up # NoUpload /\ Found(q) /\ up.id # NewRow
      /\ keys' = f /\ uploads' = [uploads EXCEPT ![q] = w]
      /\ UNCHANGED <<removed, leaving, crowded, contested>>
  BY DEF RecoverKey, Found
<1>2. up.id \in Ids /\ keys[up.id].owner = up.user /\ keys[up.id] \in KeyRows
  BY <1>1, KeysAre DEF Singled, UploadsKnown
<1>3. up \in UploadSteps /\ up.row \in KeyRows
  BY <1>1, UploadType
<1>4. row \in KeyRows /\ row.key = keys[up.id].key /\ row.owner = keys[up.id].owner
  BY <1>2 DEF KeyRows
<1>5. /\ [up.row EXCEPT !.deleted = FALSE] \in KeyRows
      /\ [up.row EXCEPT !.deleted = FALSE].key = up.row.key
      /\ [up.row EXCEPT !.deleted = FALSE].owner = up.row.owner
  BY <1>3 DEF KeyRows
<1>6. /\ w \in UploadSteps /\ w.user = up.user /\ w.key = up.key /\ w.stage = up.stage
      /\ w.id = up.id /\ w.row.key = up.row.key /\ w.row.owner = up.row.owner
  BY <1>3, <1>5 DEF UploadSteps
<1> HIDE DEF row, w
<1>7. /\ f \in [Ids -> KeyRows] /\ f[up.id] = row
      /\ \A i \in Ids : i # up.id => f[i] = keys[i]
  BY <1>2, <1>4, KeysAre
<1> HIDE DEF f
<1>8. keys' \in Seq(KeyRows) /\ Len(keys') = Len(keys) /\ Ids' = Ids
  BY <1>1, <1>7, RowsRewritten
<1>9. RowsKept /\ \A i \in Ids : i # up.id => keys'[i] = keys[i]
  BY <1>1, <1>4, <1>7, <1>8 DEF RowsKept
<1>10. /\ uploads' \in [Uploads -> UploadSteps \cup {NoUpload}]
       /\ uploads'[q] = w /\ \A r \in Uploads : r # q => uploads'[r] = uploads[r]
  BY <1>1, <1>6 DEF KeysTypeOK
<1>11. KeysTypeOK'
  BY <1>1, <1>8, <1>10 DEF KeysTypeOK
<1>12. SameUpload(q)
  BY <1>1, <1>6, <1>10 DEF SameUpload
<1> QED
  BY <1>1, <1>2, <1>9, <1>10, <1>11, <1>12

(* Removals and new indexes.                                                *)
LEMMA RowsChanged ==
  ASSUME KeysTypeOK, NEW i,
         RemoveKey(i) \/ \E x \in Indexes : UpdateIndex(i, x)
  PROVE  /\ keys' \in Seq(KeyRows) /\ Len(keys') = Len(keys) /\ RowsKept /\ NoneRevived
         /\ uploads' = uploads /\ contested' = contested /\ removed' = removed
<1>0. keys \in [Ids -> KeyRows]
  BY KeysAre
<1>1. CASE RemoveKey(i)
  <2> DEFINE f == [keys EXCEPT ![i] = [keys[i] EXCEPT !.deleted = TRUE]]
  <2>1. keys' = f /\ i \in Ids
    BY <1>1 DEF RemoveKey
  <2>2. [keys[i] EXCEPT !.deleted = TRUE] \in KeyRows
    BY <1>0, <2>1 DEF KeyRows
  <2>3. f \in [Ids -> KeyRows]
    BY <1>0, <2>2
  <2>4. keys' \in Seq(KeyRows) /\ Len(keys') = Len(keys) /\ Ids' = Ids
    BY <2>1, <2>3, RowsRewritten
  <2>5. \A j \in Ids : /\ f[j].key = keys[j].key /\ f[j].owner = keys[j].owner
                       /\ keys[j].deleted => f[j].deleted
    BY <1>0 DEF KeyRows
  <2> QED
    BY <1>1, <2>1, <2>4, <2>5 DEF RemoveKey, RowsKept, NoneRevived
<1>2. ASSUME NEW x \in Indexes, UpdateIndex(i, x)
      PROVE  /\ keys' \in Seq(KeyRows) /\ Len(keys') = Len(keys) /\ RowsKept /\ NoneRevived
             /\ uploads' = uploads /\ contested' = contested /\ removed' = removed
  <2> DEFINE f == [keys EXCEPT ![i] = [keys[i] EXCEPT !.index = x]]
  <2>1. keys' = f /\ i \in Ids
    BY <1>2 DEF UpdateIndex
  <2>2. [keys[i] EXCEPT !.index = x] \in KeyRows
    BY <1>0, <2>1 DEF KeyRows
  <2>3. f \in [Ids -> KeyRows]
    BY <1>0, <2>2
  <2>4. keys' \in Seq(KeyRows) /\ Len(keys') = Len(keys) /\ Ids' = Ids
    BY <2>1, <2>3, RowsRewritten
  <2>5. \A j \in Ids : /\ f[j].key = keys[j].key /\ f[j].owner = keys[j].owner
                       /\ keys[j].deleted => f[j].deleted
    BY <1>0 DEF KeyRows
  <2> QED
    BY <1>2, <2>1, <2>4, <2>5 DEF UpdateIndex, RowsKept, NoneRevived
<1> QED
  BY <1>1, <1>2

LEMMA KeysDropped ==
  ASSUME KeysTypeOK, NEW u \in Users, DropKeys(u)
  PROVE  /\ \A i \in Ids : keys[i].owner = u => keys'[i].deleted
         /\ keys' \in Seq(KeyRows) /\ Len(keys') = Len(keys) /\ RowsKept /\ NoneRevived
         /\ uploads' = uploads /\ contested' = contested /\ removed' = removed
<1> DEFINE f == WithoutKeysOf(u)
           row(j) == [keys[j] EXCEPT !.deleted = keys[j].deleted \/ keys[j].owner = u]
<1>1. keys' = f
  BY DEF DropKeys
<1>2. f = [j \in Ids |-> row(j)]
  BY DEF WithoutKeysOf
<1>3. \A j \in Ids : /\ row(j) \in KeyRows /\ row(j).key = keys[j].key
                     /\ row(j).owner = keys[j].owner
                     /\ keys[j].deleted \/ keys[j].owner = u => row(j).deleted
  BY KeysAre DEF KeyRows
<1> HIDE DEF f, row
<1>4. f \in [Ids -> KeyRows] /\ \A j \in Ids : f[j] = row(j)
  BY <1>2, <1>3
<1>5. keys' \in Seq(KeyRows) /\ Len(keys') = Len(keys) /\ Ids' = Ids
  BY <1>1, <1>4, RowsRewritten
<1> QED
  BY <1>1, <1>3, <1>4, <1>5 DEF DropKeys, RowsKept, NoneRevived

LEMMA SingledNext ==
  ASSUME KeysTypeOK, Singled, [KeysNext]_keyVars
  PROVE  KeysTypeOK' /\ Singled'
<1>1. CASE UNCHANGED keyVars
  BY <1>1, Kept DEF keyVars, KeysTypeOK, RowsKept, Ids
<1>2. ASSUME NEW q \in Uploads, NEW u \in Users, NEW k \in PublicKeys,
             NEW x \in Indexes \cup {NoIndex}, BeginUpload(q, u, k, x)
      PROVE  KeysTypeOK' /\ Singled'
  BY <1>2, BeginSingled
<1>3. ASSUME NEW q \in Uploads, LookUp(q) PROVE KeysTypeOK' /\ Singled'
  BY <1>3, LookUpSingled
<1>4. ASSUME NEW q \in Uploads, SaveKey(q) PROVE KeysTypeOK' /\ Singled'
  BY <1>4, SaveSingled
<1>5. ASSUME NEW q \in Uploads, FailUpload(q) PROVE KeysTypeOK' /\ Singled'
  <2>1. /\ uploads' \in [Uploads -> UploadSteps \cup {NoUpload}]
        /\ \A r \in Uploads : uploads'[r] = uploads[r] \/ uploads'[r] = NoUpload
    BY <1>5 DEF FailUpload, KeysTypeOK
  <2>2. KeysTypeOK' /\ RowsKept /\ contested' = contested
    BY <1>5, <2>1 DEF FailUpload, KeysTypeOK, RowsKept, Ids
  <2> QED
    BY <2>1, <2>2, Kept
<1>6. ASSUME NEW i \in Ids, RemoveKey(i) \/ \E x \in Indexes : UpdateIndex(i, x)
      PROVE  KeysTypeOK' /\ Singled'
  <2>1. /\ keys' \in Seq(KeyRows) /\ Len(keys') = Len(keys) /\ RowsKept
        /\ uploads' = uploads /\ contested' = contested
    BY <1>6, RowsChanged
  <2>2. UNCHANGED <<removed, leaving, crowded>>
    BY <1>6 DEF RemoveKey, UpdateIndex
  <2> QED
    BY <2>1, <2>2, Kept DEF KeysTypeOK
<1>7. ASSUME NEW u \in Users, DropKeys(u) PROVE KeysTypeOK' /\ Singled'
  <2>1. /\ keys' \in Seq(KeyRows) /\ Len(keys') = Len(keys) /\ RowsKept
        /\ uploads' = uploads /\ contested' = contested
    BY <1>7, KeysDropped
  <2>2. leaving' \subseteq Users /\ crowded' \subseteq Users /\ removed' = removed
    BY <1>7 DEF DropKeys, KeysTypeOK
  <2> QED
    BY <2>1, <2>2, Kept DEF KeysTypeOK
<1>8. ASSUME NEW u \in Users, DropUser(u) \/ FailRemoval(u) \/ Readmit(u)
      PROVE  KeysTypeOK' /\ Singled'
  <2>1. UNCHANGED <<keys, uploads, crowded, contested>>
    BY <1>8 DEF DropUser, FailRemoval, Readmit
  <2>2. removed' \subseteq Users /\ leaving' \subseteq Users
    BY <1>8 DEF DropUser, FailRemoval, Readmit, KeysTypeOK
  <2> QED
    BY <2>1, <2>2, Kept DEF KeysTypeOK, RowsKept, Ids
<1>9. ASSUME NEW q \in Uploads, RecoverKey(q) PROVE KeysTypeOK' /\ Singled'
  <2>1. KeysTypeOK' /\ RowsKept /\ contested' = contested
    BY <1>9, Recovered
  <2>2. \A r \in Uploads : uploads'[r] = uploads[r] \/ SameUpload(r)
    BY <1>9, Recovered
  <2> QED
    BY <2>1, <2>2, Kept
<1> QED
  BY <1>1, <1>2, <1>3, <1>4, <1>5, <1>6, <1>7, <1>8, <1>9 DEF KeysNext

LEMMA SingledInit == KeysInit => KeysTypeOK /\ Singled
<1> SUFFICES ASSUME KeysInit PROVE KeysTypeOK /\ Singled
  OBVIOUS
<1>1. keys = << >> /\ Ids = {} /\ \A q \in Uploads : uploads[q] = NoUpload
  BY DEF KeysInit, Ids
<1>2. KeysTypeOK
  BY <1>1, KeyBoundsAssumption DEF KeysInit, KeysTypeOK
<1>3. Singled
  BY <1>1 DEF Singled, UploadsKnown, Unique, Absent, FoundOnce, Found
<1> QED
  BY <1>2, <1>3

(* The table and the uploads keep their types.                              *)
THEOREM KeysTypeCorrect == KeysSpec => []KeysTypeOK
<1>1. KeysTypeOK /\ Singled /\ [KeysNext]_keyVars => (KeysTypeOK /\ Singled)'
  BY SingledNext
<1> QED
  BY <1>1, SingledInit, PTL DEF KeysSpec

(* A public key has at most one row, unless two uploads looked it up before *)
(* either saved.                                                            *)
THEOREM OneRowHolds == KeysSpec => []OneRowPerKey
<1>1. KeysTypeOK /\ Singled /\ [KeysNext]_keyVars => (KeysTypeOK /\ Singled)'
  BY SingledNext
<1>2. KeysTypeOK /\ Singled => OneRowPerKey
  <2> SUFFICES ASSUME Singled, NEW k \in PublicKeys \ contested
               PROVE  Cardinality(RowsOf(k)) <= 1
    BY DEF OneRowPerKey
  <2>1. CASE RowsOf(k) = {}
    BY <2>1, FS_EmptySet
  <2>2. CASE RowsOf(k) # {}
    <3>1. PICK i \in RowsOf(k) : TRUE
      BY <2>2
    <3>2. RowsOf(k) = {i}
      BY <3>1 DEF RowsOf, Singled, Unique
    <3>3. Cardinality({i}) = 1
      BY FS_Singleton
    <3> QED
      BY <3>2, <3>3
  <2> QED
    BY <2>1, <2>2
<1> QED
  BY <1>1, <1>2, SingledInit, PTL DEF KeysSpec

-----------------------------------------------------------------------------
(* User keys: the owner a report names stands.                              *)

LEMMA OwnerIs ==
  ASSUME NEW k, NEW i \in Int, RowsOf(k) = {i}
  PROVE  ReportOwner(k) = keys[i].owner
<1> DEFINE live == {j \in RowsOf(k) : ~keys[j].deleted}
           best == IF live # {} THEN live ELSE RowsOf(k)
<1>1. best = {i}
  OBVIOUS
<1>2. i <= i
  OBVIOUS
<1>3. (CHOOSE j \in best : \A m \in best : m <= j) = i
  BY <1>1, <1>2
<1> QED
  BY <1>3 DEF ReportOwner

LEMMA OwnerKept ==
  ASSUME KeysTypeOK, Unique, NEW k \in PublicKeys \ contested, RowsOf(k) # {},
         RowsOf(k)' = RowsOf(k),
         \A i \in RowsOf(k) : keys'[i].owner = keys[i].owner
  PROVE  RowsOf(k)' # {} /\ ReportOwner(k)' = ReportOwner(k)
<1>1. PICK i \in RowsOf(k) : TRUE
  OBVIOUS
<1>2. RowsOf(k) = {i}
  BY <1>1 DEF RowsOf, Unique
<1>3. RowsOf(k)' = {i} /\ keys'[i].owner = keys[i].owner /\ i \in Int
  BY <1>1, <1>2, KeysAre DEF RowsOf
<1>4. ReportOwner(k) = keys[i].owner
  BY <1>2, <1>3, OwnerIs
<1>5. ReportOwner(k)' = keys'[i].owner
  <2> DEFINE live == {j \in RowsOf(k)' : ~keys'[j].deleted}
             best == IF live # {} THEN live ELSE RowsOf(k)'
  <2>1. best = {i}
    BY <1>3
  <2>2. i <= i
    BY <1>3
  <2>3. (CHOOSE j \in best : \A m \in best : m <= j) = i
    BY <2>1, <2>2
  <2> QED
    BY <2>3 DEF ReportOwner
<1> QED
  BY <1>3, <1>4, <1>5

(* Every step keeps the rows, but the insert of an upload.                  *)
LEMMA RowsStand ==
  ASSUME KeysTypeOK, Singled, [KeysNext]_keyVars
  PROVE  /\ contested \subseteq contested'
         /\ RowsKept \/ \E q \in Uploads : SaveKey(q) /\ uploads[q].id = NewRow
<1> DEFINE Stands == contested \subseteq contested' /\ RowsKept
<1>1. CASE UNCHANGED <<keys, contested>>
  BY <1>1 DEF RowsKept, Ids
<1>2. ASSUME NEW q \in Uploads, LookUp(q) PROVE Stands
  <2>1. UNCHANGED keys /\ contested \subseteq contested'
    BY <1>2 DEF LookUp
  <2> QED
    BY <2>1 DEF RowsKept, Ids
<1>3. ASSUME NEW q \in Uploads, SaveKey(q), uploads[q].id # NewRow PROVE Stands
  <2> DEFINE up == uploads[q]
             row == up.row
  <2>1. Found(q) /\ keys' = [keys EXCEPT ![up.id] = row] /\ contested' = contested
    BY <1>3 DEF SaveKey, Found
  <2>2. /\ up.id \in Ids /\ keys[up.id].key = up.key /\ keys[up.id].owner = up.user
        /\ up.row.key = up.key /\ up.row.owner = up.user /\ up.row \in KeyRows
    BY <1>3, <2>1, UploadType DEF Singled, UploadsKnown, Found
  <2>3. row.key = up.key /\ row.owner = up.user
    BY <2>2
  <2> HIDE DEF row
  <2>4. Ids' = Ids /\ keys'[up.id] = row /\ \A i \in Ids : i # up.id => keys'[i] = keys[i]
    BY <2>1, <2>2, KeysAre DEF Ids
  <2> QED
    BY <2>1, <2>2, <2>3, <2>4 DEF RowsKept
<1>4. ASSUME NEW q \in Uploads, SaveKey(q), uploads[q].id = NewRow
      PROVE  contested' = contested
  BY <1>4 DEF SaveKey
<1>5. ASSUME NEW i \in Ids, RemoveKey(i) \/ \E x \in Indexes : UpdateIndex(i, x) PROVE Stands
  BY <1>5, RowsChanged
<1>6. ASSUME NEW u \in Users, DropKeys(u) PROVE Stands
  BY <1>6, KeysDropped
<1>7. ASSUME NEW q \in Uploads, RecoverKey(q) PROVE Stands
  BY <1>7, Recovered
<1> QED
  BY <1>1, <1>2, <1>3, <1>4, <1>5, <1>6, <1>7
  DEF KeysNext, keyVars, BeginUpload, FailUpload, DropUser, FailRemoval, Readmit

(* The user a report names for a public key stays the one it named, unless  *)
(* two uploads looked the key up before either saved.                       *)
THEOREM OwnerHolds == KeysSpec => OwnerStands
<1>1. KeysTypeOK /\ Singled /\ [KeysNext]_keyVars => (KeysTypeOK /\ Singled)'
  BY SingledNext
<1>2. ASSUME KeysTypeOK, Singled, [KeysNext]_keyVars
      PROVE  [\A k \in PublicKeys \ contested' :
                RowsOf(k) # {} => RowsOf(k)' # {} /\ ReportOwner(k)' = ReportOwner(k)]_keyVars
  <2> SUFFICES ASSUME NEW k \in PublicKeys \ contested', RowsOf(k) # {}
               PROVE  RowsOf(k)' # {} /\ ReportOwner(k)' = ReportOwner(k)
    OBVIOUS
  <2>1. k \in PublicKeys \ contested
    BY <1>2, RowsStand
  <2>2. CASE RowsKept
    <3>1. RowsOf(k)' = RowsOf(k) /\ \A i \in RowsOf(k) : keys'[i].owner = keys[i].owner
      BY <2>2 DEF RowsOf, RowsKept
    <3> QED
      BY <1>2, <2>1, <3>1, OwnerKept DEF Singled
  <2>3. ASSUME NEW q \in Uploads, SaveKey(q), uploads[q].id = NewRow
        PROVE  RowsOf(k)' # {} /\ ReportOwner(k)' = ReportOwner(k)
    <3> DEFINE up == uploads[q]
               n == Len(keys) + 1
    <3>1. Found(q) /\ keys' = Append(keys, up.row) /\ up \in UploadSteps /\ up.row.key = up.key
      BY <1>2, <2>3, UploadType DEF SaveKey, Found, Singled, UploadsKnown
    <3>2. /\ Ids' = Ids \cup {n} /\ keys'[n] = up.row /\ n \notin Ids
          /\ \A i \in Ids : keys'[i] = keys[i]
      BY <1>2, <3>1, KeysAre DEF KeysTypeOK, Ids
    <3>3. up.key # k
      BY <1>2, <2>1, <2>3, <3>1 DEF Singled, Absent, RowsOf
    <3> HIDE DEF n
    <3>4. RowsOf(k)' = RowsOf(k) /\ \A i \in RowsOf(k) : keys'[i].owner = keys[i].owner
      BY <3>1, <3>2, <3>3 DEF RowsOf
    <3> QED
      BY <1>2, <2>1, <3>4, OwnerKept DEF Singled
  <2> QED
    BY <1>2, <2>2, <2>3, RowsStand
<1> QED
  BY <1>1, <1>2, SingledInit, PTL DEF KeysSpec, OwnerStands

-----------------------------------------------------------------------------
(* User keys: the bound.  A user without overlapping requests has at most   *)
(* one upload in flight, with room for its row besides the others, and none *)
(* while it is removed.                                                     *)

RoomFor(q, u) == Cardinality(LiveKeys(u) \ {uploads[q].id}) < MaxKeys

InBounds(u) ==
  /\ Cardinality(LiveKeys(u)) <= MaxKeys
  /\ \A q \in UploadsOf(u) : RoomFor(q, u)
  /\ u \in removed \cup leaving => LiveKeys(u) = {} /\ UploadsOf(u) = {}
  /\ \A q, r \in UploadsOf(u) : q = r

Bounded == \A u \in Users \ crowded : InBounds(u)

LEMMA LiveFinite ==
  ASSUME KeysTypeOK, NEW u
  PROVE  IsFiniteSet(LiveKeys(u)) /\ Cardinality(LiveKeys(u)) \in Nat
<1>1. IsFiniteSet(1 .. Len(keys))
  BY KeysAre, FS_Interval
<1>2. LiveKeys(u) \in SUBSET (1 .. Len(keys))
  BY KeysAre DEF LiveKeys
<1>3. IsFiniteSet(LiveKeys(u))
  BY <1>1, <1>2, FS_Subset
<1> QED
  BY <1>3, FS_CardinalityType

LEMMA FewerKeys ==
  ASSUME KeysTypeOK, NEW u, NEW S, S \subseteq LiveKeys(u), NEW T, T \subseteq S
  PROVE  /\ IsFiniteSet(S) /\ Cardinality(S) \in Nat
         /\ Cardinality(T) \in Nat /\ Cardinality(T) <= Cardinality(S)
<1>1. IsFiniteSet(S)
  BY LiveFinite, FS_Subset
<1>2. IsFiniteSet(T) /\ Cardinality(T) <= Cardinality(S)
  BY <1>1, FS_Subset
<1> QED
  BY <1>1, <1>2, FS_CardinalityType

LEMMA NewIsNoId == KeysTypeOK => NewRow \notin Ids
BY KeysAre DEF NewRow

(* What an upload writes is its row.                                        *)
SameRow(q) == uploads'[q].id = uploads[q].id \/ uploads[q].id = NewRow

LEMMA RoomStays ==
  ASSUME KeysTypeOK, NEW u, NEW q, RoomFor(q, u), SameRow(q), LiveKeys(u)' \subseteq LiveKeys(u)
  PROVE  RoomFor(q, u)'
<1> DEFINE S == LiveKeys(u) \ {uploads[q].id}
           T == LiveKeys(u)' \ {uploads'[q].id}
<1>1. T \subseteq S
  BY NewIsNoId DEF SameRow, LiveKeys
<1>2. Cardinality(T) \in Nat /\ Cardinality(S) \in Nat /\ Cardinality(T) <= Cardinality(S)
  <2>1. S \subseteq LiveKeys(u)
    OBVIOUS
  <2> HIDE DEF S, T
  <2> QED
    BY <1>1, <2>1, FewerKeys
<1>3. Cardinality(S) < MaxKeys
  BY DEF RoomFor
<1>4. Cardinality(T) < MaxKeys
  <2> HIDE DEF S, T
  <2> QED
    BY <1>2, <1>3, KeyBoundsAssumption
<1> QED
  BY <1>4 DEF RoomFor

LEMMA FewerInBounds ==
  ASSUME KeysTypeOK, NEW u, InBounds(u),
         LiveKeys(u)' \subseteq LiveKeys(u), UploadsOf(u)' \subseteq UploadsOf(u),
         \A q \in UploadsOf(u)' : SameRow(q),
         u \in removed' \cup leaving' => LiveKeys(u)' = {} /\ UploadsOf(u)' = {}
  PROVE  InBounds(u)'
<1> DEFINE m == Cardinality(LiveKeys(u))
           n == Cardinality(LiveKeys(u)')
<1>1. m \in Nat /\ n \in Nat /\ n <= m
  BY FewerKeys
<1>2. n <= MaxKeys
  BY <1>1, KeyBoundsAssumption DEF InBounds
<1>3. \A q \in UploadsOf(u)' : RoomFor(q, u)'
  BY RoomStays DEF InBounds
<1> QED
  BY <1>2, <1>3 DEF InBounds

(* A step that saves nothing, and starts no upload of u.                    *)
LEMMA NothingNew ==
  ASSUME KeysTypeOK, NEW u, InBounds(u), RowsKept, NoneRevived,
         \A q \in Uploads : uploads'[q] # NoUpload =>
           uploads[q] # NoUpload /\ uploads'[q].user = uploads[q].user /\ SameRow(q),
         u \in removed' \cup leaving' =>
           u \in removed \cup leaving \/ (LiveKeys(u)' = {} /\ UploadsOf(u) = {})
  PROVE  InBounds(u)'
<1>1. LiveKeys(u)' \subseteq LiveKeys(u)
  BY DEF LiveKeys, RowsKept, NoneRevived
<1>2. UploadsOf(u)' \subseteq UploadsOf(u) /\ \A q \in UploadsOf(u)' : SameRow(q)
  BY DEF UploadsOf, Busy
<1> QED
  BY <1>1, <1>2, FewerInBounds DEF InBounds

(* A step that writes, alive, the row of an upload of u.                    *)
LEMMA RowAdded ==
  ASSUME KeysTypeOK, NEW u, NEW q, RoomFor(q, u), NEW n,
         LiveKeys(u)' \subseteq (LiveKeys(u) \ {uploads[q].id}) \cup {n}
  PROVE  Cardinality(LiveKeys(u)') <= MaxKeys
<1> DEFINE S == LiveKeys(u) \ {uploads[q].id}
           L == LiveKeys(u)'
<1>1. IsFiniteSet(S) /\ Cardinality(S) \in Nat
  <2>1. S \subseteq LiveKeys(u)
    OBVIOUS
  <2> HIDE DEF S
  <2> QED
    BY <2>1, FewerKeys
<1>2. Cardinality(S) < MaxKeys /\ L \subseteq S \cup {n}
  BY DEF RoomFor
<1> HIDE DEF S, L
<1>3. /\ IsFiniteSet(S \cup {n})
      /\ Cardinality(S \cup {n}) = IF n \in S THEN Cardinality(S) ELSE Cardinality(S) + 1
  BY <1>1, FS_AddElement
<1>4. IsFiniteSet(L) /\ Cardinality(L) <= Cardinality(S \cup {n})
  BY <1>2, <1>3, FS_Subset
<1>5. Cardinality(L) \in Nat
  BY <1>4, FS_CardinalityType
<1>6. Cardinality(L) <= MaxKeys
  BY <1>1, <1>2, <1>3, <1>4, <1>5, KeyBoundsAssumption
<1> QED
  BY <1>6 DEF L

LEMMA BeginBounded ==
  ASSUME KeysTypeOK, Bounded, NEW q \in Uploads, NEW u \in Users, NEW k, NEW x,
         BeginUpload(q, u, k, x)
  PROVE  Bounded'
<1> SUFFICES ASSUME NEW v \in Users \ crowded' PROVE InBounds(v)'
  BY DEF Bounded
<1> DEFINE w == [user |-> u, key |-> k, index |-> x,
                 stage |-> "counted", id |-> NewRow, row |-> Fresh(u, k, x)]
<1>1. /\ uploads' = [uploads EXCEPT ![q] = w] /\ UNCHANGED <<keys, removed, leaving>>
      /\ u \notin removed /\ HasRoom(u)
      /\ crowded' = IF UploadsOf(u) # {} \/ u \in leaving THEN crowded \cup {u} ELSE crowded
  BY DEF BeginUpload
<1>2. /\ uploads'[q] = w /\ w.user = u /\ w.id = NewRow
      /\ \A r \in Uploads \ {q} : uploads'[r] = uploads[r]
  BY <1>1 DEF KeysTypeOK
<1> HIDE DEF w
<1>3. InBounds(v)
  BY <1>1 DEF Bounded
<1>4. LiveKeys(v)' = LiveKeys(v)
  BY <1>1 DEF LiveKeys, Ids
<1>5. CASE v = u
  <2>1. UploadsOf(u) = {} /\ u \notin leaving
    BY <1>1, <1>5
  <2>2. UploadsOf(u)' \subseteq {q}
    BY <1>2, <2>1 DEF UploadsOf, Busy
  <2>3. RoomFor(q, u)'
    <3>1. LiveKeys(u) \ {uploads'[q].id} = LiveKeys(u)
      BY <1>2, NewIsNoId DEF LiveKeys
    <3> QED
      BY <1>1, <1>4, <1>5, <3>1 DEF RoomFor, HasRoom
  <2> QED
    BY <1>1, <1>3, <1>4, <1>5, <2>1, <2>2, <2>3 DEF InBounds
<1>6. CASE v # u
  <2>1. UploadsOf(v)' \subseteq UploadsOf(v) /\ \A r \in UploadsOf(v)' : SameRow(r)
    BY <1>2, <1>6 DEF UploadsOf, Busy, SameRow
  <2> QED
    BY <1>1, <1>3, <1>4, <2>1, FewerInBounds DEF InBounds
<1> QED
  BY <1>5, <1>6

LEMMA SaveBounded ==
  ASSUME KeysTypeOK, Singled, Bounded, NEW q \in Uploads, SaveKey(q)
  PROVE  Bounded'
<1> SUFFICES ASSUME NEW v \in Users \ crowded' PROVE InBounds(v)'
  BY DEF Bounded
<1> DEFINE up == uploads[q]
<1>1. /\ up # NoUpload /\ uploads' = [uploads EXCEPT ![q] = NoUpload] /\ Found(q)
      /\ UNCHANGED <<removed, leaving, crowded>>
  BY DEF SaveKey, Found
<1>2. up.row \in KeyRows /\ up.row.owner = up.user
  BY <1>1, UploadType DEF Singled, UploadsKnown
<1>3. uploads'[q] = NoUpload /\ \A r \in Uploads : r # q => uploads'[r] = uploads[r]
  BY <1>1 DEF KeysTypeOK
<1>4. InBounds(v)
  BY <1>1 DEF Bounded
<1>5. PICK n : /\ keys'[n].owner = up.user /\ Ids' \subseteq Ids \cup {n}
               /\ \A i \in Ids : i # n => keys'[i] = keys[i]
               /\ n = up.id \/ up.id \notin Ids
  <2>1. CASE up.id = NewRow
    <3> DEFINE n == Len(keys) + 1
    <3>1. keys' = Append(keys, up.row)
      BY <2>1 DEF SaveKey
    <3>2. /\ Ids' = Ids \cup {n} /\ keys'[n] = up.row /\ \A i \in Ids : keys'[i] = keys[i]
      BY <1>2, <3>1, KeysAre DEF KeysTypeOK, Ids
    <3> QED
      BY <1>2, <2>1, <3>2, NewIsNoId
  <2>2. CASE up.id # NewRow
    <3> DEFINE row == up.row
    <3>1. keys' = [keys EXCEPT ![up.id] = row] /\ up.id \in Ids
      BY <1>1, <2>2 DEF SaveKey, Singled, UploadsKnown
    <3>2. row.owner = up.user
      BY <1>2
    <3> HIDE DEF row
    <3>3. /\ Ids' = Ids /\ keys'[up.id] = row
          /\ \A i \in Ids : i # up.id => keys'[i] = keys[i]
      BY <3>1, KeysAre DEF Ids
    <3> QED
      BY <3>2, <3>3
  <2> QED
    BY <2>1, <2>2
<1>6. UploadsOf(v)' \subseteq UploadsOf(v) /\ \A r \in UploadsOf(v)' : SameRow(r)
  BY <1>3 DEF UploadsOf, Busy, SameRow
<1>7. CASE v = up.user
  <2>1. q \in UploadsOf(v)
    BY <1>1, <1>7 DEF UploadsOf, Busy
  <2>2. UploadsOf(v) = {q} /\ v \notin removed \cup leaving
    BY <1>4, <2>1 DEF InBounds
  <2>3. UploadsOf(v)' = {}
    BY <1>3, <1>6, <2>2 DEF UploadsOf, Busy
  <2>4. LiveKeys(v)' \subseteq (LiveKeys(v) \ {up.id}) \cup {n}
    BY <1>5 DEF LiveKeys
  <2>5. RoomFor(q, v)
    BY <1>4, <2>1 DEF InBounds
  <2>6. Cardinality(LiveKeys(v)') <= MaxKeys
    BY <2>4, <2>5, RowAdded
  <2> QED
    BY <1>1, <2>2, <2>3, <2>6 DEF InBounds
<1>8. CASE v # up.user
  <2>1. LiveKeys(v)' \subseteq LiveKeys(v)
    BY <1>5, <1>8 DEF LiveKeys
  <2> QED
    BY <1>1, <1>4, <1>6, <2>1, FewerInBounds DEF InBounds
<1> QED
  BY <1>7, <1>8

LEMMA RecoverBounded ==
  ASSUME KeysTypeOK, Singled, Bounded, NEW q \in Uploads, RecoverKey(q)
  PROVE  Bounded'
<1> SUFFICES ASSUME NEW v \in Users \ crowded' PROVE InBounds(v)'
  BY DEF Bounded
<1> DEFINE up == uploads[q]
<1>1. /\ RowsKept /\ UNCHANGED <<removed, leaving, crowded>>
      /\ up.id \in Ids /\ keys[up.id].owner = up.user
      /\ \A i \in Ids : i # up.id => keys'[i] = keys[i]
      /\ SameUpload(q) /\ \A r \in Uploads : r # q => uploads'[r] = uploads[r]
  BY Recovered
<1>2. InBounds(v)
  BY <1>1 DEF Bounded
<1>3. UploadsOf(v)' \subseteq UploadsOf(v) /\ \A r \in UploadsOf(v)' : SameRow(r)
  BY <1>1 DEF UploadsOf, Busy, SameRow, SameUpload
<1>4. CASE v = up.user
  <2>1. q \in UploadsOf(v)
    BY <1>1, <1>4 DEF UploadsOf, Busy, SameUpload
  <2>2. UploadsOf(v) = {q} /\ v \notin removed \cup leaving /\ RoomFor(q, v)
    BY <1>2, <2>1 DEF InBounds
  <2>3. /\ LiveKeys(v)' \subseteq (LiveKeys(v) \ {up.id}) \cup {up.id}
        /\ LiveKeys(v)' \ {up.id} = LiveKeys(v) \ {up.id}
    BY <1>1 DEF LiveKeys, RowsKept
  <2>4. Cardinality(LiveKeys(v)') <= MaxKeys
    BY <2>2, <2>3, RowAdded
  <2>5. RoomFor(q, v)'
    BY <1>1, <2>2, <2>3 DEF RoomFor, SameUpload
  <2> QED
    BY <1>1, <1>3, <2>2, <2>4, <2>5 DEF InBounds
<1>5. CASE v # up.user
  <2>1. LiveKeys(v)' \subseteq LiveKeys(v)
    BY <1>1, <1>5 DEF LiveKeys, RowsKept
  <2> QED
    BY <1>1, <1>2, <1>3, <2>1, FewerInBounds DEF InBounds
<1> QED
  BY <1>4, <1>5

LEMMA BoundedNext ==
  ASSUME KeysTypeOK, Singled, Bounded, [KeysNext]_keyVars
  PROVE  Bounded'
<1>0. ASSUME UNCHANGED keys PROVE RowsKept /\ NoneRevived
  BY <1>0 DEF RowsKept, NoneRevived, Ids
<1>n. ASSUME RowsKept, NoneRevived, crowded' = crowded,
             removed' \cup leaving' \subseteq removed \cup leaving,
             \A q \in Uploads : uploads'[q] # NoUpload =>
               uploads[q] # NoUpload /\ uploads'[q].user = uploads[q].user /\ SameRow(q)
      PROVE  Bounded'
  <2> SUFFICES ASSUME NEW v \in Users \ crowded PROVE InBounds(v)'
    BY <1>n DEF Bounded
  <2>1. InBounds(v)
    BY DEF Bounded
  <2>2. v \in removed' \cup leaving' => v \in removed \cup leaving
    BY <1>n
  <2> QED
    BY <1>n, <2>1, <2>2, NothingNew
<1>1. CASE UNCHANGED keyVars
  BY <1>1 DEF keyVars, Bounded, InBounds, RoomFor, LiveKeys, UploadsOf, Busy, Ids
<1>2. ASSUME NEW q \in Uploads, NEW u \in Users, NEW k \in PublicKeys,
             NEW x \in Indexes \cup {NoIndex}, BeginUpload(q, u, k, x)
      PROVE  Bounded'
  BY <1>2, BeginBounded
<1>3. ASSUME NEW q \in Uploads, LookUp(q) \/ FailUpload(q) PROVE Bounded'
  <2>1. UNCHANGED <<keys, removed, leaving, crowded>> /\ uploads[q] # NoUpload
    BY <1>3 DEF LookUp, FailUpload
  <2>2. uploads[q] \in UploadSteps
    BY <2>1, UploadType
  <2>3. PICK w : /\ uploads' = [uploads EXCEPT ![q] = w]
                 /\ w = NoUpload \/ w.user = uploads[q].user
    <3>1. CASE FailUpload(q)
      BY <3>1 DEF FailUpload
    <3>2. CASE LookUp(q)
      <4>1. \A i, row : [uploads[q] EXCEPT !.stage = "found", !.id = i, !.row = row].user
                          = uploads[q].user
        BY <2>2 DEF UploadSteps
      <4>2. [uploads[q] EXCEPT !.stage = "found"].user = uploads[q].user
        BY <2>2 DEF UploadSteps
      <4>3. CASE uploads' = [uploads EXCEPT ![q].stage = "found"]
        BY <4>2, <4>3
      <4>4. ASSUME NEW i, NEW row,
                   uploads' = [uploads EXCEPT ![q] = IF Refuses(keys[i], uploads[q].user, uploads[q].index)
                      THEN NoUpload
                      ELSE [uploads[q] EXCEPT !.stage = "found", !.id = i, !.row = row]]
            PROVE  \E w : /\ uploads' = [uploads EXCEPT ![q] = w]
                          /\ w = NoUpload \/ w.user = uploads[q].user
        <5>1. CASE Refuses(keys[i], uploads[q].user, uploads[q].index)
          BY <4>4, <5>1
        <5>2. CASE ~Refuses(keys[i], uploads[q].user, uploads[q].index)
          BY <4>1, <4>4, <5>2
        <5> QED
          BY <5>1, <5>2
      <4> QED
        BY <3>2, <4>3, <4>4 DEF LookUp
    <3> QED
      BY <1>3, <3>1, <3>2
  <2>4. \A r \in Uploads : uploads'[r] # NoUpload =>
           /\ uploads[r] # NoUpload /\ uploads'[r].user = uploads[r].user
           /\ SameRow(r)
    <3>1. LookUp(q) => uploads[q].id = NewRow
      BY <2>1 DEF LookUp, Singled, UploadsKnown, Found
    <3>2. FailUpload(q) => uploads'[q] = NoUpload
      BY DEF FailUpload, KeysTypeOK
    <3> QED
      BY <1>3, <2>1, <2>3, <3>1, <3>2 DEF KeysTypeOK, SameRow
  <2> QED
    BY <1>0, <1>n, <2>1, <2>4
<1>4. ASSUME NEW q \in Uploads, SaveKey(q) PROVE Bounded'
  BY <1>4, SaveBounded
<1>5. ASSUME NEW i \in Ids, RemoveKey(i) \/ \E x \in Indexes : UpdateIndex(i, x) PROVE Bounded'
  <2>1. UNCHANGED <<uploads, removed, leaving, crowded>>
    BY <1>5 DEF RemoveKey, UpdateIndex
  <2>2. RowsKept /\ NoneRevived
    BY <1>5, RowsChanged
  <2>3. \A q \in Uploads : SameRow(q)
    BY <2>1 DEF SameRow
  <2> QED
    BY <1>n, <2>1, <2>2, <2>3
<1>6. ASSUME NEW u \in Users, DropKeys(u) PROVE Bounded'
  <2> SUFFICES ASSUME NEW v \in Users \ crowded' PROVE InBounds(v)'
    BY DEF Bounded
  <2>1. /\ UNCHANGED <<uploads, removed>> /\ leaving' = leaving \cup {u}
        /\ crowded' = IF UploadsOf(u) # {} THEN crowded \cup {u} ELSE crowded
    BY <1>6 DEF DropKeys
  <2>2. RowsKept /\ NoneRevived /\ \A i \in Ids : keys[i].owner = u => keys'[i].deleted
    BY <1>6, KeysDropped
  <2>3. InBounds(v)
    BY <2>1 DEF Bounded
  <2>4. v = u => LiveKeys(v)' = {} /\ UploadsOf(v) = {}
    BY <2>1, <2>2 DEF LiveKeys, RowsKept
  <2>5. v \in removed' \cup leaving' =>
          v \in removed \cup leaving \/ (LiveKeys(v)' = {} /\ UploadsOf(v) = {})
    BY <2>1, <2>4
  <2>6. \A q \in Uploads : uploads'[q] # NoUpload =>
           /\ uploads[q] # NoUpload /\ uploads'[q].user = uploads[q].user
           /\ SameRow(q)
    BY <2>1 DEF SameRow
  <2> QED
    BY <2>2, <2>3, <2>5, <2>6, NothingNew
<1>7. ASSUME NEW u \in Users, DropUser(u) \/ FailRemoval(u) \/ Readmit(u) PROVE Bounded'
  <2>1. UNCHANGED <<keys, uploads, crowded>>
    BY <1>7 DEF DropUser, FailRemoval, Readmit
  <2>2. removed' \cup leaving' \subseteq removed \cup leaving
    BY <1>7 DEF DropUser, FailRemoval, Readmit
  <2>3. \A q \in Uploads : SameRow(q)
    BY <2>1 DEF SameRow
  <2> QED
    BY <1>0, <1>n, <2>1, <2>2, <2>3
<1>8. ASSUME NEW q \in Uploads, RecoverKey(q) PROVE Bounded'
  BY <1>8, RecoverBounded
<1> QED
  BY <1>1, <1>2, <1>3, <1>4, <1>5, <1>6, <1>7, <1>8 DEF KeysNext

LEMMA BoundedInit == KeysInit => Bounded
<1> SUFFICES ASSUME KeysInit, NEW u PROVE InBounds(u)
  BY DEF Bounded
<1>1. LiveKeys(u) = {} /\ UploadsOf(u) = {}
  BY DEF KeysInit, LiveKeys, UploadsOf, Busy, Ids
<1> QED
  BY <1>1, FS_EmptySet, KeyBoundsAssumption DEF InBounds

(* A user whose requests never overlapped has at most MAX_USER_KEYS live    *)
(* keys, and none once removed.                                             *)
THEOREM BoundsHold == KeysSpec => []KeysInBounds
<1>1. KeysTypeOK /\ Singled /\ Bounded /\ [KeysNext]_keyVars => (KeysTypeOK /\ Singled /\ Bounded)'
  BY SingledNext, BoundedNext
<1>2. Bounded => KeysInBounds
  BY DEF Bounded, InBounds, KeysInBounds
<1> QED
  BY <1>1, <1>2, SingledInit, BoundedInit, PTL DEF KeysSpec

-----------------------------------------------------------------------------
(* Creation: what a request was answered tells what it left.                *)

LEMMA IntervalSize ==
  ASSUME NEW n \in Nat, NEW l \in Nat
  PROVE  Cardinality(n + 1 .. n + l) = l
<1> DEFINE a == n + 1
           b == n + l
<1>1. a \in Int /\ b \in Int
  OBVIOUS
<1>2. b - a + 1 = l /\ (a > b <=> l = 0)
  OBVIOUS
<1> HIDE DEF a, b
<1>3. Cardinality(a .. b) = IF a > b THEN 0 ELSE b - a + 1
  BY <1>1, FS_Interval
<1>4. Cardinality(a .. b) = l
  BY <1>2, <1>3
<1> QED
  BY <1>4 DEF a, b

GroupedOf(n) == {i \in RowsBy(n) : transactions[i].group}
Complete(n) == Cardinality(RowsBy(n)) = Len(sizes[n].items)

Tells(n) ==
  /\ answers[n] = "created" =>
       Complete(n) /\ GroupedOf(n) = (IF sizes[n].group THEN RowsBy(n) ELSE {})
  /\ answers[n] = "refused" => RowsBy(n) = {}
  /\ answers[n] \in {"none", "failed"} =>
       (RowsBy(n) = {} \/ Complete(n)) /\ GroupedOf(n) = {}

(* A request in flight has an answer to come, and has saved all or nothing. *)
Pending(c) ==
  LET n == creating[c].number IN
  /\ n \in DOMAIN answers /\ answers[n] = "none"
  /\ sizes[n].items = creating[c].items /\ sizes[n].group = creating[c].group
  /\ creating[c].stage = "checked" => RowsBy(n) = {}
  /\ creating[c].stage = "saved" => Complete(n)

Numbered ==
  /\ \A i \in DOMAIN transactions : transactions[i].by <= Len(answers)
  /\ \A c \in Creators : creating[c] # NoRequest => Pending(c)
  /\ \A c, d \in Creators :
       creating[c] # NoRequest /\ creating[d] # NoRequest
         /\ creating[c].number = creating[d].number => c = d

Told == CreationTypeOK /\ Numbered /\ \A n \in DOMAIN answers : Tells(n)

LEMMA SequencesAre ==
  ASSUME CreationTypeOK
  PROVE  /\ Len(transactions) \in Nat /\ Len(answers) \in Nat
         /\ DOMAIN transactions = 1 .. Len(transactions)
         /\ transactions \in [1 .. Len(transactions) -> Transactions]
         /\ DOMAIN answers = 1 .. Len(answers) /\ DOMAIN sizes = DOMAIN answers
         /\ \A n \in DOMAIN answers :
              answers[n] \in Answers /\ sizes[n] \in [items : Items, group : BOOLEAN]
<1> DEFINE S == [items : Items, group : BOOLEAN]
<1>1. /\ transactions \in Seq(Transactions) /\ answers \in Seq(Answers)
      /\ sizes \in Seq(S) /\ Len(answers) = Len(sizes)
  BY DEF CreationTypeOK
<1> HIDE DEF S
<1>2. /\ Len(transactions) \in Nat /\ Len(answers) \in Nat
      /\ DOMAIN transactions = 1 .. Len(transactions)
      /\ transactions \in [1 .. Len(transactions) -> Transactions]
      /\ DOMAIN answers = 1 .. Len(answers) /\ DOMAIN sizes = DOMAIN answers
  BY <1>1
<1>3. \A n \in DOMAIN answers : answers[n] \in Answers /\ sizes[n] \in S
  BY <1>1
<1> QED
  BY <1>2, <1>3 DEF S

LEMMA RequestType ==
  ASSUME CreationTypeOK, NEW c \in Creators, creating[c] # NoRequest
  PROVE  /\ creating[c] \in RequestSteps /\ creating[c].stage \in {"checked", "saved"}
         /\ creating[c].number \in Sent /\ creating[c].number \in Int
         /\ creating[c].items \in Items /\ creating[c].items \in Seq(TransactionIds)
         /\ creating[c].group \in BOOLEAN
BY ItemsAssumption, RequestsAssumption DEF CreationTypeOK, RequestSteps, Sent

LEMMA StagesAre ==
  ASSUME CreationTypeOK, NEW c \in Creators,
         creating[c].stage \in {"checked", "saved"}
  PROVE  creating[c] # NoRequest
BY DEF NoRequest

(* A step that keeps the rows, but for their flags.                         *)
SameRows ==
  /\ DOMAIN transactions' = DOMAIN transactions
  /\ \A i \in DOMAIN transactions :
       transactions'[i].by = transactions[i].by /\ transactions'[i].tid = transactions[i].tid

LEMMA RowsBySame ==
  ASSUME SameRows, NEW n
  PROVE  RowsBy(n)' = RowsBy(n)
BY DEF SameRows, RowsBy

(* A request that ends: its answer, and the rows as they are.               *)
LEMMA AnswerTold ==
  ASSUME Told, CreationTypeOK', NEW c \in Creators, NEW answer \in {"failed", "created"},
         creating[c] # NoRequest, Answer(c, answer), SameRows, sizes' = sizes,
         NEW k, k = creating[c].number,
         \A n \in DOMAIN answers : n # k => GroupedOf(n)' = GroupedOf(n),
         answer = "failed" => GroupedOf(k)' = {},
         answer = "created" =>
           /\ creating[c].stage = "saved"
           /\ GroupedOf(k)' = (IF creating[c].group THEN RowsBy(k) ELSE {})
  PROVE  Told'
<1>1. /\ answers' = [answers EXCEPT ![k] = answer]
      /\ creating' = [creating EXCEPT ![c] = NoRequest]
  BY DEF Answer
<1>2. Pending(c) /\ k \in DOMAIN answers
  BY DEF Told, Numbered, Pending
<1>3. /\ DOMAIN answers' = DOMAIN answers /\ Len(answers') = Len(answers) /\ answers'[k] = answer
      /\ \A n \in DOMAIN answers : n # k => answers'[n] = answers[n]
  BY <1>1, <1>2, SequencesAre DEF Told, CreationTypeOK
<1>4. creating'[c] = NoRequest /\ \A d \in Creators : d # c => creating'[d] = creating[d]
  BY <1>1 DEF Told, CreationTypeOK
<1>5. \A n : RowsBy(n)' = RowsBy(n)
  BY RowsBySame
<1>6. \A n : Complete(n)' <=> Complete(n)
  BY <1>5 DEF Complete
<1>7. ASSUME NEW d \in Creators, creating'[d] # NoRequest PROVE Pending(d)'
  <2>1. d # c /\ creating'[d] = creating[d] /\ Pending(d)
    BY <1>4, <1>7 DEF Told, Numbered
  <2>2. creating[d].number # k
    BY <1>4, <1>7, <2>1 DEF Told, Numbered
  <2> QED
    BY <1>3, <1>5, <1>6, <2>1, <2>2 DEF Pending
<1>8. Numbered'
  BY <1>3, <1>4, <1>7 DEF Told, Numbered, SameRows
<1>9. ASSUME NEW n \in DOMAIN answers' PROVE Tells(n)'
  <2>1. CASE n # k
    <3>1. answers'[n] = answers[n] /\ GroupedOf(n)' = GroupedOf(n) /\ Tells(n)
      BY <1>3, <1>9, <2>1 DEF Told
    <3> QED
      BY <1>5, <1>6, <3>1 DEF Tells
  <2>2. CASE n = k
    <3>1. Tells(n) /\ answers[n] = "none" /\ sizes[n].group = creating[c].group
      BY <1>2, <2>2 DEF Told, Pending
    <3>2. RowsBy(n) = {} \/ Complete(n)
      BY <3>1 DEF Tells
    <3>3. answers'[n] = answer /\ sizes'[n].group = creating[c].group
      BY <1>3, <2>2, <3>1
    <3>4. CASE answer = "failed"
      <4>1. GroupedOf(n)' = {}
        BY <2>2, <3>4
      <4>2. RowsBy(n)' = {} \/ Complete(n)'
        BY <1>5, <1>6, <3>2
      <4> QED
        BY <3>3, <3>4, <4>1, <4>2 DEF Tells
    <3>5. CASE answer = "created"
      <4>1. Complete(n)'
        BY <1>2, <1>6, <2>2, <3>5 DEF Pending
      <4>2. GroupedOf(n)' = (IF sizes'[n].group THEN RowsBy(n)' ELSE {})
        BY <1>5, <2>2, <3>3, <3>5
      <4> QED
        BY <3>3, <3>5, <4>1, <4>2 DEF Tells
    <3> QED
      BY <3>4, <3>5
  <2> QED
    BY <2>1, <2>2
<1> QED
  BY <1>8, <1>9 DEF Told

LEMMA AnswerType ==
  ASSUME CreationTypeOK, NEW c \in Creators, NEW answer \in Answers, creating[c] # NoRequest,
         Answer(c, answer)
  PROVE  /\ creating' \in [Creators -> RequestSteps \cup {NoRequest}]
         /\ answers' \in Seq(Answers) /\ Len(answers') = Len(answers)
<1>1. answers \in Seq(Answers)
  BY DEF CreationTypeOK
<1>2. answers' = [answers EXCEPT ![creating[c].number] = answer]
  BY DEF Answer
<1>3. answers' \in Seq(Answers) /\ Len(answers') = Len(answers)
  <2>1. Len(answers) \in Nat /\ answers \in [1 .. Len(answers) -> Answers]
    BY <1>1
  <2>2. answers' \in [1 .. Len(answers) -> Answers]
    BY <1>2, <2>1
  <2> QED
    BY <2>1, <2>2, FunctionIsSeq
<1>4. creating' \in [Creators -> RequestSteps \cup {NoRequest}]
  BY DEF Answer, CreationTypeOK
<1> QED
  BY <1>3, <1>4

LEMMA BeginTold ==
  ASSUME Told, NEW c \in Creators, NEW items \in Items, NEW group \in BOOLEAN,
         BeginCreate(c, items, group)
  PROVE  Told'
<1> DEFINE n == Len(answers) + 1
           size == [items |-> items, group |-> group]
           w == [stage |-> "checked", number |-> n, items |-> items, group |-> group]
<1> USE DEF Told
<1>1. /\ creating[c] = NoRequest /\ n <= MaxRequests /\ sizes' = Append(sizes, size)
      /\ \/ answers' = Append(answers, "refused") /\ creating' = creating
         \/ answers' = Append(answers, "none") /\ creating' = [creating EXCEPT ![c] = w]
      /\ overlapped' \subseteq TransactionIds /\ UNCHANGED transactions
  <2>1. ToSet(items) \subseteq TransactionIds
    BY ItemsAssumption DEF ToSet
  <2> QED
    BY <2>1 DEF BeginCreate, CreationTypeOK
<1>2. Len(answers) \in Nat /\ n \in Sent /\ n \notin DOMAIN answers
  BY <1>1, SequencesAre, RequestsAssumption DEF Sent
<1>3. size \in [items : Items, group : BOOLEAN] /\ w \in RequestSteps
  BY <1>2 DEF RequestSteps
<1>4. PICK a \in {"refused", "none"} : answers' = Append(answers, a)
  BY <1>1
<1>5. CreationTypeOK'
  <2>1. creating' \in [Creators -> RequestSteps \cup {NoRequest}]
    BY <1>1, <1>3 DEF CreationTypeOK
  <2>2. answers' \in Seq(Answers) /\ Len(answers') = n
    BY <1>2, <1>4 DEF CreationTypeOK, Answers
  <2>3. sizes' \in Seq([items : Items, group : BOOLEAN]) /\ Len(sizes') = n
    BY <1>1, <1>3 DEF CreationTypeOK
  <2> QED
    BY <1>1, <2>1, <2>2, <2>3 DEF CreationTypeOK
<1>6. /\ DOMAIN answers' = DOMAIN answers \cup {n} /\ Len(answers') = n
      /\ answers'[n] = a /\ \A m \in DOMAIN answers : answers'[m] = answers[m]
  BY <1>2, <1>4, SequencesAre DEF CreationTypeOK
<1>7. sizes'[n] = size /\ \A m \in DOMAIN answers : sizes'[m] = sizes[m]
  BY <1>1, <1>2, SequencesAre DEF CreationTypeOK
<1> HIDE DEF n, w
<1>8. \A m : RowsBy(m)' = RowsBy(m) /\ GroupedOf(m)' = GroupedOf(m)
  BY <1>1 DEF RowsBy, GroupedOf
<1>9. RowsBy(n) = {}
  <2>1. \A i \in DOMAIN transactions : transactions[i].by <= Len(answers) /\ transactions[i].by \in Int
    BY SequencesAre, RequestsAssumption DEF Numbered, Transactions, Sent
  <2> QED
    BY <1>2, <2>1 DEF RowsBy, n
<1>10. ASSUME NEW d \in Creators, creating'[d] # NoRequest PROVE Pending(d)'
  <2>1. CASE creating'[d] = creating[d]
    <3>1. Pending(d) /\ creating[d].number \in DOMAIN answers
      BY <1>10, <2>1 DEF Numbered, Pending
    <3> QED
      BY <1>6, <1>7, <1>8, <2>1, <3>1 DEF Pending, Complete
  <2>2. CASE creating'[d] # creating[d]
    <3>1. creating'[d] = w /\ a = "none"
      <4>1. creating' = [creating EXCEPT ![c] = w] /\ answers' = Append(answers, "none")
        BY <1>1, <2>2
      <4>2. answers'[n] = "none"
        BY <1>2, <4>1 DEF CreationTypeOK, n
      <4> QED
        BY <1>6, <2>2, <4>1, <4>2 DEF CreationTypeOK
    <3>2. w.number = n /\ w.items = items /\ w.group = group /\ w.stage = "checked"
      BY DEF w
    <3> QED
      BY <1>6, <1>7, <1>8, <1>9, <3>1, <3>2 DEF Pending
  <2> QED
    BY <2>1, <2>2
<1>11. ASSUME NEW d \in Creators, NEW e \in Creators, creating'[d] # NoRequest,
              creating'[e] # NoRequest, creating'[d].number = creating'[e].number
       PROVE  d = e
  <2>1. \A b \in Creators : creating'[b] = creating[b] \/ (b = c /\ creating'[b].number = n)
    BY <1>1 DEF w, CreationTypeOK
  <2>2. \A b \in Creators : creating[b] # NoRequest => creating[b].number # n
    BY <1>2 DEF Numbered, Pending
  <2> QED
    BY <1>11, <2>1, <2>2 DEF Numbered
<1>12. \A i \in DOMAIN transactions' : transactions'[i].by <= Len(answers')
  <2>1. \A i \in DOMAIN transactions : transactions[i].by <= Len(answers) /\ transactions[i].by \in Int
    BY SequencesAre, RequestsAssumption DEF Numbered, Transactions, Sent
  <2> QED
    BY <1>1, <1>2, <1>6, <2>1 DEF n
<1>13. ASSUME NEW m \in DOMAIN answers' PROVE Tells(m)'
  <2>1. CASE m = n
    <3>1. RowsBy(m)' = {} /\ GroupedOf(m)' = {} /\ answers'[m] \in {"refused", "none"}
      BY <1>6, <1>8, <1>9, <2>1 DEF GroupedOf
    <3> QED
      BY <3>1 DEF Tells
  <2>2. CASE m # n
    BY <1>6, <1>7, <1>8, <2>2 DEF Tells, Complete
  <2> QED
    BY <2>1, <2>2
<1> QED
  BY <1>5, <1>10, <1>11, <1>12, <1>13 DEF Numbered

(* The rows of a request are appended in one step.                          *)
LEMMA RowsForAre ==
  ASSUME CreationTypeOK, NEW c \in Creators, creating[c] # NoRequest
  PROVE  LET l == Len(creating[c].items)
             rows == RowsFor(creating[c])
         IN  /\ l \in Nat /\ rows \in Seq(Transactions) /\ Len(rows) = l
             /\ \A i \in 1 .. l :
                  rows[i] = [tid |-> creating[c].items[i], active |-> TRUE,
                             by |-> creating[c].number, group |-> FALSE]
<1> DEFINE l == Len(creating[c].items)
           row(i) == [tid |-> creating[c].items[i], active |-> TRUE,
                      by |-> creating[c].number, group |-> FALSE]
           rows == RowsFor(creating[c])
<1>1. l \in Nat /\ \A i \in 1 .. l : creating[c].items[i] \in TransactionIds
  BY RequestType
<1>2. \A i \in 1 .. l : row(i) \in Transactions
  BY <1>1, RequestType DEF Transactions
<1>3. rows = [i \in 1 .. l |-> row(i)]
  BY DEF RowsFor
<1> HIDE DEF row, rows, l
<1>4. rows \in [1 .. l -> Transactions] /\ \A i \in 1 .. l : rows[i] = row(i)
  BY <1>2, <1>3
<1>5. rows \in Seq(Transactions) /\ Len(rows) = l
  BY <1>1, <1>4, FunctionIsSeq
<1> QED
  BY <1>1, <1>4, <1>5 DEF row, rows, l

LEMMA SaveRows ==
  ASSUME CreationTypeOK, NEW c \in Creators, SaveTransactions(c)
  PROVE  LET n == Len(transactions)
             l == Len(creating[c].items)
         IN  /\ n \in Nat /\ l \in Nat /\ CreationTypeOK' /\ creating[c] # NoRequest
             /\ DOMAIN transactions = 1 .. n /\ DOMAIN transactions' = 1 .. n + l
             /\ \A i \in 1 .. n : transactions'[i] = transactions[i]
             /\ \A i \in n + 1 .. n + l :
                  transactions'[i] = [tid |-> creating[c].items[i - n], active |-> TRUE,
                                      by |-> creating[c].number, group |-> FALSE]
             /\ creating' = [creating EXCEPT ![c] = [creating[c] EXCEPT !.stage = "saved"]]
             /\ \A d \in Creators : d # c => creating'[d] = creating[d]
             /\ creating'[c] # NoRequest /\ creating'[c].stage = "saved"
             /\ creating'[c].items = creating[c].items
             /\ creating'[c].number = creating[c].number
             /\ creating'[c].group = creating[c].group
<1> DEFINE n == Len(transactions)
           l == Len(creating[c].items)
           rows == RowsFor(creating[c])
           row(i) == [tid |-> creating[c].items[i], active |-> TRUE,
                      by |-> creating[c].number, group |-> FALSE]
<1>1. /\ creating[c] # NoRequest /\ transactions' = transactions \o rows
      /\ creating' = [creating EXCEPT ![c] = [creating[c] EXCEPT !.stage = "saved"]]
      /\ UNCHANGED <<answers, sizes, overlapped>>
  BY StagesAre DEF SaveTransactions
<1>2. /\ l \in Nat /\ rows \in Seq(Transactions) /\ Len(rows) = l
      /\ \A i \in 1 .. l : rows[i] = row(i)
  BY <1>1, RowsForAre
<1>3. transactions \in Seq(Transactions) /\ n \in Nat /\ DOMAIN transactions = 1 .. n
  BY DEF CreationTypeOK
<1> HIDE DEF rows, l, row
<1>4. /\ transactions' \in Seq(Transactions) /\ DOMAIN transactions' = 1 .. n + l
      /\ \A i \in 1 .. n : transactions'[i] = transactions[i]
      /\ \A i \in n + 1 .. n + l : transactions'[i] = rows[i - n]
  BY <1>1, <1>2, <1>3
<1>5. \A i \in n + 1 .. n + l : transactions'[i] = row(i - n)
  <2>1. \A i \in n + 1 .. n + l : i - n \in 1 .. l
    BY <1>2, <1>3
  <2> QED
    BY <1>2, <1>4, <2>1
<1>6. creating[c] \in RequestSteps
  BY <1>1, RequestType
<1> DEFINE w == [creating[c] EXCEPT !.stage = "saved"]
<1>7. /\ w \in RequestSteps /\ w.stage = "saved" /\ w.items = creating[c].items
      /\ w.number = creating[c].number /\ w.group = creating[c].group
  BY <1>6 DEF RequestSteps
<1>8. w # NoRequest
  BY <1>7 DEF NoRequest
<1> HIDE DEF w
<1>9. creating' = [creating EXCEPT ![c] = w]
  BY <1>1 DEF w
<1>10. /\ creating' \in [Creators -> RequestSteps \cup {NoRequest}]
       /\ creating'[c] = w /\ \A d \in Creators : d # c => creating'[d] = creating[d]
  BY <1>7, <1>9 DEF CreationTypeOK
<1>11. CreationTypeOK'
  BY <1>1, <1>4, <1>10 DEF CreationTypeOK
<1> QED
  BY <1>1, <1>2, <1>3, <1>4, <1>5, <1>7, <1>8, <1>10, <1>11 DEF l, row

LEMMA SaveTold ==
  ASSUME Told, NEW c \in Creators, SaveTransactions(c)
  PROVE  Told'
<1> DEFINE n == Len(transactions)
           l == Len(creating[c].items)
           k == creating[c].number
<1>0. CreationTypeOK /\ UNCHANGED <<answers, sizes>> /\ creating[c].stage = "checked"
  BY DEF Told, SaveTransactions
<1>1. /\ n \in Nat /\ l \in Nat /\ CreationTypeOK' /\ creating[c] # NoRequest
      /\ DOMAIN transactions = 1 .. n /\ DOMAIN transactions' = 1 .. n + l
      /\ \A i \in 1 .. n : transactions'[i] = transactions[i]
      /\ \A i \in n + 1 .. n + l : transactions'[i].by = k /\ transactions'[i].group = FALSE
      /\ \A d \in Creators : d # c => creating'[d] = creating[d]
      /\ creating'[c] # NoRequest /\ creating'[c].stage = "saved"
      /\ creating'[c].items = creating[c].items
      /\ creating'[c].number = k /\ creating'[c].group = creating[c].group
  <2> DEFINE row(i) == [tid |-> creating[c].items[i - n], active |-> TRUE,
                        by |-> creating[c].number, group |-> FALSE]
  <2>1. \A i : row(i).by = k /\ row(i).group = FALSE
    OBVIOUS
  <2>2. \A i \in n + 1 .. n + l : transactions'[i] = row(i)
    BY <1>0, SaveRows
  <2> HIDE DEF row
  <2>3. \A i \in n + 1 .. n + l : transactions'[i].by = k /\ transactions'[i].group = FALSE
    BY <2>1, <2>2
  <2> QED
    BY <1>0, <2>3, SaveRows
<1>2. PICK m : m = k
  OBVIOUS
<1>3. /\ Pending(c) /\ m \in DOMAIN answers /\ RowsBy(m) = {} /\ answers[m] = "none"
      /\ Len(sizes[m].items) = l
  BY <1>0, <1>1, <1>2 DEF Told, Numbered, Pending
<1> HIDE DEF n, l, k
<1>4. ASSUME NEW j, j # m
      PROVE  RowsBy(j)' = RowsBy(j) /\ GroupedOf(j)' = GroupedOf(j)
  <2>1. RowsBy(j)' = RowsBy(j)
    BY <1>1, <1>2, <1>4 DEF RowsBy
  <2>2. RowsBy(j) \subseteq 1 .. n
    BY <1>1 DEF RowsBy
  <2> QED
    BY <1>1, <2>1, <2>2 DEF GroupedOf
<1>5. RowsBy(m)' = n + 1 .. n + l /\ GroupedOf(m)' = {}
  <2>1. RowsBy(m)' = n + 1 .. n + l
    BY <1>1, <1>2, <1>3 DEF RowsBy
  <2> QED
    BY <1>1, <2>1 DEF GroupedOf
<1>6. Complete(m)'
  <2>1. Cardinality(n + 1 .. n + l) = l
    BY <1>1, IntervalSize
  <2> QED
    BY <1>0, <1>3, <1>5, <2>1 DEF Complete
<1>7. ASSUME NEW d \in Creators, creating'[d] # NoRequest PROVE Pending(d)'
  <2>1. CASE d = c
    <3>1. /\ creating'[d].number = m /\ creating'[d].stage = "saved"
          /\ creating'[d].items = creating[c].items /\ creating'[d].group = creating[c].group
      BY <1>1, <1>2, <2>1
    <3>2. sizes'[m].items = creating[c].items /\ sizes'[m].group = creating[c].group
      BY <1>0, <1>2, <1>3 DEF Pending, k
    <3>3. m \in DOMAIN answers' /\ answers'[m] = "none"
      BY <1>0, <1>3
    <3> QED
      BY <1>6, <3>1, <3>2, <3>3 DEF Pending
  <2>2. CASE d # c
    <3>1. creating'[d] = creating[d] /\ Pending(d) /\ creating[d].number # m
      BY <1>0, <1>1, <1>2, <1>7, <2>2 DEF Told, Numbered, k
    <3>2. PICK j : j = creating[d].number
      OBVIOUS
    <3>3. RowsBy(j)' = RowsBy(j) /\ (Complete(j)' <=> Complete(j))
      BY <1>0, <1>4, <3>1, <3>2 DEF Complete
    <3> QED
      BY <1>0, <3>1, <3>2, <3>3 DEF Pending
  <2> QED
    BY <2>1, <2>2
<1>8. \A i \in DOMAIN transactions' : transactions'[i].by <= Len(answers')
  <2>1. m <= Len(answers)
    BY <1>0, <1>3, SequencesAre
  <2>2. \A i \in 1 .. n : transactions[i].by <= Len(answers)
    BY <1>1 DEF Told, Numbered
  <2>3. \A i \in 1 .. n + l : i \in 1 .. n \/ i \in n + 1 .. n + l
    BY <1>1
  <2> QED
    BY <1>0, <1>1, <1>2, <2>1, <2>2, <2>3
<1>9. Numbered'
  <2>1. \A d, e \in Creators :
          creating'[d] # NoRequest /\ creating'[e] # NoRequest
            /\ creating'[d].number = creating'[e].number => d = e
    BY <1>1 DEF Told, Numbered, k
  <2> QED
    BY <1>7, <1>8, <2>1 DEF Numbered
<1>10. ASSUME NEW j \in DOMAIN answers' PROVE Tells(j)'
  <2>1. CASE j = m
    BY <1>0, <1>3, <1>5, <1>6, <2>1 DEF Tells
  <2>2. CASE j # m
    BY <1>0, <1>4, <1>10, <2>2 DEF Told, Tells, Complete
  <2> QED
    BY <2>1, <2>2
<1> QED
  BY <1>1, <1>9, <1>10 DEF Told

LEMMA TransactionsRewritten ==
  ASSUME CreationTypeOK, NEW f \in [DOMAIN transactions -> Transactions], transactions' = f
  PROVE  transactions' \in Seq(Transactions) /\ DOMAIN transactions' = DOMAIN transactions
<1>1. DOMAIN transactions = 1 .. Len(transactions) /\ Len(transactions) \in Nat
  BY SequencesAre
<1> QED
  BY <1>1, FunctionIsSeq

LEMMA DeactivateRows ==
  ASSUME CreationTypeOK, NEW i \in DOMAIN transactions, Deactivate(i)
  PROVE  /\ CreationTypeOK' /\ SameRows
         /\ \A j \in DOMAIN transactions : /\ transactions'[j].group = transactions[j].group
                                           /\ transactions'[j].active => transactions[j].active
<1> DEFINE row == [transactions[i] EXCEPT !.active = FALSE]
           f == [transactions EXCEPT ![i] = row]
<1>1. transactions' = f /\ UNCHANGED <<creating, answers, sizes, overlapped>>
  BY DEF Deactivate
<1>2. transactions \in [DOMAIN transactions -> Transactions]
  BY SequencesAre
<1>3. /\ row \in Transactions /\ row.tid = transactions[i].tid /\ row.by = transactions[i].by
      /\ row.group = transactions[i].group /\ row.active = FALSE
  BY <1>2 DEF Transactions
<1> HIDE DEF row
<1>4. /\ f \in [DOMAIN transactions -> Transactions] /\ f[i] = row
      /\ \A j \in DOMAIN transactions : j # i => f[j] = transactions[j]
  BY <1>2, <1>3
<1>5. transactions' \in Seq(Transactions) /\ DOMAIN transactions' = DOMAIN transactions
  BY <1>1, <1>4, TransactionsRewritten
<1>6. CreationTypeOK'
  BY <1>1, <1>5 DEF CreationTypeOK
<1> QED
  BY <1>1, <1>3, <1>4, <1>5, <1>6 DEF SameRows

LEMMA GroupRows ==
  ASSUME CreationTypeOK, NEW k, transactions' = Grouped(k)
  PROVE  /\ transactions' \in Seq(Transactions) /\ SameRows
         /\ \A j \in DOMAIN transactions :
              /\ transactions'[j].active = transactions[j].active
              /\ transactions'[j].group = (transactions[j].by = k \/ transactions[j].group)
<1> DEFINE row(j) == [transactions[j] EXCEPT !.group = TRUE]
           f == Grouped(k)
<1>1. \A j \in DOMAIN transactions : transactions[j] \in Transactions
  BY SequencesAre
<1>2. \A j \in DOMAIN transactions :
        /\ row(j) \in Transactions /\ row(j).tid = transactions[j].tid
        /\ row(j).by = transactions[j].by /\ row(j).active = transactions[j].active
        /\ row(j).group = TRUE
  BY <1>1 DEF Transactions
<1>3. f = [j \in DOMAIN transactions |->
             IF transactions[j].by = k THEN row(j) ELSE transactions[j]]
  BY DEF Grouped
<1> HIDE DEF row, f
<1>4. f \in [DOMAIN transactions -> Transactions]
  BY <1>1, <1>2, <1>3
<1>5. transactions' = f
  BY DEF f
<1>6. transactions' \in Seq(Transactions) /\ DOMAIN transactions' = DOMAIN transactions
  BY <1>4, <1>5, TransactionsRewritten
<1>7. \A j \in DOMAIN transactions :
        transactions'[j] = IF transactions[j].by = k THEN row(j) ELSE transactions[j]
  BY <1>3, <1>5
<1>8. \A j \in DOMAIN transactions : transactions[j].group \in BOOLEAN
  BY <1>1 DEF Transactions
<1>9. \A j \in DOMAIN transactions :
        /\ transactions'[j].by = transactions[j].by /\ transactions'[j].tid = transactions[j].tid
        /\ transactions'[j].active = transactions[j].active
        /\ transactions'[j].group = (transactions[j].by = k \/ transactions[j].group)
  <2> SUFFICES ASSUME NEW j \in DOMAIN transactions
               PROVE  /\ transactions'[j].by = transactions[j].by
                      /\ transactions'[j].tid = transactions[j].tid
                      /\ transactions'[j].active = transactions[j].active
                      /\ transactions'[j].group = (transactions[j].by = k \/ transactions[j].group)
    OBVIOUS
  <2>1. CASE transactions[j].by = k
    BY <1>2, <1>7, <2>1
  <2>2. CASE transactions[j].by # k
    BY <1>7, <1>8, <2>2
  <2> QED
    BY <2>1, <2>2
<1> QED
  BY <1>6, <1>9 DEF SameRows

LEMMA DeactivateTold ==
  ASSUME Told, NEW i \in DOMAIN transactions, Deactivate(i)
  PROVE  Told'
<1>1. /\ CreationTypeOK' /\ SameRows /\ UNCHANGED <<creating, answers, sizes>>
      /\ \A j \in DOMAIN transactions : transactions'[j].group = transactions[j].group
  BY DeactivateRows DEF Told, Deactivate
<1>2. \A n : RowsBy(n)' = RowsBy(n) /\ GroupedOf(n)' = GroupedOf(n)
  BY <1>1, RowsBySame DEF GroupedOf, RowsBy
<1>3. \A n : Complete(n)' <=> Complete(n)
  BY <1>1, <1>2 DEF Complete
<1>4. Numbered'
  BY <1>1, <1>2, <1>3 DEF Told, Numbered, Pending, SameRows
<1>5. \A n \in DOMAIN answers' : Tells(n)'
  BY <1>1, <1>2, <1>3 DEF Told, Tells
<1> QED
  BY <1>1, <1>4, <1>5 DEF Told

LEMMA EndTold ==
  ASSUME Told, NEW c \in Creators, FinishSingle(c) \/ SaveGroup(c) \/ FailCreate(c)
  PROVE  Told'
<1>0. CreationTypeOK /\ UNCHANGED <<sizes, overlapped>> /\ creating[c] # NoRequest
  BY StagesAre DEF Told, FinishSingle, SaveGroup, FailCreate
<1>1. PICK k : k = creating[c].number
  OBVIOUS
<1>2. Pending(c) /\ k \in DOMAIN answers /\ GroupedOf(k) = {}
  BY <1>0, <1>1 DEF Told, Numbered, Pending, Tells
<1>3. CASE FinishSingle(c) \/ FailCreate(c)
  <2>1. PICK answer \in {"failed", "created"} :
          /\ Answer(c, answer)
          /\ answer = "created" => creating[c].stage = "saved" /\ ~creating[c].group
    BY <1>3 DEF FinishSingle, FailCreate
  <2>2. UNCHANGED transactions
    BY <1>3 DEF FinishSingle, FailCreate
  <2>3. CreationTypeOK'
    <3>1. answer \in Answers
      BY DEF Answers
    <3> QED
      BY <1>0, <2>1, <2>2, <3>1, AnswerType DEF CreationTypeOK
  <2>4. SameRows /\ \A n : GroupedOf(n)' = GroupedOf(n)
    BY <2>2 DEF SameRows, GroupedOf, RowsBy
  <2> QED
    BY <1>0, <1>1, <1>2, <2>1, <2>3, <2>4, AnswerTold
<1>4. CASE SaveGroup(c)
  <2>1. /\ Answer(c, "created") /\ creating[c].stage = "saved" /\ creating[c].group
        /\ transactions' = Grouped(k)
    BY <1>1, <1>4 DEF SaveGroup
  <2>2. /\ transactions' \in Seq(Transactions) /\ SameRows
        /\ \A j \in DOMAIN transactions :
              transactions'[j].group = (transactions[j].by = k \/ transactions[j].group)
    BY <1>0, <2>1, GroupRows
  <2>3. CreationTypeOK'
    <3>1. "created" \in Answers
      BY DEF Answers
    <3> QED
      BY <1>0, <2>1, <2>2, <3>1, AnswerType DEF CreationTypeOK
  <2>4. \A n : n # k => GroupedOf(n)' = GroupedOf(n)
    BY <2>2, RowsBySame DEF GroupedOf, RowsBy
  <2>5. GroupedOf(k)' = RowsBy(k)
    BY <2>2, RowsBySame DEF GroupedOf, RowsBy
  <2> QED
    BY <1>0, <1>1, <2>1, <2>2, <2>3, <2>4, <2>5, AnswerTold
<1> QED
  BY <1>3, <1>4

LEMMA ToldNext ==
  ASSUME Told, [CreationNext]_creationVars
  PROVE  Told'
<1>1. CASE UNCHANGED creationVars
  <2>1. UNCHANGED <<transactions, creating, answers, sizes, overlapped>>
    BY <1>1 DEF creationVars
  <2>2. \A n : RowsBy(n)' = RowsBy(n) /\ GroupedOf(n)' = GroupedOf(n)
    BY <2>1 DEF GroupedOf, RowsBy
  <2>3. CreationTypeOK'
    BY <2>1 DEF Told, CreationTypeOK
  <2>4. Numbered'
    BY <2>1, <2>2 DEF Told, Numbered, Pending, Complete
  <2>5. \A n \in DOMAIN answers' : Tells(n)'
    BY <2>1, <2>2 DEF Told, Tells, Complete
  <2> QED
    BY <2>3, <2>4, <2>5 DEF Told
<1>2. ASSUME NEW c \in Creators, NEW items \in Items, NEW group \in BOOLEAN,
             BeginCreate(c, items, group)
      PROVE  Told'
  BY <1>2, BeginTold
<1>3. ASSUME NEW c \in Creators, SaveTransactions(c) PROVE Told'
  BY <1>3, SaveTold
<1>4. ASSUME NEW c \in Creators, FinishSingle(c) \/ SaveGroup(c) \/ FailCreate(c) PROVE Told'
  BY <1>4, EndTold
<1>5. ASSUME NEW i \in DOMAIN transactions, Deactivate(i) PROVE Told'
  BY <1>5, DeactivateTold
<1> QED
  BY <1>1, <1>2, <1>3, <1>4, <1>5 DEF CreationNext

LEMMA ToldInit == CreationInit => Told
<1> SUFFICES ASSUME CreationInit PROVE Told
  OBVIOUS
<1>1. CreationTypeOK
  BY RequestsAssumption DEF CreationInit, CreationTypeOK
<1>2. Numbered /\ \A n \in DOMAIN answers : Tells(n)
  BY DEF CreationInit, Numbered
<1> QED
  BY <1>1, <1>2 DEF Told

(* The rows, the requests and the answers keep their types.                 *)
THEOREM CreationTypeCorrect == CreationSpec => []CreationTypeOK
<1>1. Told => CreationTypeOK
  BY DEF Told
<1> QED
  BY <1>1, ToldInit, ToldNext, PTL DEF CreationSpec

(* An answer tells what the request left: all of it, none of it, or, after  *)
(* a failure, all of its transactions but no group.                         *)
THEOREM AnswerHolds == CreationSpec => []AnswerTellsWhatIsLeft
<1>1. Told => AnswerTellsWhatIsLeft
  <2> SUFFICES ASSUME Told, NEW n \in DOMAIN answers
               PROVE  LET saved == RowsBy(n)
                          all == Cardinality(saved) = Len(sizes[n].items)
                          grouped == {i \in saved : transactions[i].group}
                      IN CASE answers[n] = "created" ->
                                all /\ grouped = (IF sizes[n].group THEN saved ELSE {})
                           [] answers[n] = "refused" -> saved = {}
                           [] OTHER -> (saved = {} \/ all) /\ grouped = {}
    BY DEF AnswerTellsWhatIsLeft
  <2>1. Tells(n) /\ answers[n] \in Answers
    BY SequencesAre DEF Told
  <2>2. CASE answers[n] = "created"
    BY <2>1, <2>2 DEF Tells, Complete, GroupedOf
  <2>3. CASE answers[n] = "refused"
    BY <2>1, <2>3 DEF Tells
  <2>4. CASE answers[n] \in {"none", "failed"}
    BY <2>1, <2>4 DEF Tells, Complete, GroupedOf
  <2> QED
    BY <2>1, <2>2, <2>3, <2>4 DEF Answers
<1> QED
  BY <1>1, ToldInit, ToldNext, PTL DEF CreationSpec

-----------------------------------------------------------------------------
(* Creation: one active transaction of an id.  A request that passed the    *)
(* check carries ids without an active row until it saves them, unless      *)
(* another request in flight carries them too.                              *)

Active(tid) == {i \in DOMAIN transactions : transactions[i].tid = tid /\ transactions[i].active}
Carries(c, tid) == creating[c] # NoRequest /\ tid \in ToSet(creating[c].items)
NotRepeated(tid) == \A n \in DOMAIN sizes : tid \notin Repeats(sizes[n].items)

OneFor(tid) ==
  /\ \A i, j \in Active(tid) : i = j
  /\ \A c \in Creators : Carries(c, tid) /\ creating[c].stage = "checked" => Active(tid) = {}
  /\ \A c, d \in Creators : Carries(c, tid) /\ Carries(d, tid) => c = d

OneEach == \A tid \in TransactionIds \ overlapped : NotRepeated(tid) => OneFor(tid)

LEMMA FewerActive ==
  ASSUME NEW tid, OneFor(tid), Active(tid)' \subseteq Active(tid),
         \A c \in Creators : creating'[c] = creating[c] \/ creating'[c] = NoRequest
  PROVE  OneFor(tid)'
BY DEF OneFor, Carries

LEMMA ActiveKept ==
  ASSUME NEW tid, SameRows,
         \A i \in DOMAIN transactions : transactions'[i].active => transactions[i].active
  PROVE  Active(tid)' \subseteq Active(tid)
BY DEF Active, SameRows

LEMMA RepeatsTwice ==
  ASSUME NEW l \in Seq(TransactionIds), NEW i \in 1 .. Len(l), NEW j \in 1 .. Len(l),
         i # j, l[i] = l[j]
  PROVE  l[i] \in Repeats(l)
<1> DEFINE S == {m \in DOMAIN l : l[m] = l[i]}
<1>1. S \in SUBSET (1 .. Len(l)) /\ i \in S /\ j \in S /\ Len(l) \in Nat
  OBVIOUS
<1>2. IsFiniteSet(S)
  BY <1>1, FS_Interval, FS_Subset
<1>3. Cardinality({i}) = 1 /\ IsFiniteSet({i})
  BY FS_Singleton
<1>4. PICK T \in SUBSET S : Cardinality(T) = 2
  <2> DEFINE A == {i}
  <2>1. IsFiniteSet(A) /\ Cardinality(A) = 1 /\ j \notin A /\ A \cup {j} \in SUBSET S
    BY <1>1, <1>3
  <2> HIDE DEF A, S
  <2>2. Cardinality(A \cup {j}) = Cardinality(A) + 1
    BY <2>1, FS_AddElement
  <2>3. Cardinality(A \cup {j}) = 2
    BY <2>1, <2>2
  <2> QED
    BY <2>1, <2>3
<1>5. Cardinality(S) \in Nat /\ Cardinality(T) <= Cardinality(S)
  BY <1>2, FS_Subset, FS_CardinalityType
<1> HIDE DEF S
<1>6. Cardinality(S) > 1
  BY <1>4, <1>5
<1> USE DEF S
<1>7. l[i] \in ToSet(l)
  BY DEF ToSet
<1> QED
  BY <1>6, <1>7 DEF Repeats

LEMMA BeginOneEach ==
  ASSUME Told, OneEach, NEW c \in Creators, NEW items \in Items, NEW group \in BOOLEAN,
         BeginCreate(c, items, group)
  PROVE  OneEach'
<1> DEFINE n == Len(answers) + 1
           w == [stage |-> "checked", number |-> n, items |-> items, group |-> group]
<1>1. /\ creating[c] = NoRequest /\ sizes' = Append(sizes, [items |-> items, group |-> group])
      /\ \/ creating' = creating
         \/ ~Existing(items) /\ creating' = [creating EXCEPT ![c] = w]
      /\ overlapped' = overlapped \cup (ToSet(items) \cap UNION {Carried(d) : d \in Creators})
      /\ UNCHANGED transactions
  BY DEF BeginCreate
<1> SUFFICES ASSUME NEW tid \in TransactionIds \ overlapped', NotRepeated(tid)'
             PROVE  OneFor(tid)'
  BY DEF OneEach
<1>2. NotRepeated(tid)
  <2>1. /\ DOMAIN sizes = 1 .. Len(sizes) /\ Len(sizes) \in Nat
        /\ DOMAIN sizes \subseteq DOMAIN sizes' /\ \A m \in DOMAIN sizes : sizes'[m] = sizes[m]
    BY <1>1 DEF Told, CreationTypeOK
  <2> QED
    BY <2>1 DEF NotRepeated
<1>3. OneFor(tid) /\ Active(tid)' = Active(tid)
  BY <1>1, <1>2 DEF OneEach, Active
<1>4. CASE creating' = creating
  BY <1>3, <1>4 DEF OneFor, Carries
<1>5. CASE ~Existing(items) /\ creating' = [creating EXCEPT ![c] = w]
  <2>1. /\ creating'[c] = w /\ w.items = items
        /\ \A d \in Creators : d # c => creating'[d] = creating[d]
    BY <1>5 DEF Told, CreationTypeOK
  <2> HIDE DEF w
  <2>2. tid \in ToSet(items) => Active(tid) = {}
    BY <1>5 DEF Existing, Active
  <2>3. \A d \in Creators : Carries(d, tid) => tid \notin ToSet(items)
    <3> SUFFICES ASSUME NEW d \in Creators, Carries(d, tid), tid \in ToSet(items)
                 PROVE  FALSE
      OBVIOUS
    <3>1. tid \in Carried(d)
      BY DEF Carries, Carried
    <3> QED
      BY <1>1, <3>1
  <2>4. \A d \in Creators : Carries(d, tid)' =>
          IF d = c THEN tid \in ToSet(items) ELSE Carries(d, tid) /\ creating'[d] = creating[d]
    BY <2>1 DEF Carries
  <2> QED
    BY <1>3, <2>2, <2>3, <2>4 DEF OneFor
<1> QED
  BY <1>1, <1>4, <1>5

LEMMA SaveOneEach ==
  ASSUME Told, OneEach, NEW c \in Creators, SaveTransactions(c)
  PROVE  OneEach'
<1> DEFINE n == Len(transactions)
           items == creating[c].items
           l == Len(items)
<1>0. CreationTypeOK /\ UNCHANGED <<sizes, overlapped>> /\ creating[c].stage = "checked"
  BY DEF Told, SaveTransactions
<1>1. /\ n \in Nat /\ l \in Nat /\ creating[c] # NoRequest
      /\ DOMAIN transactions = 1 .. n /\ DOMAIN transactions' = 1 .. n + l
      /\ \A i \in 1 .. n : transactions'[i] = transactions[i]
      /\ \A i \in n + 1 .. n + l : transactions'[i].tid = items[i - n]
      /\ \A d \in Creators : d # c => creating'[d] = creating[d]
      /\ creating'[c] # NoRequest /\ creating'[c].stage = "saved"
      /\ creating'[c].items = items
  <2> DEFINE row(i) == [tid |-> creating[c].items[i - n], active |-> TRUE,
                        by |-> creating[c].number, group |-> FALSE]
  <2>1. \A i : row(i).tid = items[i - n]
    OBVIOUS
  <2>2. \A i \in n + 1 .. n + l : transactions'[i] = row(i)
    BY <1>0, SaveRows
  <2> HIDE DEF row
  <2>3. \A i \in n + 1 .. n + l : transactions'[i].tid = items[i - n]
    BY <2>1, <2>2
  <2> QED
    BY <1>0, <2>3, SaveRows
<1>2. items \in Seq(TransactionIds) /\ DOMAIN items = 1 .. l
  BY <1>0, <1>1, RequestType
<1>3. PICK m : /\ m \in DOMAIN sizes /\ sizes[m].items = items
  BY <1>0, <1>1, SequencesAre DEF Told, Numbered, Pending
<1> SUFFICES ASSUME NEW tid \in TransactionIds \ overlapped', NotRepeated(tid)'
             PROVE  OneFor(tid)'
  BY DEF OneEach
<1>4. NotRepeated(tid) /\ OneFor(tid)
  BY <1>0 DEF NotRepeated, OneEach
<1>5. tid \notin Repeats(items)
  BY <1>3, <1>4 DEF NotRepeated
<1>6. \A i, j \in 1 .. l : items[i] = tid /\ items[j] = tid => i = j
  BY <1>2, <1>5, RepeatsTwice
<1> HIDE DEF n, l, items
<1>7. \A d \in Creators : Carries(d, tid)' => Carries(d, tid)
  BY <1>1 DEF Carries, items
<1>8. CASE tid \in ToSet(items)
  <2>1. Carries(c, tid) /\ Active(tid) = {}
    BY <1>0, <1>1, <1>4, <1>8 DEF Carries, OneFor, items
  <2>2. \A i \in Active(tid)' : i \in n + 1 .. n + l /\ items[i - n] = tid
    BY <1>1, <2>1 DEF Active
  <2>3. \A i \in n + 1 .. n + l : i - n \in 1 .. l
    BY <1>1
  <2>4. \A i, j \in Active(tid)' : i = j
    <3> SUFFICES ASSUME NEW i \in Active(tid)', NEW j \in Active(tid)' PROVE i = j
      OBVIOUS
    <3>1. i - n = j - n
      BY <1>6, <2>2, <2>3
    <3>2. i \in Int /\ j \in Int
      BY <1>1, <2>2
    <3> QED
      BY <1>1, <3>1, <3>2
  <2>5. \A d \in Creators : Carries(d, tid)' => d = c
    BY <1>4, <1>7, <2>1 DEF OneFor
  <2> QED
    BY <1>1, <2>4, <2>5 DEF OneFor
<1>9. CASE tid \notin ToSet(items)
  <2>1. \A i \in n + 1 .. n + l : transactions'[i].tid # tid
    <3> SUFFICES ASSUME NEW i \in n + 1 .. n + l PROVE items[i - n] # tid
      BY <1>1
    <3>1. i - n \in DOMAIN items
      BY <1>1, <1>2
    <3> QED
      BY <1>9, <3>1 DEF ToSet
  <2>2. Active(tid)' \subseteq Active(tid)
    BY <1>1, <2>1 DEF Active
  <2>3. ~Carries(c, tid)'
    BY <1>1, <1>9 DEF Carries
  <2> QED
    BY <1>1, <1>4, <1>7, <2>2, <2>3 DEF OneFor
<1> QED
  BY <1>8, <1>9

LEMMA OneEachNext ==
  ASSUME Told, OneEach, [CreationNext]_creationVars
  PROVE  OneEach'
<1>g. ASSUME UNCHANGED <<sizes, overlapped>>, SameRows,
             \A i \in DOMAIN transactions : transactions'[i].active => transactions[i].active,
             \A d \in Creators : creating'[d] = creating[d] \/ creating'[d] = NoRequest
      PROVE  OneEach'
  BY <1>g, ActiveKept, FewerActive DEF OneEach, NotRepeated
<1>1. CASE UNCHANGED creationVars
  BY <1>1, <1>g DEF creationVars, SameRows
<1>2. ASSUME NEW c \in Creators, NEW items \in Items, NEW group \in BOOLEAN,
             BeginCreate(c, items, group)
      PROVE  OneEach'
  BY <1>2, BeginOneEach
<1>3. ASSUME NEW c \in Creators, SaveTransactions(c) PROVE OneEach'
  BY <1>3, SaveOneEach
<1>4. ASSUME NEW c \in Creators, FinishSingle(c) \/ SaveGroup(c) \/ FailCreate(c) PROVE OneEach'
  <2>1. UNCHANGED <<sizes, overlapped>> /\ creating' = [creating EXCEPT ![c] = NoRequest]
    BY <1>4 DEF FinishSingle, SaveGroup, FailCreate, Answer
  <2>2. SameRows /\ \A i \in DOMAIN transactions : transactions'[i].active => transactions[i].active
    <3>1. CASE FinishSingle(c) \/ FailCreate(c)
      BY <3>1 DEF FinishSingle, FailCreate, SameRows
    <3>2. CASE SaveGroup(c)
      BY <3>2, GroupRows DEF SaveGroup, Told
    <3> QED
      BY <1>4, <3>1, <3>2
  <2>3. \A d \in Creators : creating'[d] = creating[d] \/ creating'[d] = NoRequest
    BY <2>1 DEF Told, CreationTypeOK
  <2> QED
    BY <1>g, <2>1, <2>2, <2>3
<1>5. ASSUME NEW i \in DOMAIN transactions, Deactivate(i) PROVE OneEach'
  BY <1>5, <1>g, DeactivateRows DEF Deactivate, Told
<1> QED
  BY <1>1, <1>2, <1>3, <1>4, <1>5 DEF CreationNext

(* A transaction id has one active transaction at most, unless two requests *)
(* in flight carried it, or one request carried it twice.                   *)
THEOREM OneActiveHolds == CreationSpec => []OneActive
<1>1. CreationInit => OneEach
  BY DEF CreationInit, OneEach, OneFor, Active, Carries
<1>2. Told /\ OneEach /\ [CreationNext]_creationVars => (Told /\ OneEach)'
  BY ToldNext, OneEachNext
<1>3. OneEach => OneActive
  <2> SUFFICES ASSUME OneEach, NEW tid \in TransactionIds \ overlapped,
                      \A n \in DOMAIN sizes : tid \notin Repeats(sizes[n].items)
               PROVE  Cardinality({i \in DOMAIN transactions :
                         transactions[i].tid = tid /\ transactions[i].active}) <= 1
    BY DEF OneActive
  <2>0. Active(tid) = {i \in DOMAIN transactions :
                         transactions[i].tid = tid /\ transactions[i].active}
    BY DEF Active
  <2>1. \A i, j \in Active(tid) : i = j
    BY DEF OneEach, NotRepeated, OneFor
  <2>2. CASE Active(tid) = {}
    BY <2>0, <2>2, FS_EmptySet
  <2>3. CASE Active(tid) # {}
    <3>1. PICK i \in Active(tid) : TRUE
      BY <2>3
    <3>2. Active(tid) = {i}
      BY <2>1, <3>1
    <3>3. Cardinality({i}) = 1
      BY FS_Singleton
    <3> QED
      BY <2>0, <3>2, <3>3
  <2> QED
    BY <2>2, <2>3
<1> QED
  BY <1>1, <1>2, <1>3, ToldInit, PTL DEF CreationSpec

=============================================================================
