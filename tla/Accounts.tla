-------------------------------- MODULE Accounts --------------------------------
(***************************************************************************)
(* One account of the organisation: its row of table user, the tokens that *)
(* open it, and what Redis remembers of the revoked ones.  Every request   *)
(* loads the row first and saves the whole entity later (TypeORM's save    *)
(* writes back every column that differs from the database), so two        *)
(* requests that overlap may undo each other.  A token is told by its kind *)
(* and the second it was signed in: two of one kind signed in one second   *)
(* are the same string.                                                    *)
(***************************************************************************)
EXTENDS Integers, FiniteSets

CONSTANTS Calls,        \* requests in flight at a time
          Temporary,    \* passwords the sign-up generates
          Own,          \* passwords users choose
          JwtLife,      \* JWT_EXPIRATION: life of an access token and of a Redis entry
          OtpLife,      \* OTP_EXPIRATION: life of a token of the password reset
          CodeLife,     \* TOTP_EPOCH_TOLERANCE: how long a mailed code is valid
          LastSecond,   \* bound: the clock stops here
          MaxTokens     \* bound: tokens signed

ASSUME LivesAssumption ==
  /\ JwtLife \in Nat /\ OtpLife \in Nat /\ CodeLife \in Nat
  /\ LastSecond \in Nat /\ MaxTokens \in Nat
  /\ OtpLife <= JwtLife
ASSUME PasswordsAssumption == Temporary \cap Own = {}

Seconds == 0 .. LastSecond
Tokens == [kind : {"access", "otp", "verified"}, iat : Seconds]
Rows == [status : {"NEW", "NONE"}, password : Temporary \cup Own, deleted : BOOLEAN]
NoRow == [status |-> "none"]
NoToken == [kind |-> "none"]
Kinds == {"login", "logout", "change", "verify", "set", "remove", "signup", "update"}
Works == [kind : Kinds, stage : {"loaded", "saved"}, row : Rows \cup {NoRow},
          token : Tokens \cup {NoToken}, held : SUBSET Tokens]
Idle == [kind |-> "idle"]

VARIABLES clock,    \* seconds
          account,  \* the row, NoRow before the first sign-up
          issued,   \* tokens handed out
          black,    \* Redis: token -> the second its entry expires
          cutoff,   \* Redis blacklisted:user:<id>: [at, until]
          calls,    \* requests in flight
          spent,    \* history: tokens that must never be accepted again
          torn      \* history: a sign-up overlapped another request

accountVars == <<clock, account, issued, black, cutoff, calls, spent, torn>>

Expires == 0 .. LastSecond + JwtLife

AccountsTypeOK ==
  /\ clock \in Seconds
  /\ account \in Rows \cup {NoRow}
  /\ issued \subseteq Tokens
  /\ black \in [Tokens -> Expires]
  /\ cutoff \in [at : Seconds, until : Expires]
  /\ calls \in [Calls -> Works \cup {Idle}]
  /\ spent \subseteq Tokens
  /\ torn \in BOOLEAN

(* getUser finds rows that are not deleted. *)
Live == account # NoRow /\ ~account.deleted

Life(t) == IF t.kind = "access" THEN JwtLife ELSE OtpLife

(* Mutant: a token of the very second of the cutoff passes. *)
BlacklistedBefore(t) ==
  \/ clock < black[t]
  \/ t.kind = "access" /\ clock < cutoff.until /\ t.iat < cutoff.at

(* isTokenBlacklisted: the token itself, or the cutoff of its user, which only
   an access token names. *)
Blacklisted(t) ==
  \/ clock < black[t]
  \/ t.kind = "access" /\ clock < cutoff.until /\ t.iat <= cutoff.at

(* The guards of a route: the blacklist, then the strategy (signature,
   expiry). *)
Accepted(t) == t \in issued /\ ~Blacklisted(t) /\ clock < t.iat + Life(t)

AccountsInit ==
  /\ clock = 0
  /\ account = NoRow
  /\ issued = {}
  /\ black = [t \in Tokens |-> 0]
  /\ cutoff = [at |-> 0, until |-> 0]
  /\ calls = [c \in Calls |-> Idle]
  /\ spent = {}
  /\ torn = FALSE

-----------------------------------------------------------------------------
(* The steps every request is made of. *)

InFlight == {c \in Calls : calls[c] # Idle}

Begin(c, kind, token, held) ==
  /\ calls[c] = Idle
  /\ calls' = [calls EXCEPT ![c] = [kind |-> kind, stage |-> "loaded", row |-> account,
                                    token |-> token, held |-> held]]
  /\ torn' = (torn \/ (InFlight # {} /\ "signup" \in {kind} \cup {calls[d].kind : d \in InFlight}))

At(c, kind, stage) == calls[c] # Idle /\ calls[c].kind = kind /\ calls[c].stage = stage

Saved(c) == calls' = [calls EXCEPT ![c].stage = "saved"]
Ends(c) == calls' = [calls EXCEPT ![c] = Idle]

(* blacklistToken: SET jwt EX JWT_EXPIRATION. *)
Blacklist(t) == black' = [black EXCEPT ![t] = clock + JwtLife]

Sign(kind) ==
  /\ Cardinality(issued) < MaxTokens
  /\ issued' = issued \cup {[kind |-> kind, iat |-> clock]}

(* A route behind a token: its guards load the user. *)
WithToken(c, kind, t) ==
  /\ Accepted(t)
  /\ Live
  /\ Begin(c, kind, t, {})
  /\ UNCHANGED <<clock, account, issued, black, cutoff, spent>>

-----------------------------------------------------------------------------
(* POST /auth/login: LocalStrategy compares the password with the loaded row,
   then the token is signed. *)
BeginLogin(c) ==
  /\ Live
  /\ Begin(c, "login", NoToken, {})
  /\ UNCHANGED <<clock, account, issued, black, cutoff, spent>>

FinishLogin(c) ==
  /\ At(c, "login", "loaded")
  /\ Sign("access")
  /\ Ends(c)
  /\ UNCHANGED <<clock, account, black, cutoff, spent, torn>>

(* POST /auth/logout *)
BeginLogout(c) == \E t \in Tokens : t.kind = "access" /\ WithToken(c, "logout", t)

FinishLogout(c) ==
  /\ At(c, "logout", "loaded")
  /\ Blacklist(calls[c].token)
  /\ spent' = spent \cup {calls[c].token}
  /\ Ends(c)
  /\ UNCHANGED <<clock, account, issued, cutoff, torn>>

(* PATCH /auth/change-password: the old password is compared with the row the
   guard loaded, and the new one must differ from it. *)
BeginChange(c) == \E t \in Tokens : t.kind = "access" /\ WithToken(c, "change", t)

SaveChange(c) ==
  /\ At(c, "change", "loaded")
  /\ \E p \in Own \ {calls[c].row.password} :
       account' = [calls[c].row EXCEPT !.password = p, !.status = "NONE"]
  /\ Ends(c)
  /\ UNCHANGED <<clock, issued, black, cutoff, spent, torn>>

(* POST /auth/reset-password: a code is mailed, a token returned. *)
CreateOtp ==
  /\ Live
  /\ Sign("otp")
  /\ UNCHANGED <<clock, account, black, cutoff, calls, spent, torn>>

(* POST /auth/verify-reset: with a code mailed not too long ago. *)
BeginVerify(c) == \E t \in Tokens : t.kind = "otp" /\ WithToken(c, "verify", t)

SaveVerify(c) ==
  /\ At(c, "verify", "loaded")
  /\ \E t \in issued : t.kind = "otp" /\ clock - t.iat <= CodeLife
  /\ account' = [calls[c].row EXCEPT !.status = "NEW"]
  /\ Saved(c)
  /\ UNCHANGED <<clock, issued, black, cutoff, spent, torn>>

FinishVerify(c) ==
  /\ At(c, "verify", "saved")
  /\ Blacklist(calls[c].token)
  /\ spent' = spent \cup {calls[c].token}
  /\ Sign("verified")
  /\ Ends(c)
  /\ UNCHANGED <<clock, account, cutoff, torn>>

(* PATCH /auth/set-password *)
BeginSet(c) == \E t \in Tokens : t.kind = "verified" /\ WithToken(c, "set", t)

SaveSet(c) ==
  /\ At(c, "set", "loaded")
  /\ \E p \in Own : account' = [calls[c].row EXCEPT !.password = p, !.status = "NONE"]
  /\ Saved(c)
  /\ UNCHANGED <<clock, issued, black, cutoff, spent, torn>>

FinishSet(c) ==
  /\ At(c, "set", "saved")
  /\ Blacklist(calls[c].token)
  /\ spent' = spent \cup {calls[c].token}
  /\ Ends(c)
  /\ UNCHANGED <<clock, account, issued, cutoff, torn>>

(* DELETE /users/:id: the tokens of the user are revoked, then the row is
   soft-deleted. *)
BeginRemove(c) ==
  /\ Live
  /\ Begin(c, "remove", NoToken, {t \in issued : t.kind = "access"})
  /\ UNCHANGED <<clock, account, issued, black, cutoff, spent>>

Revoke(c) ==
  /\ At(c, "remove", "loaded")
  /\ cutoff' = [at |-> clock, until |-> clock + JwtLife]
  /\ Saved(c)
  /\ UNCHANGED <<clock, account, issued, black, spent, torn>>

SoftRemove(c) ==
  /\ At(c, "remove", "saved")
  /\ account' = [account EXCEPT !.deleted = TRUE]
  /\ spent' = spent \cup calls[c].held
  /\ Ends(c)
  /\ UNCHANGED <<clock, issued, black, cutoff, torn>>

(* Mutant: any live account. *)
RenewsAny(row) == row # NoRow /\ ~row.deleted

(* POST /auth/signup by an administrator: an account nobody has used yet gets
   another temporary password, any other is created or created again. *)
Renews(row) == row # NoRow /\ ~row.deleted /\ row.status = "NEW"

BeginSignUp(c) ==
  /\ Begin(c, "signup", NoToken, {})
  /\ UNCHANGED <<clock, account, issued, black, cutoff, spent>>

(* updateUserById and createUser load the row a second time. *)
ReloadSignUp(c) ==
  /\ At(c, "signup", "loaded")
  /\ IF Live <=> Renews(calls[c].row)
     THEN calls' = [calls EXCEPT ![c].stage = "saved", ![c].row = account]
     ELSE Ends(c)
  /\ UNCHANGED <<clock, account, issued, black, cutoff, spent, torn>>

(* The save: a password on top of a live row; a deleted or a new row starts as
   NEW.  An insert fails when another sign-up inserted the e-mail first. *)
SaveSignUp(c) ==
  /\ At(c, "signup", "saved")
  /\ LET row == calls[c].row IN
       IF row = NoRow /\ account # NoRow
       THEN UNCHANGED account
       ELSE \E p \in Temporary :
              account' = IF row # NoRow /\ ~row.deleted THEN [row EXCEPT !.password = p]
                         ELSE [status |-> "NEW", password |-> p, deleted |-> FALSE]
  /\ Ends(c)
  /\ UNCHANGED <<clock, issued, black, cutoff, spent, torn>>

(* PATCH /users/:id and /auth/elevate-admin: a flag the model leaves out is
   changed, and the loaded row written back with it. *)
BeginUpdate(c) ==
  /\ Live
  /\ Begin(c, "update", NoToken, {})
  /\ UNCHANGED <<clock, account, issued, black, cutoff, spent>>

SaveUpdate(c) ==
  /\ At(c, "update", "loaded")
  /\ account' = calls[c].row
  /\ Ends(c)
  /\ UNCHANGED <<clock, issued, black, cutoff, spent, torn>>

(* The process dies, the mailed code is wrong, or Redis does not answer. *)
Fail(c) ==
  /\ calls[c] # Idle
  /\ Ends(c)
  /\ UNCHANGED <<clock, account, issued, black, cutoff, spent, torn>>

Tick ==
  /\ clock < LastSecond
  /\ clock' = clock + 1
  /\ UNCHANGED <<account, issued, black, cutoff, calls, spent, torn>>

AccountsNext ==
  \/ CreateOtp \/ Tick
  \/ \E c \in Calls :
       \/ BeginLogin(c) \/ FinishLogin(c) \/ BeginLogout(c) \/ FinishLogout(c)
       \/ BeginChange(c) \/ SaveChange(c)
       \/ BeginVerify(c) \/ SaveVerify(c) \/ FinishVerify(c)
       \/ BeginSet(c) \/ SaveSet(c) \/ FinishSet(c)
       \/ BeginRemove(c) \/ Revoke(c) \/ SoftRemove(c)
       \/ BeginSignUp(c) \/ ReloadSignUp(c) \/ SaveSignUp(c)
       \/ BeginUpdate(c) \/ SaveUpdate(c) \/ Fail(c)

AccountsSpec == AccountsInit /\ [][AccountsNext]_accountVars

-----------------------------------------------------------------------------
(* A token whose logout, verification or new password was answered, and an     *)
(* access token that was out when an administrator asked for a removal that    *)
(* has taken place, is never accepted again: not in the second it was revoked  *)
(* in, not when Redis drops the entry, not after the account is created again  *)
(* or brought back by a save that overlapped the removal.                      *)
SpentStaysSpent == \A t \in spent : ~Accepted(t)

(* An account that counts as verified (status NONE) has a password its user    *)
(* chose, never the generated one an administrator's sign-up mailed, unless    *)
(* that sign-up overlapped another request on the account.                     *)
VerifiedMeansOwn ==
  ~torn /\ account # NoRow /\ account.status = "NONE" => account.password \in Own

=============================================================================
