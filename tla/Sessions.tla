------------------------------- MODULE Sessions -------------------------------
(***************************************************************************)
(* Sessions of one account: signing in, the second factor, resetting the   *)
(* password and closing the account, as app/auth.py and                    *)
(* app/routers/auth.py handle them, one request per thread.                *)
(*                                                                         *)
(* A step ends where what a request has read can be out of date when it is *)
(* used.  A request that is refused (a wrong password or code, the rate    *)
(* limit) changes nothing and is left out, and so is an expired token: it  *)
(* is one that is not presented any more.                                  *)
(***************************************************************************)
EXTENDS Naturals

CONSTANTS
  Threads,
  Passwords,
  Codes,          \* positions in the list of backup codes
  NoFingerprint,  \* the pwv of a token that carries none
  MaxChanges,     \* bounds the password changes
  MaxSetups       \* bounds the set-ups of the second factor

ASSUME SessionsAssumption ==
  /\ Passwords # {} /\ Threads # {}
  /\ Codes \subseteq Nat \ {0}
  /\ MaxChanges \in Nat /\ MaxSetups \in Nat
  /\ NoFingerprint \notin [password : Passwords, salt : Nat]

Hash == [password : Passwords, salt : Nat]

\* born is history: the password changes made when the token was issued.
Token == [purpose : {"access", "2fa", "reset"}, pwv : Hash \cup {NoFingerprint}, born : Nat]

\* Code 0 is what the authenticator shows for a secret, the others are backup codes.
Code == [secret : Nat, n : Codes \cup {0}]

Record == [exists : BOOLEAN, secret : Nat, codes : SUBSET Code, enabled : BOOLEAN]

VARIABLES
  account,     \* the row of users: whether it is there, and its password_hash
  totp,        \* its row of user_totp
  tokens,      \* the tokens the server has issued
  secrets,     \* how many secrets have been drawn
  pc,          \* per thread: "idle", or the handler that is under way
  call,        \* per thread: the token, the password and the code of its request
  seen,        \* per thread: the hash and the record its handler has read
  used,        \* history: backup codes that have signed somebody in
  proven,      \* history: secrets of which a code has been verified
  overlapped   \* history: two requests about the second factor have overlapped

threads == <<pc, call, seen>>
history == <<used, proven, overlapped>>
vars == <<account, totp, tokens, secrets, threads, history>>

TwoFactor == {"setup", "verify", "disable", "authenticate"}

Handlers == {"login", "reset", "close"} \cup TwoFactor

NoCode == [secret |-> 0, n |-> 0]
NoRecord == [exists |-> FALSE, secret |-> 0, codes |-> {}, enabled |-> FALSE]

TypeOK ==
  /\ account \in [live : BOOLEAN, hash : Hash]
  /\ totp \in Record
  /\ tokens \subseteq Token
  /\ secrets \in Nat
  /\ pc \in [Threads -> Handlers \cup {"idle"}]
  /\ call \in [Threads -> [token : Token, password : Passwords, code : Code]]
  /\ seen \in [Threads -> [hash : Hash, record : Record]]
  /\ used \subseteq Code
  /\ proven \subseteq Nat
  /\ overlapped \in BOOLEAN

-----------------------------------------------------------------------------
(* Tokens. *)

password_fingerprint_OfPassword(hash) == [hash EXCEPT !.salt = 0]

password_fingerprint(hash) == hash

issue_token(hash, purpose) ==
  [purpose |-> purpose, pwv |-> password_fingerprint(hash), born |-> account.hash.salt]

\* The challenge of a login that still needs its second factor names no password.
challenge_token == [purpose |-> "2fa", pwv |-> NoFingerprint, born |-> 0]

matches_current_password(token) == token.pwv = password_fingerprint(account.hash)

Admits(token, purpose) ==
  token.purpose = purpose /\ account.live /\ matches_current_password(token)

-----------------------------------------------------------------------------
AnyPassword == CHOOSE p \in Passwords : TRUE

FirstHash == [password |-> AnyPassword, salt |-> 0]

NoCall == [token |-> challenge_token, password |-> AnyPassword, code |-> NoCode]
NothingSeen == [hash |-> FirstHash, record |-> NoRecord]

\* The member has registered, which issues the first session.
Init ==
  /\ account = [live |-> TRUE, hash |-> FirstHash]
  /\ totp = NoRecord
  /\ tokens = {[purpose |-> "access", pwv |-> password_fingerprint(FirstHash), born |-> 0]}
  /\ secrets = 0
  /\ pc = [t \in Threads |-> "idle"]
  /\ call = [t \in Threads |-> [token |-> [purpose |-> "2fa", pwv |-> NoFingerprint, born |-> 0],
                                password |-> AnyPassword, code |-> NoCode]]
  /\ seen = [t \in Threads |-> NothingSeen]
  /\ used = {}
  /\ proven = {}
  /\ overlapped = FALSE

\* Thread t starts a request, whose handler has read what there is.
Begin(t, handler, request) ==
  /\ pc[t] = "idle"
  /\ pc' = [pc EXCEPT ![t] = handler]
  /\ call' = [call EXCEPT ![t] = request]
  /\ seen' = [seen EXCEPT ![t] = [hash |-> account.hash, record |-> totp]]
  /\ overlapped' = (overlapped \/ (handler \in TwoFactor /\ \E s \in Threads : pc[s] \in TwoFactor))

Done(t) ==
  /\ pc' = [pc EXCEPT ![t] = "idle"]
  /\ call' = [call EXCEPT ![t] = NoCall]
  /\ seen' = [seen EXCEPT ![t] = NothingSeen]

Presenting(token) == [NoCall EXCEPT !.token = token]

-----------------------------------------------------------------------------
(* Signing in, and the password. *)

\* POST /login finds the user and compares the password,
Login(t) ==
  /\ account.live
  /\ Begin(t, "login", NoCall)
  /\ UNCHANGED <<account, totp, tokens, secrets, used, proven>>

\* then looks for a second factor and answers: a challenge, or a session that is
\* bound to the password it has read.
LoginAnswer(t) ==
  /\ pc[t] = "login"
  /\ tokens' = tokens \cup {IF totp.exists /\ totp.enabled THEN challenge_token
                            ELSE issue_token(seen[t].hash, "access")}
  /\ Done(t)
  /\ UNCHANGED <<account, totp, secrets, history>>

ForgotPassword ==
  /\ account.live
  /\ tokens' = tokens \cup {issue_token(account.hash, "reset")}
  /\ UNCHANGED <<account, totp, secrets, threads, history>>

\* POST /reset-password checks the link,
Reset(t) ==
  /\ account.hash.salt < MaxChanges
  /\ \E token \in tokens, p \in Passwords :
       /\ Admits(token, "reset")
       /\ Begin(t, "reset", [Presenting(token) EXCEPT !.password = p])
  /\ UNCHANGED <<account, totp, tokens, secrets, used, proven>>

hash_password(plain) == [password |-> plain, salt |-> account.hash.salt + 1]

\* and writes the new hash, freshly salted, unless the account has gone.
ResetCommit(t) ==
  /\ pc[t] = "reset"
  /\ account' = IF account.live THEN [account EXCEPT !.hash = hash_password(call[t].password)]
                                ELSE account
  /\ Done(t)
  /\ UNCHANGED <<totp, tokens, secrets, history>>

\* DELETE /me takes a session, and the password once more,
Close(t) ==
  /\ \E token \in tokens : Admits(token, "access") /\ Begin(t, "close", Presenting(token))
  /\ UNCHANGED <<account, totp, tokens, secrets, used, proven>>

\* and the record of the second factor goes with the account.
CloseCommit(t) ==
  /\ pc[t] = "close"
  /\ account' = [account EXCEPT !.live = FALSE]
  /\ totp' = NoRecord
  /\ Done(t)
  /\ UNCHANGED <<tokens, secrets, history>>

-----------------------------------------------------------------------------
(* The second factor. *)

BackupCodes(secret) == {[secret |-> secret, n |-> n] : n \in Codes}

Verifies_AnySecret(code) == totp.exists /\ code.n = 0

Verifies(code) == totp.exists /\ code = [secret |-> totp.secret, n |-> 0]

Issued == UNION {BackupCodes(s) \cup {[secret |-> s, n |-> 0]} : s \in 1 .. secrets}

\* POST /2fa/setup looks for a record that is not in force,
Setup(t) ==
  /\ secrets < MaxSetups
  /\ ~ totp.enabled
  /\ \E token \in tokens : Admits(token, "access") /\ Begin(t, "setup", Presenting(token))
  /\ UNCHANGED <<account, totp, tokens, secrets, used, proven>>

\* The record found is updated where it changes: is_enabled, false when it was read,
\* is not written.  One that was not found is inserted, if nobody has meanwhile.
SetupCommit(t) ==
  /\ pc[t] = "setup"
  /\ secrets' = secrets + 1
  /\ totp' = IF account.live /\ totp.exists = seen[t].record.exists
               THEN [totp EXCEPT !.exists = TRUE, !.secret = secrets + 1,
                                 !.codes = BackupCodes(secrets + 1)]
               ELSE totp
  /\ Done(t)
  /\ UNCHANGED <<account, tokens, history>>

\* POST /2fa/verify compares the code,
Verify(t) ==
  /\ \E token \in tokens, code \in Issued :
       /\ Admits(token, "access")
       /\ Verifies(code)
       /\ Begin(t, "verify", [Presenting(token) EXCEPT !.code = code])
       /\ proven' = proven \cup {code.secret}
  /\ UNCHANGED <<account, totp, tokens, secrets, used>>

\* and puts the record in force, if it is still there and was not when it was read.
VerifyCommit(t) ==
  /\ pc[t] = "verify"
  /\ totp' = IF totp.exists /\ ~ seen[t].record.enabled THEN [totp EXCEPT !.enabled = TRUE]
                                                        ELSE totp
  /\ Done(t)
  /\ UNCHANGED <<account, tokens, secrets, history>>

Disable(t) ==
  /\ totp.enabled
  /\ \E token \in tokens, code \in Issued :
       /\ Admits(token, "access")
       /\ Verifies(code)
       /\ Begin(t, "disable", [Presenting(token) EXCEPT !.code = code])
  /\ UNCHANGED <<account, totp, tokens, secrets, used, proven>>

DisableCommit(t) ==
  /\ pc[t] = "disable"
  /\ totp' = [totp EXCEPT !.enabled = FALSE]
  /\ Done(t)
  /\ UNCHANGED <<account, tokens, secrets, history>>

\* POST /2fa/authenticate takes what the authenticator shows, or a backup code,
Authenticate(t) ==
  /\ account.live /\ totp.exists
  /\ \E token \in tokens, code \in Issued :
       /\ token.purpose = "2fa"
       /\ Verifies(code) \/ code \in totp.codes
       /\ Begin(t, "authenticate", [Presenting(token) EXCEPT !.code = code])
  /\ UNCHANGED <<account, totp, tokens, secrets, used, proven>>

CodesLeft_All(t) == seen[t].record.codes

CodesLeft(t) == seen[t].record.codes \ {call[t].code}

\* writes the list back without the backup code, and issues a session bound to the
\* password as it is after the commit.
AuthenticateCommit(t) ==
  /\ pc[t] = "authenticate"
  /\ totp' = IF totp.exists /\ call[t].code.n # 0 THEN [totp EXCEPT !.codes = CodesLeft(t)]
                                                  ELSE totp
  /\ tokens' = IF account.live THEN tokens \cup {issue_token(account.hash, "access")} ELSE tokens
  /\ used' = IF totp.exists /\ call[t].code.n # 0 THEN used \cup {call[t].code} ELSE used
  /\ Done(t)
  /\ UNCHANGED <<account, secrets, proven, overlapped>>

-----------------------------------------------------------------------------
\* The process restarts: what is under way is lost, what has committed is not.  The
\* tokens outlive it, for the server keeps none.
Restart ==
  /\ pc' = [t \in Threads |-> "idle"]
  /\ call' = [t \in Threads |-> NoCall]
  /\ seen' = [t \in Threads |-> NothingSeen]
  /\ UNCHANGED <<account, totp, tokens, secrets, history>>

Step(t) ==
  \/ Login(t) \/ LoginAnswer(t) \/ Reset(t) \/ ResetCommit(t) \/ Close(t) \/ CloseCommit(t)
  \/ Setup(t) \/ SetupCommit(t) \/ Verify(t) \/ VerifyCommit(t)
  \/ Disable(t) \/ DisableCommit(t) \/ Authenticate(t) \/ AuthenticateCommit(t)

Next == ForgotPassword \/ Restart \/ \E t \in Threads : Step(t)

Spec == Init /\ [][Next]_vars

-----------------------------------------------------------------------------
Guarded == {"setup", "verify", "disable", "close", "reset"}

\* A session or a reset link that was issued before the last change of the password,
\* by whatever request, lets nobody in: a link works once and a reset signs every
\* device out, even when the new password is the old one.  Nor does any, once the
\* account is deleted.
TokensEndWithPassword ==
  [][\A t \in Threads :
       pc[t] = "idle" /\ pc'[t] \in Guarded
         => account.live /\ call'[t].token.born = account.hash.salt]_vars

\* Unless two requests about the second factor have overlapped, the backup codes kept
\* are those handed out with the secret in use, less those that have been used.
CodesAreExact ==
  ~ overlapped /\ totp.exists => totp.codes = BackupCodes(totp.secret) \ used

\* Unless two requests about it have overlapped, a second factor is in force only under
\* a secret the member has shown a code of.
EnabledIsProven ==
  ~ overlapped /\ totp.enabled => totp.secret \in proven
=============================================================================
