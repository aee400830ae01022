----------------------------- MODULE SessionsProofs -----------------------------
(***************************************************************************)
(* Sessions end with the password, for any threads, passwords, codes and   *)
(* limits.  A token is bound to a hash no younger than itself, and it is   *)
(* no younger than the account's hash: if the two hashes are the same, so  *)
(* are the three ages.                                                     *)
(***************************************************************************)
EXTENDS Sessions, TLAPS

\* A token names a hash no younger than itself, and neither a token nor what a request
\* has read is younger than the hash in force.
AgesBounded ==
  /\ \A k \in tokens : /\ k.born <= account.hash.salt
                       /\ k.pwv # NoFingerprint => k.pwv.salt <= k.born
  /\ \A t \in Threads : seen[t].hash.salt <= account.hash.salt

IInv == TypeOK /\ AgesBounded

-----------------------------------------------------------------------------
\* What a request holds when it has read nothing is well typed.
LEMMA NothingTyped ==
  /\ AnyPassword \in Passwords /\ FirstHash \in Hash
  /\ NoCall \in [token : Token, password : Passwords, code : Code]
  /\ NothingSeen \in [hash : Hash, record : Record] /\ NothingSeen.hash.salt = 0
<1>1. AnyPassword \in Passwords
  BY SessionsAssumption DEF AnyPassword
<1>2. FirstHash \in Hash
  BY <1>1 DEF FirstHash, Hash
<1>3. NoCall \in [token : Token, password : Passwords, code : Code]
  BY <1>1 DEF NoCall, challenge_token, Token, NoCode, Code
<1>4. NothingSeen \in [hash : Hash, record : Record] /\ NothingSeen.hash.salt = 0
  BY <1>2 DEF NothingSeen, FirstHash, NoRecord, Record
<1> QED BY <1>1, <1>2, <1>3, <1>4

\* The invariant holds of a member who has just registered.
LEMMA InitIInv == Init => IInv
<1> SUFFICES ASSUME Init PROVE IInv
  OBVIOUS
<1>1. TypeOK
  <2>1. account \in [live : BOOLEAN, hash : Hash] /\ totp \in Record
    BY NothingTyped DEF Init, NoRecord, Record
  <2>2. tokens \subseteq Token
    BY NothingTyped DEF Init, Token, password_fingerprint
  <2>3. call \in [Threads -> [token : Token, password : Passwords, code : Code]]
    BY NothingTyped DEF Init, NoCall, challenge_token
  <2>4. seen \in [Threads -> [hash : Hash, record : Record]]
    BY NothingTyped DEF Init
  <2> QED BY <2>1, <2>2, <2>3, <2>4 DEF Init, TypeOK
<1>2. AgesBounded
  BY NothingTyped, SessionsAssumption
     DEF Init, AgesBounded, password_fingerprint, FirstHash
<1> QED BY <1>1, <1>2 DEF IInv

\* A request that starts has read the hash in force.
LEMMA BeginKeeps ==
  ASSUME IInv, NEW t \in Threads, NEW h \in Handlers,
         NEW q \in [token : Token, password : Passwords, code : Code],
         Begin(t, h, q), UNCHANGED <<account, totp, tokens, secrets, used>>,
         proven' \subseteq Nat
  PROVE  IInv'
<1>1. TypeOK'
  BY DEF IInv, TypeOK, Begin
<1>2. AgesBounded'
  BY DEF IInv, TypeOK, AgesBounded, Begin, Hash
<1> QED BY <1>1, <1>2 DEF IInv

\* A request that ends keeps the ages in order, whatever it has written, if the hash in
\* force has not become younger and the tokens it has issued are bound by it.
LEMMA DoneKeeps ==
  ASSUME IInv, NEW t \in Threads, Done(t),
         account' \in [live : BOOLEAN, hash : Hash], totp' \in Record,
         tokens' \subseteq Token, secrets' \in Nat, used' \subseteq Code,
         UNCHANGED <<proven, overlapped>>,
         account.hash.salt <= account'.hash.salt,
         \A k \in tokens' : \/ k \in tokens
                            \/ /\ k.born <= account.hash.salt
                               /\ k.pwv # NoFingerprint => k.pwv.salt <= k.born
  PROVE  IInv'
<1>1. TypeOK'
  BY NothingTyped DEF IInv, TypeOK, Done
<1>2. account.hash.salt \in Nat /\ account'.hash.salt \in Nat
  BY DEF IInv, TypeOK, Hash
<1>3. ASSUME NEW k \in tokens'
      PROVE  k.born <= account'.hash.salt /\ (k.pwv # NoFingerprint => k.pwv.salt <= k.born)
  BY <1>2, <1>3 DEF IInv, TypeOK, AgesBounded, Token
<1>4. ASSUME NEW s \in Threads
      PROVE  seen'[s].hash.salt <= account'.hash.salt
  BY <1>2, NothingTyped DEF IInv, TypeOK, AgesBounded, Done, Hash
<1> QED BY <1>1, <1>3, <1>4 DEF IInv, AgesBounded

-----------------------------------------------------------------------------
\* A token with the hash in force is typed and as old as it says.
LEMMA IssuedBounded ==
  ASSUME IInv, NEW hash \in Hash, hash.salt <= account.hash.salt,
         NEW purpose \in {"access", "reset"}
  PROVE  LET k == issue_token(hash, purpose)
         IN  /\ k \in Token /\ k.born <= account.hash.salt
             /\ k.pwv # NoFingerprint => k.pwv.salt <= k.born
BY DEF IInv, TypeOK, issue_token, password_fingerprint, Token, Hash

\* The token that a login hands out for its second factor is of no later change than the hash.
LEMMA ChallengeBounded ==
  ASSUME IInv
  PROVE  /\ challenge_token \in Token /\ challenge_token.pwv = NoFingerprint
         /\ challenge_token.born <= account.hash.salt
BY DEF IInv, TypeOK, challenge_token, Token, Hash

\* What the requests carry is well typed.
LEMMA PresentingTyped ==
  ASSUME IInv, NEW token \in tokens
  PROVE  Presenting(token) \in [token : Token, password : Passwords, code : Code]
BY NothingTyped DEF IInv, TypeOK, Presenting

\* A request that presents a token with a code is well typed.
LEMMA CodeTyped ==
  ASSUME IInv, NEW token \in tokens, NEW code \in Issued
  PROVE  /\ [Presenting(token) EXCEPT !.code = code]
              \in [token : Token, password : Passwords, code : Code]
         /\ code.secret \in Nat
<1>1. code \in Code
  BY DEF IInv, TypeOK, Issued, BackupCodes, Code
<1> QED BY <1>1, PresentingTyped DEF Code

-----------------------------------------------------------------------------
\* Every step of a request keeps the invariant.
LEMMA StepIInv ==
  ASSUME IInv, NEW t \in Threads, Step(t)
  PROVE  IInv'
<1> USE DEF IInv, TypeOK
<1>1. CASE Login(t)
  BY <1>1, BeginKeeps, NothingTyped DEF Login, Handlers
<1>2. CASE LoginAnswer(t)
  <2>1. seen[t].hash \in Hash /\ seen[t].hash.salt <= account.hash.salt
    BY DEF AgesBounded
  <2>2. PICK k \in {challenge_token, issue_token(seen[t].hash, "access")} :
          tokens' = tokens \cup {k}
    BY <1>2 DEF LoginAnswer
  <2>3. /\ k \in Token /\ k.born <= account.hash.salt
        /\ k.pwv # NoFingerprint => k.pwv.salt <= k.born
    BY <2>1, <2>2, IssuedBounded, ChallengeBounded
  <2> QED BY <1>2, <2>2, <2>3, DoneKeeps DEF LoginAnswer, history, Hash
<1>3. CASE Reset(t)
  <2>1. PICK token \in tokens, p \in Passwords :
          Begin(t, "reset", [Presenting(token) EXCEPT !.password = p])
    BY <1>3 DEF Reset
  <2>2. [Presenting(token) EXCEPT !.password = p]
          \in [token : Token, password : Passwords, code : Code]
    BY PresentingTyped
  <2>3. UNCHANGED <<account, totp, tokens, secrets, used, proven>>
    BY <1>3 DEF Reset
  <2> QED BY <2>1, <2>2, <2>3, BeginKeeps DEF Handlers
<1>4. CASE ResetCommit(t)
  BY <1>4, DoneKeeps DEF ResetCommit, history, Hash, hash_password, AgesBounded
<1>5. CASE Close(t)
  <2>1. PICK token \in tokens : Begin(t, "close", Presenting(token))
    BY <1>5 DEF Close
  <2>2. UNCHANGED <<account, totp, tokens, secrets, used, proven>>
    BY <1>5 DEF Close
  <2> QED BY <2>1, <2>2, PresentingTyped, BeginKeeps DEF Handlers, TwoFactor
<1>6. CASE CloseCommit(t)
  <2>1. totp' \in Record /\ secrets' \in Nat
    BY <1>6 DEF CloseCommit, Record, NoRecord
  <2>2. account' \in [live : BOOLEAN, hash : Hash] /\ account'.hash = account.hash
    BY <1>6 DEF CloseCommit
  <2>3. account.hash.salt <= account'.hash.salt
    BY <2>2 DEF Hash
  <2>4. Done(t) /\ UNCHANGED <<tokens, used, proven, overlapped>>
    BY <1>6 DEF CloseCommit, history
  <2>5. tokens' \subseteq Token /\ used' \subseteq Code
    BY <2>4
  <2> HIDE DEF IInv
  <2> QED BY <2>1, <2>2, <2>3, <2>4, <2>5, DoneKeeps
<1>7. CASE Setup(t)
  <2>1. PICK token \in tokens : Begin(t, "setup", Presenting(token))
    BY <1>7 DEF Setup
  <2>2. UNCHANGED <<account, totp, tokens, secrets, used, proven>>
    BY <1>7 DEF Setup
  <2> QED BY <2>1, <2>2, PresentingTyped, BeginKeeps DEF Handlers, TwoFactor
<1>8. CASE SetupCommit(t)
  <2>1. totp' \in Record /\ secrets' \in Nat
    <3>1. BackupCodes(secrets + 1) \subseteq Code
      BY DEF BackupCodes, Code
    <3>2. totp \in Record /\ secrets + 1 \in Nat
      OBVIOUS
    <3>3. ASSUME NEW r \in Record, NEW n \in Nat, NEW B \in SUBSET Code
          PROVE  [r EXCEPT !.exists = TRUE, !.secret = n, !.codes = B] \in Record
      BY DEF Record
    <3> QED BY <1>8, <3>1, <3>2, <3>3 DEF SetupCommit
  <2>2. account' \in [live : BOOLEAN, hash : Hash] /\ account'.hash = account.hash
    BY <1>8 DEF SetupCommit
  <2>3. account.hash.salt <= account'.hash.salt
    BY <2>2 DEF Hash
  <2>4. Done(t) /\ UNCHANGED <<tokens, used, proven, overlapped>>
    BY <1>8 DEF SetupCommit, history
  <2>5. tokens' \subseteq Token /\ used' \subseteq Code
    BY <2>4
  <2> HIDE DEF IInv
  <2> QED BY <2>1, <2>2, <2>3, <2>4, <2>5, DoneKeeps
<1>9. CASE Verify(t)
  <2>1. PICK token \in tokens, code \in Issued :
          /\ Begin(t, "verify", [Presenting(token) EXCEPT !.code = code])
          /\ proven' = proven \cup {code.secret}
    BY <1>9 DEF Verify
  <2>2. UNCHANGED <<account, totp, tokens, secrets, used>>
    BY <1>9 DEF Verify
  <2> QED BY <2>1, <2>2, CodeTyped, BeginKeeps DEF Handlers, TwoFactor
<1>10. CASE VerifyCommit(t)
  <2>1. totp' \in Record /\ secrets' \in Nat
    BY <1>10 DEF VerifyCommit, Record
  <2>2. account' \in [live : BOOLEAN, hash : Hash] /\ account'.hash = account.hash
    BY <1>10 DEF VerifyCommit
  <2>3. account.hash.salt <= account'.hash.salt
    BY <2>2 DEF Hash
  <2>4. Done(t) /\ UNCHANGED <<tokens, used, proven, overlapped>>
    BY <1>10 DEF VerifyCommit, history
  <2>5. tokens' \subseteq Token /\ used' \subseteq Code
    BY <2>4
  <2> HIDE DEF IInv
  <2> QED BY <2>1, <2>2, <2>3, <2>4, <2>5, DoneKeeps
<1>11. CASE Disable(t)
  <2>1. PICK token \in tokens, code \in Issued :
          /\ Begin(t, "disable", [Presenting(token) EXCEPT !.code = code])
          /\ UNCHANGED proven
    BY <1>11 DEF Disable
  <2>2. UNCHANGED <<account, totp, tokens, secrets, used>>
    BY <1>11 DEF Disable
  <2> QED BY <2>1, <2>2, CodeTyped, BeginKeeps DEF Handlers, TwoFactor
<1>12. CASE DisableCommit(t)
  <2>1. totp' \in Record /\ secrets' \in Nat
    BY <1>12 DEF DisableCommit, Record
  <2>2. account' \in [live : BOOLEAN, hash : Hash] /\ account'.hash = account.hash
    BY <1>12 DEF DisableCommit
  <2>3. account.hash.salt <= account'.hash.salt
    BY <2>2 DEF Hash
  <2>4. Done(t) /\ UNCHANGED <<tokens, used, proven, overlapped>>
    BY <1>12 DEF DisableCommit, history
  <2>5. tokens' \subseteq Token /\ used' \subseteq Code
    BY <2>4
  <2> HIDE DEF IInv
  <2> QED BY <2>1, <2>2, <2>3, <2>4, <2>5, DoneKeeps
<1>13. CASE Authenticate(t)
  <2>1. PICK token \in tokens, code \in Issued :
          /\ Begin(t, "authenticate", [Presenting(token) EXCEPT !.code = code])
          /\ UNCHANGED proven
    BY <1>13 DEF Authenticate
  <2>2. UNCHANGED <<account, totp, tokens, secrets, used>>
    BY <1>13 DEF Authenticate
  <2> QED BY <2>1, <2>2, CodeTyped, BeginKeeps DEF Handlers, TwoFactor
<1>14. CASE AuthenticateCommit(t)
  <2>1. LET k == issue_token(account.hash, "access")
        IN  /\ k \in Token /\ k.born <= account.hash.salt
            /\ k.pwv # NoFingerprint => k.pwv.salt <= k.born
    BY IssuedBounded DEF Hash
  <2>2. totp' \in Record /\ used' \subseteq Code
    BY <1>14 DEF AuthenticateCommit, Record, CodesLeft
  <2> QED BY <1>14, <2>1, <2>2, DoneKeeps DEF AuthenticateCommit, Hash
<1> QED BY <1>1, <1>2, <1>3, <1>4, <1>5, <1>6, <1>7, <1>8, <1>9, <1>10, <1>11, <1>12,
           <1>13, <1>14 DEF Step

\* And so does every other.
LEMMA NextIInv ==
  ASSUME IInv, [Next]_vars
  PROVE  IInv'
<1>1. CASE ForgotPassword
  BY <1>1, IssuedBounded
     DEF ForgotPassword, threads, history, IInv, TypeOK, AgesBounded, Hash
<1>2. CASE Restart
  BY <1>2, NothingTyped DEF Restart, history, IInv, TypeOK, AgesBounded, Hash
<1>3. CASE \E t \in Threads : Step(t)
  BY <1>3, StepIInv
<1>4. CASE UNCHANGED vars
  BY <1>4 DEF vars, threads, history, IInv, TypeOK, AgesBounded
<1> QED BY <1>1, <1>2, <1>3, <1>4 DEF Next

\* A token that is let in is as old as the hash in force.
LEMMA AdmittedIsCurrent ==
  ASSUME IInv, NEW token \in tokens, NEW purpose, Admits(token, purpose)
  PROVE  account.live /\ token.born = account.hash.salt
<1>1. account.live /\ token.pwv = account.hash
  BY DEF Admits, matches_current_password, password_fingerprint
<1>2. account.hash \in Hash /\ token \in Token
  BY DEF IInv, TypeOK
<1>3. token.pwv # NoFingerprint
  BY <1>1, <1>2, SessionsAssumption DEF Hash
<1>4. account.hash.salt <= token.born /\ token.born <= account.hash.salt
  BY <1>1, <1>3 DEF IInv, AgesBounded
<1> QED BY <1>1, <1>2, <1>4 DEF Hash, Token

\* A step that starts a guarded request presents a token that was issued since the last
\* change of the password, to an account that is there.
LEMMA StepGuarded ==
  ASSUME IInv, [Next]_vars, NEW t \in Threads, pc[t] = "idle", pc'[t] \in Guarded
  PROVE  account.live /\ call'[t].token.born = account.hash.salt
<1> USE DEF IInv, TypeOK
<1>1. PICK s \in Threads : Step(s)
  BY DEF Next, ForgotPassword, Restart, vars, threads, Guarded
<1>2. ~ \E h \in Handlers : pc[s] = h
  BY <1>1 DEF Step, Login, LoginAnswer, Reset, ResetCommit, Close, CloseCommit, Setup,
     SetupCommit, Verify, VerifyCommit, Disable, DisableCommit, Authenticate,
     AuthenticateCommit, Begin, Done, Guarded, Handlers, TwoFactor
<1>3. Reset(s) \/ Close(s) \/ Setup(s) \/ Verify(s) \/ Disable(s)
  BY <1>1, <1>2 DEF Step, Login, LoginAnswer, ResetCommit, CloseCommit, SetupCommit,
     VerifyCommit, DisableCommit, Authenticate, AuthenticateCommit, Begin, Guarded,
     Handlers, TwoFactor
<1>4. CASE Reset(s)
  <2>1. PICK token \in tokens, p \in Passwords :
          Admits(token, "reset") /\ Begin(s, "reset", [Presenting(token) EXCEPT !.password = p])
    BY <1>4 DEF Reset
  <2>2. [Presenting(token) EXCEPT !.password = p].token = token
    BY DEF Presenting, NoCall
  <2>3. s = t /\ call'[t] = [Presenting(token) EXCEPT !.password = p]
    BY <2>1 DEF Begin, Guarded
  <2> QED BY <2>1, <2>2, <2>3, AdmittedIsCurrent
<1>5. CASE Close(s)
  <2>1. PICK token \in tokens :
          Admits(token, "access") /\ Begin(s, "close", Presenting(token))
    BY <1>5 DEF Close
  <2>2. Presenting(token).token = token
    BY DEF Presenting, NoCall
  <2>3. s = t /\ call'[t] = Presenting(token)
    BY <2>1 DEF Begin, Guarded
  <2> QED BY <2>1, <2>2, <2>3, AdmittedIsCurrent
<1>6. CASE Setup(s)
  <2>1. PICK token \in tokens :
          Admits(token, "access") /\ Begin(s, "setup", Presenting(token))
    BY <1>6 DEF Setup
  <2>2. Presenting(token).token = token
    BY DEF Presenting, NoCall
  <2>3. s = t /\ call'[t] = Presenting(token)
    BY <2>1 DEF Begin, Guarded
  <2> QED BY <2>1, <2>2, <2>3, AdmittedIsCurrent
<1>7. CASE Verify(s)
  <2>1. PICK token \in tokens, code \in Issued :
          Admits(token, "access") /\ Begin(s, "verify", [Presenting(token) EXCEPT !.code = code])
    BY <1>7 DEF Verify
  <2>2. [Presenting(token) EXCEPT !.code = code].token = token
    BY DEF Presenting, NoCall
  <2>3. s = t /\ call'[t] = [Presenting(token) EXCEPT !.code = code]
    BY <2>1 DEF Begin, Guarded
  <2> QED BY <2>1, <2>2, <2>3, AdmittedIsCurrent
<1>8. CASE Disable(s)
  <2>1. PICK token \in tokens, code \in Issued :
          Admits(token, "access") /\ Begin(s, "disable", [Presenting(token) EXCEPT !.code = code])
    BY <1>8 DEF Disable
  <2>2. [Presenting(token) EXCEPT !.code = code].token = token
    BY DEF Presenting, NoCall
  <2>3. s = t /\ call'[t] = [Presenting(token) EXCEPT !.code = code]
    BY <2>1 DEF Begin, Guarded
  <2> QED BY <2>1, <2>2, <2>3, AdmittedIsCurrent
<1> QED BY <1>3, <1>4, <1>5, <1>6, <1>7, <1>8

-----------------------------------------------------------------------------
\* Every reachable state of the sessions is well typed (app/auth.py, routers/auth.py).
THEOREM SessionsTyped == Spec => []TypeOK
<1>1. IInv => TypeOK
  BY DEF IInv
<1> QED BY <1>1, InitIInv, NextIInv, PTL DEF Spec

\* A session or a reset link issued before the last change of the password lets nobody
\* in, however many requests overlap it (auth.py:47-81).
THEOREM SessionsEndWithPassword == Spec => TokensEndWithPassword
<1>1. IInv /\ [Next]_vars => [\A t \in Threads :
        pc[t] = "idle" /\ pc'[t] \in Guarded
          => account.live /\ call'[t].token.born = account.hash.salt]_vars
  BY StepGuarded
<1> QED BY <1>1, InitIInv, NextIInv, PTL DEF Spec, TokensEndWithPassword

-----------------------------------------------------------------------------
(* The second factor.  While no two requests about it have overlapped, one  *)
(* thread at most is at it, and what that thread has read still holds, or   *)
(* else the account has gone.                                               *)

Gone == ~ account.live /\ totp = NoRecord

\* Only secrets that have been drawn are in anybody's hands.
CodesDrawn ==
  /\ \A c \in used : c.secret <= secrets
  /\ \A t \in Threads : call[t].code.secret <= secrets

\* The thread at the second factor is alone, and its reading is current.
AloneAndCurrent ==
  /\ \A s, t \in Threads : pc[s] \in TwoFactor /\ pc[t] \in TwoFactor => s = t
  /\ \A t \in Threads : pc[t] \in TwoFactor => totp = seen[t].record \/ Gone

\* What a set-up, and what a verification, has checked.
Checked ==
  \A t \in Threads :
    /\ pc[t] = "setup" => ~ seen[t].record.enabled
    /\ pc[t] = "verify" => /\ seen[t].record.secret = call[t].code.secret
                           /\ call[t].code.secret \in proven

FactorInv ==
  /\ CodesDrawn
  /\ ~ overlapped => AloneAndCurrent /\ Checked
  /\ CodesAreExact /\ EnabledIsProven

\* Nothing has been drawn when the member registers.
LEMMA InitFactor == Init => FactorInv
BY DEF Init, FactorInv, CodesDrawn, AloneAndCurrent, Checked, CodesAreExact,
       EnabledIsProven, NoCode, NoRecord, TwoFactor

\* A request that starts keeps the invariant, given what a set-up or a verification
\* checks as it starts.
LEMMA BeginFactor ==
  ASSUME IInv, FactorInv, NEW t \in Threads, NEW h \in Handlers, NEW q,
         Begin(t, h, q), UNCHANGED <<account, totp, tokens, secrets, used>>,
         proven \subseteq proven', q.code.secret <= secrets,
         h = "setup" => ~ totp.enabled,
         h = "verify" => totp.secret = q.code.secret /\ q.code.secret \in proven'
  PROVE  FactorInv'
<1> USE DEF IInv, TypeOK
<1>1. CodesDrawn'
  BY DEF Begin, FactorInv, CodesDrawn
<1>2. ASSUME ~ overlapped'
      PROVE  AloneAndCurrent' /\ Checked'
  <2>1. ~ overlapped /\ (h \in TwoFactor => \A s \in Threads : pc[s] \notin TwoFactor)
    BY <1>2 DEF Begin
  <2>2. AloneAndCurrent'
    BY <2>1 DEF Begin, FactorInv, AloneAndCurrent, Gone
  <2>3. Checked'
    BY <2>1 DEF Begin, FactorInv, Checked
  <2> QED BY <2>2, <2>3
<1>3. CodesAreExact' /\ EnabledIsProven'
  BY DEF Begin, FactorInv, CodesAreExact, EnabledIsProven
<1> QED BY <1>1, <1>2, <1>3 DEF FactorInv

\* A request that ends without a word about the second factor keeps the invariant, and
\* so does one that was not about it.
LEMMA DoneFactor ==
  ASSUME IInv, FactorInv, NEW t \in Threads, Done(t),
         UNCHANGED <<totp, secrets, used, proven, overlapped>>,
         account'.live = account.live
  PROVE  FactorInv'
<1> USE DEF IInv, TypeOK, Done
<1>1. CodesDrawn'
  BY DEF FactorInv, CodesDrawn, NoCall, NoCode
<1>2. ~ overlapped => AloneAndCurrent' /\ Checked'
  BY DEF FactorInv, AloneAndCurrent, Checked, Gone, TwoFactor
<1>3. CodesAreExact' /\ EnabledIsProven'
  BY DEF FactorInv, CodesAreExact, EnabledIsProven
<1> QED BY <1>1, <1>2, <1>3 DEF FactorInv

\* A commit about the second factor leaves nobody at it, so what it has written is all
\* there is to look at.
LEMMA CommitFactor ==
  ASSUME IInv, FactorInv, NEW t \in Threads, pc[t] \in TwoFactor, Done(t),
         secrets' \in Nat, secrets <= secrets', UNCHANGED <<account, proven, overlapped>>,
         \A c \in used' : c.secret <= secrets',
         ~ overlapped /\ (totp = seen[t].record \/ Gone) /\ Checked
           => CodesAreExact' /\ EnabledIsProven'
  PROVE  FactorInv'
<1> USE DEF IInv, TypeOK, Done
<1>1. CodesDrawn'
  BY DEF FactorInv, CodesDrawn, NoCall, NoCode, Code
<1>2. ASSUME ~ overlapped
      PROVE  AloneAndCurrent' /\ Checked'
  <2>1. \A s \in Threads : pc'[s] \notin TwoFactor
    BY <1>2 DEF FactorInv, AloneAndCurrent, TwoFactor
  <2>2. Checked'
    BY <1>2 DEF FactorInv, Checked
  <2> QED BY <2>1, <2>2 DEF AloneAndCurrent
<1>3. CodesAreExact' /\ EnabledIsProven'
  <2>1. CASE overlapped
    BY <2>1 DEF CodesAreExact, EnabledIsProven
  <2>2. CASE ~ overlapped
    BY <2>2 DEF FactorInv, AloneAndCurrent
  <2> QED BY <2>1, <2>2
<1> QED BY <1>1, <1>2, <1>3 DEF FactorInv

-----------------------------------------------------------------------------
\* A code that can be shown is of a secret that has been drawn.
LEMMA IssuedDrawn ==
  ASSUME IInv, NEW code \in Issued
  PROVE  code.secret \in 1 .. secrets
BY DEF IInv, TypeOK, Issued, BackupCodes

\* A set-up writes a secret of its own, with all its codes, and leaves it out of force.
LEMMA SetupFactor ==
  ASSUME IInv, FactorInv, NEW t \in Threads, SetupCommit(t)
  PROVE  FactorInv'
<1> USE DEF IInv, TypeOK, SetupCommit, history
<1>1. secrets' = secrets + 1 /\ secrets \in Nat
  OBVIOUS
<1>2. \A c \in used' : c.secret <= secrets'
  BY <1>1 DEF FactorInv, CodesDrawn, Code
<1>3. ASSUME ~ overlapped, totp = seen[t].record \/ Gone, Checked
      PROVE  CodesAreExact' /\ EnabledIsProven'
  <2>1. CASE account.live /\ totp.exists = seen[t].record.exists
    <3>1. totp' = [totp EXCEPT !.exists = TRUE, !.secret = secrets + 1,
                               !.codes = BackupCodes(secrets + 1)]
      BY <2>1
    <3>2. totp'.secret = secrets + 1 /\ totp'.codes = BackupCodes(secrets + 1)
      BY <3>1 DEF Record
    <3>3. totp'.enabled = totp.enabled /\ ~ totp.enabled
      BY <1>3, <2>1, <3>1 DEF Record, Checked, Gone
    <3>4. BackupCodes(secrets + 1) \cap used = {}
      BY <1>1 DEF BackupCodes, FactorInv, CodesDrawn
    <3> QED BY <3>2, <3>3, <3>4 DEF CodesAreExact, EnabledIsProven, BackupCodes
  <2>2. CASE ~ (account.live /\ totp.exists = seen[t].record.exists)
    BY <2>2 DEF FactorInv, CodesAreExact, EnabledIsProven
  <2> QED BY <2>1, <2>2
<1> QED BY <1>1, <1>2, <1>3, CommitFactor DEF TwoFactor

\* A verification puts in force the secret it was shown a code of.
LEMMA VerifyFactor ==
  ASSUME IInv, FactorInv, NEW t \in Threads, VerifyCommit(t)
  PROVE  FactorInv'
<1> USE DEF IInv, TypeOK, VerifyCommit, history
<1>1. ASSUME ~ overlapped, totp = seen[t].record \/ Gone, Checked
      PROVE  CodesAreExact' /\ EnabledIsProven'
  <2>1. totp'.exists = totp.exists /\ totp'.secret = totp.secret /\ totp'.codes = totp.codes
    BY DEF Record
  <2>2. totp'.enabled => totp.enabled \/ (totp.exists /\ totp = seen[t].record)
    BY <1>1 DEF Record, Gone, NoRecord
  <2> QED BY <1>1, <2>1, <2>2 DEF FactorInv, CodesAreExact, EnabledIsProven, Checked
<1> QED BY <1>1, CommitFactor DEF TwoFactor, FactorInv, CodesDrawn

\* Taking it out of force proves nothing and changes no code.
LEMMA DisableFactor ==
  ASSUME IInv, FactorInv, NEW t \in Threads, DisableCommit(t)
  PROVE  FactorInv'
<1> USE DEF IInv, TypeOK, DisableCommit, history
<1>1. /\ totp'.exists = totp.exists /\ totp'.secret = totp.secret
      /\ totp'.codes = totp.codes /\ ~ totp'.enabled
  BY DEF Record
<1>2. CodesAreExact' /\ EnabledIsProven'
  BY <1>1 DEF FactorInv, CodesAreExact, EnabledIsProven
<1> QED BY <1>2, CommitFactor DEF TwoFactor, FactorInv, CodesDrawn

\* A backup code that signs somebody in leaves the list as it becomes a used one.
LEMMA AuthenticateFactor ==
  ASSUME IInv, FactorInv, NEW t \in Threads, AuthenticateCommit(t)
  PROVE  FactorInv'
<1> USE DEF IInv, TypeOK, AuthenticateCommit
<1>1. \A c \in used' : c.secret <= secrets'
  BY DEF FactorInv, CodesDrawn
<1>2. ASSUME ~ overlapped, totp = seen[t].record \/ Gone, Checked
      PROVE  CodesAreExact' /\ EnabledIsProven'
  <2>1. CASE totp.exists /\ call[t].code.n # 0
    <3>1. totp = seen[t].record
      BY <1>2, <2>1 DEF Gone, NoRecord
    <3>2. totp' = [totp EXCEPT !.codes = totp.codes \ {call[t].code}]
      BY <2>1, <3>1 DEF CodesLeft
    <3>3. /\ totp'.secret = totp.secret /\ totp'.enabled = totp.enabled
          /\ totp'.codes = totp.codes \ {call[t].code}
      BY <3>2 DEF Record
    <3>4. used' = used \cup {call[t].code}
      BY <2>1
    <3> QED BY <1>2, <2>1, <3>3, <3>4 DEF FactorInv, CodesAreExact, EnabledIsProven, BackupCodes
  <2>2. CASE ~ (totp.exists /\ call[t].code.n # 0)
    BY <2>2 DEF FactorInv, CodesAreExact, EnabledIsProven
  <2> QED BY <2>1, <2>2
<1> QED BY <1>1, <1>2, CommitFactor DEF TwoFactor

\* The record goes with the account, whoever is at it.
LEMMA CloseFactor ==
  ASSUME IInv, FactorInv, NEW t \in Threads, CloseCommit(t)
  PROVE  FactorInv'
<1> USE DEF IInv, TypeOK, CloseCommit, history, Done
<1>1. CodesDrawn'
  BY DEF FactorInv, CodesDrawn, NoCall, NoCode
<1>2. Gone'
  BY DEF Gone, NoRecord
<1>3. ~ overlapped => AloneAndCurrent'
  BY <1>2 DEF FactorInv, AloneAndCurrent, TwoFactor
<1>4. ~ overlapped => Checked'
  BY DEF FactorInv, Checked
<1>5. CodesAreExact' /\ EnabledIsProven'
  BY DEF CodesAreExact, EnabledIsProven, NoRecord
<1> QED BY <1>1, <1>3, <1>4, <1>5 DEF FactorInv

\* Every step of a request keeps the invariant.
LEMMA StepFactor ==
  ASSUME IInv, FactorInv, NEW t \in Threads, Step(t)
  PROVE  FactorInv'
<1> USE DEF Handlers, TwoFactor
<1>0. secrets \in Nat /\ 0 <= secrets
  BY DEF IInv, TypeOK
<1>a. ASSUME NEW token, NEW p
      PROVE  /\ NoCall.code.secret = 0 /\ Presenting(token).code.secret = 0
             /\ [Presenting(token) EXCEPT !.password = p].code.secret = 0
  BY DEF NoCall, Presenting, NoCode
<1>b. ASSUME NEW token, NEW code \in Issued
      PROVE  /\ [Presenting(token) EXCEPT !.code = code].code = code
             /\ code.secret <= secrets
  BY <1>0, IssuedDrawn DEF NoCall, Presenting
<1>1. CASE Login(t)
  BY <1>1, <1>0, <1>a, BeginFactor DEF Login
<1>2. CASE LoginAnswer(t)
  BY <1>2, DoneFactor DEF LoginAnswer, history
<1>3. CASE Reset(t)
  <2>1. PICK token \in tokens, p \in Passwords :
          Begin(t, "reset", [Presenting(token) EXCEPT !.password = p])
    BY <1>3 DEF Reset
  <2>2. UNCHANGED <<account, totp, tokens, secrets, used, proven>>
    BY <1>3 DEF Reset
  <2> QED BY <2>1, <2>2, <1>0, <1>a, BeginFactor
<1>4. CASE ResetCommit(t)
  <2>1. account'.live = account.live
    BY <1>4 DEF ResetCommit, IInv, TypeOK
  <2> QED BY <1>4, <2>1, DoneFactor DEF ResetCommit, history
<1>5. CASE Close(t)
  <2>1. PICK token \in tokens : Begin(t, "close", Presenting(token))
    BY <1>5 DEF Close
  <2>2. UNCHANGED <<account, totp, tokens, secrets, used, proven>>
    BY <1>5 DEF Close
  <2> QED BY <2>1, <2>2, <1>0, <1>a, BeginFactor
<1>6. CASE CloseCommit(t)
  BY <1>6, CloseFactor
<1>7. CASE Setup(t)
  <2>1. PICK token \in tokens : Begin(t, "setup", Presenting(token))
    BY <1>7 DEF Setup
  <2>2. UNCHANGED <<account, totp, tokens, secrets, used, proven>> /\ ~ totp.enabled
    BY <1>7 DEF Setup
  <2> QED BY <2>1, <2>2, <1>0, <1>a, BeginFactor
<1>8. CASE SetupCommit(t)
  BY <1>8, SetupFactor
<1>9. CASE Verify(t)
  <2>1. PICK token \in tokens, code \in Issued :
          /\ Verifies(code)
          /\ Begin(t, "verify", [Presenting(token) EXCEPT !.code = code])
          /\ proven' = proven \cup {code.secret}
    BY <1>9 DEF Verify
  <2>2. UNCHANGED <<account, totp, tokens, secrets, used>>
    BY <1>9 DEF Verify
  <2>3. totp.secret = code.secret
    BY <2>1 DEF Verifies
  <2>4. proven \subseteq proven' /\ code.secret \in proven'
    BY <2>1
  <2> DEFINE q == [Presenting(token) EXCEPT !.code = code]
  <2>5. Begin(t, "verify", q) /\ q.code.secret <= secrets
    BY <2>1, <1>b
  <2>6. totp.secret = q.code.secret /\ q.code.secret \in proven'
    BY <2>3, <2>4, <1>b
  <2> HIDE DEF q
  <2> QED BY <2>2, <2>4, <2>5, <2>6, BeginFactor
<1>10. CASE VerifyCommit(t)
  BY <1>10, VerifyFactor
<1>11. CASE Disable(t)
  <2>1. PICK token \in tokens, code \in Issued :
          Begin(t, "disable", [Presenting(token) EXCEPT !.code = code])
    BY <1>11 DEF Disable
  <2>2. UNCHANGED <<account, totp, tokens, secrets, used, proven>>
    BY <1>11 DEF Disable
  <2> QED BY <2>1, <2>2, <1>b, BeginFactor
<1>12. CASE DisableCommit(t)
  BY <1>12, DisableFactor
<1>13. CASE Authenticate(t)
  <2>1. PICK token \in tokens, code \in Issued :
          Begin(t, "authenticate", [Presenting(token) EXCEPT !.code = code])
    BY <1>13 DEF Authenticate
  <2>2. UNCHANGED <<account, totp, tokens, secrets, used, proven>>
    BY <1>13 DEF Authenticate
  <2> QED BY <2>1, <2>2, <1>b, BeginFactor
<1>14. CASE AuthenticateCommit(t)
  BY <1>14, AuthenticateFactor
<1> QED BY <1>1, <1>2, <1>3, <1>4, <1>5, <1>6, <1>7, <1>8, <1>9, <1>10, <1>11, <1>12,
           <1>13, <1>14 DEF Step

\* And so does every other.
LEMMA NextFactor ==
  ASSUME IInv, FactorInv, [Next]_vars
  PROVE  FactorInv'
<1> USE DEF FactorInv, CodesDrawn, AloneAndCurrent, Checked, Gone, CodesAreExact,
            EnabledIsProven
<1>1. CASE ForgotPassword
  BY <1>1 DEF ForgotPassword, threads, history
<1>2. CASE Restart
  BY <1>2 DEF Restart, history, NoCall, NoCode, IInv, TypeOK, TwoFactor
<1>3. CASE \E t \in Threads : Step(t)
  BY <1>3, StepFactor
<1>4. CASE UNCHANGED vars
  BY <1>4 DEF vars, threads, history
<1> QED BY <1>1, <1>2, <1>3, <1>4 DEF Next

\* While no two requests about the second factor overlap, the backup codes kept are
\* those handed out with the secret in use less those that have been used: none is
\* lost and none works twice (routers/auth.py:226-248).
THEOREM CodesStayExact == Spec => []CodesAreExact
<1>1. IInv /\ FactorInv /\ [Next]_vars => (IInv /\ FactorInv)'
  BY NextIInv, NextFactor
<1>2. FactorInv => CodesAreExact
  BY DEF FactorInv
<1> QED BY <1>1, <1>2, InitIInv, InitFactor, PTL DEF Spec

\* While no two requests about it overlap, a second factor is in force only under a
\* secret the member has shown a code of, whatever set-ups, deletions of the account
\* and restarts come between (routers/auth.py:177-207).
THEOREM EnabledStaysProven == Spec => []EnabledIsProven
<1>1. IInv /\ FactorInv /\ [Next]_vars => (IInv /\ FactorInv)'
  BY NextIInv, NextFactor
<1>2. FactorInv => EnabledIsProven
  BY DEF FactorInv
<1> QED BY <1>1, <1>2, InitIInv, InitFactor, PTL DEF Spec
=============================================================================
