------------------------------ MODULE PhoneProofs ------------------------------
(***************************************************************************)
(* What the phone pays and when it forgets, for any number of calls,       *)
(* purchases and sessions.  A key names one purchase wherever it is: in    *)
(* the form, on the way, late or paid.  A session refused is one the       *)
(* backend will not accept again, for it issues each but once.             *)
(***************************************************************************)
EXTENDS Phone, WellFoundedInduction, TLAPS

IsPaid(for) == \E p \in paid : p.for = for

\* What holds of a call in flight: it has no answer before it is answered; its session has
\* been issued, and not refused unless ended; if it pays, its key is its purchase's, and
\* an answer about the purchase is true.
Sound(c) ==
  /\ c.stage \in {"waking", "sent"} => c.answer = "lost"
  /\ c.token <= issued
  /\ c.kind # "login" /\ c.answer = "unauthorized" => c.token \notin accepted
  /\ c.kind = "login" /\ c.answer = "ok" => issued # 0
  /\ c.kind = "buy" => /\ c.key = c.for
                       /\ c.answer \in {"ok", "refused"} => IsPaid(c.for)

CallsSound == \A i \in Slots : calls[i] # NoCall => Sound(calls[i])

\* A key names one purchase.
OneKeyEach ==
  /\ form.key = form.for
  /\ \A p \in paid \cup delayed : p.key = p.for
  /\ \A p, q \in paid : p.key = q.key => p = q

ResultsPaid == form.result # 0 => IsPaid(form.result)

IInv == TypeOK /\ token <= issued /\ CallsSound /\ OneKeyEach /\ ResultsPaid

-----------------------------------------------------------------------------
\* There is no call where there is none.
LEMMA NoCallIsNone == NoCall \notin Call /\ \A k \in Kinds : NoCall.kind # k
BY DEF NoCall, Call, Kinds

\* The invariant holds of an app opened for the first time.
LEMMA InitIInv == Init => IInv
<1> SUFFICES ASSUME Init PROVE IInv
  OBVIOUS
<1>1. TypeOK
  <2>1. form \in [for : Nat, key : Nat, busy : BOOLEAN, result : Nat]
    BY DEF Init
  <2>2. wake \in [quiet : BOOLEAN, pinging : BOOLEAN]
    BY DEF Init
  <2> QED BY <2>1, <2>2 DEF Init, TypeOK, NoToken
<1>2. CallsSound
  BY DEF Init, CallsSound
<1>3. OneKeyEach /\ ResultsPaid /\ token <= issued
  BY DEF Init, OneKeyEach, ResultsPaid, NoToken
<1> QED BY <1>1, <1>2, <1>3 DEF IInv

\* Parts of the state that the types give.
LEMMA Typed ==
  ASSUME IInv
  PROVE  /\ token \in Nat /\ issued \in Nat /\ accepted \subseteq 1..issued
         /\ \A i \in Slots : calls[i] # NoCall => calls[i] \in Call /\ Sound(calls[i])
         /\ form \in [for : Nat, key : Nat, busy : BOOLEAN, result : Nat]
BY DEF IInv, TypeOK, CallsSound

\* What is sound stays sound: payments are not taken back, and a session is issued once.
LEMMA StaysSound ==
  ASSUME IInv, NEW c \in Call, Sound(c), issued' \in Nat, issued <= issued',
         accepted' \subseteq accepted \cup (issued + 1 .. issued'), paid \subseteq paid'
  PROVE  Sound(c)'
<1>1. issued \in Nat /\ c.token \in Nat /\ c.token <= issued
  BY Typed DEF Call, Sound
<1>2. c.token <= issued' /\ (c.token \notin accepted => c.token \notin accepted')
  BY <1>1
<1>3. IsPaid(c.for) => IsPaid(c.for)'
  BY DEF IsPaid
<1> QED BY <1>1, <1>2, <1>3 DEF Sound

\* An answer changes the answered call alone.
LEMMA AnsweredOne ==
  ASSUME IInv, NEW i \in Slots, calls[i] # NoCall, NEW answer \in Answers, Answered(i, answer)
  PROVE  /\ \A j \in Slots : j # i => calls'[j] = calls[j]
         /\ calls'[i] \in Call /\ calls' \in [Slots -> Call \cup {NoCall}]
         /\ calls'[i].kind = calls[i].kind /\ calls'[i].answer = answer
         /\ calls'[i].stage = "answered"
         /\ calls'[i].key = calls[i].key /\ calls'[i].for = calls[i].for
         /\ calls'[i].token = IF answer = "unauthorized" THEN calls[i].token ELSE NoToken
<1>1. calls[i] \in Call /\ calls \in [Slots -> Call \cup {NoCall}]
  BY Typed DEF IInv, TypeOK
<1>2. calls' = [calls EXCEPT ![i] =
         [calls[i] EXCEPT !.stage = "answered", !.answer = answer,
            !.token = IF answer = "unauthorized" THEN calls[i].token ELSE NoToken]]
  BY <1>1 DEF Answered
<1>3. calls'[i] = [calls[i] EXCEPT !.stage = "answered", !.answer = answer,
            !.token = IF answer = "unauthorized" THEN calls[i].token ELSE NoToken]
  BY <1>1, <1>2
<1>4. calls'[i] \in Call
  <2>1. ASSUME NEW c \in Call, NEW t \in Nat
        PROVE  [c EXCEPT !.stage = "answered", !.answer = answer, !.token = t] \in Call
    BY DEF Call
  <2> DEFINE t == IF answer = "unauthorized" THEN calls[i].token ELSE NoToken
  <2>2. t \in Nat
    BY <1>1 DEF Call, NoToken
  <2>3. calls'[i] = [calls[i] EXCEPT !.stage = "answered", !.answer = answer, !.token = t]
    BY <1>3
  <2> HIDE DEF t
  <2> QED BY <1>1, <2>1, <2>2, <2>3
<1> QED BY <1>1, <1>2, <1>3, <1>4 DEF Call

\* A step of the backend, or of the network, keeps the invariant if it keeps what the
\* answered call says true.
LEMMA AnsweredKeeps ==
  ASSUME IInv, NEW i \in Slots, calls[i] # NoCall, NEW answer \in Answers,
         Answered(i, answer), UNCHANGED <<session, spinning, form, wake>>,
         issued' \in Nat, issued <= issued', accepted' \subseteq 1..issued',
         accepted' \subseteq accepted \cup (issued + 1 .. issued'), paid \subseteq paid',
         calls[i].kind # "login" /\ answer = "unauthorized" => calls[i].token \notin accepted',
         calls[i].kind = "login" /\ answer = "ok" => issued' # 0,
         calls[i].kind = "buy" /\ answer \in {"ok", "refused"}
           => \E p \in paid' : p.for = calls[i].for,
         paid' \subseteq [key : Nat, for : Nat], delayed' \subseteq [key : Nat, for : Nat],
         \A p \in paid' \cup delayed' : p.key = p.for,
         \A p, q \in paid' : p.key = q.key => p = q
  PROVE  IInv'
<1> DEFINE c == calls[i]
<1>1. /\ c \in Call /\ Sound(c) /\ c.token <= issued /\ c.token \in Nat
      /\ token \in Nat /\ issued \in Nat
  BY Typed DEF Sound, Call
<1>2. /\ \A j \in Slots : j # i => calls'[j] = calls[j]
      /\ calls'[i] \in Call /\ calls' \in [Slots -> Call \cup {NoCall}]
      /\ calls'[i].kind = c.kind /\ calls'[i].answer = answer
      /\ calls'[i].stage = "answered"
      /\ calls'[i].key = c.key /\ calls'[i].for = c.for
      /\ calls'[i].token = IF answer = "unauthorized" THEN c.token ELSE NoToken
  BY AnsweredOne
<1>3. TypeOK'
  BY <1>2 DEF IInv, TypeOK, session
<1>4. token' <= issued'
  BY <1>1 DEF IInv, session
<1>5. Sound(calls[i])'
  <2>1. calls'[i].token <= issued'
    BY <1>1, <1>2 DEF NoToken
  <2>2. c.kind = "buy" => c.key = c.for
    BY <1>1 DEF Sound
  <2>3. ASSUME c.kind = "buy", answer \in {"ok", "refused"}
        PROVE  IsPaid(calls[i].for)'
    BY <1>2, <2>3 DEF IsPaid
  <2> QED BY <1>1, <1>2, <2>1, <2>2, <2>3 DEF Sound
<1>6. ASSUME NEW j \in Slots, j # i, calls'[j] # NoCall
      PROVE  Sound(calls[j])'
  <2>1. PICK d : d = calls[j]
    OBVIOUS
  <2>2. d \in Call /\ Sound(d)
    BY <1>2, <1>6, <2>1, Typed
  <2>3. Sound(d)'
    BY <2>2, StaysSound
  <2> QED BY <1>2, <1>6, <2>1, <2>3 DEF Sound, IsPaid
<1>7. OneKeyEach' /\ ResultsPaid'
  BY DEF IInv, OneKeyEach, ResultsPaid, IsPaid
<1> QED BY <1>3, <1>4, <1>5, <1>6, <1>7 DEF IInv, CallsSound

-----------------------------------------------------------------------------
\* The backend answers.
LEMMA ServeIInv ==
  ASSUME IInv, NEW i \in Slots, Serve(i)
  PROVE  IInv'
<1> DEFINE c == calls[i]
           p == [key |-> c.key, for |-> c.for]
<1>1. /\ c # NoCall /\ c \in Call /\ Sound(c) /\ c.token \in Nat
      /\ issued \in Nat /\ accepted \subseteq 1..issued
  BY Typed DEF Serve, Call
<1>2. /\ paid \subseteq [key : Nat, for : Nat] /\ delayed \subseteq [key : Nat, for : Nat]
      /\ \A q \in paid \cup delayed : q.key = q.for
      /\ \A q, r \in paid : q.key = r.key => q = r
  BY DEF IInv, TypeOK, OneKeyEach
<1>3. UNCHANGED <<session, spinning, form, wake>>
  BY DEF Serve
<1>4. ASSUME UNCHANGED <<accepted, issued>>
      PROVE  /\ issued' \in Nat /\ issued <= issued' /\ accepted' \subseteq 1..issued'
             /\ accepted' \subseteq accepted \cup (issued + 1 .. issued')
  BY <1>1, <1>4
<1>5. ASSUME UNCHANGED <<paid, delayed>>
      PROVE  /\ paid \subseteq paid' /\ paid' \subseteq [key : Nat, for : Nat]
             /\ delayed' \subseteq [key : Nat, for : Nat]
             /\ \A q \in paid' \cup delayed' : q.key = q.for
             /\ \A q, r \in paid' : q.key = r.key => q = r
  BY <1>2, <1>5
<1>6. CASE c.kind = "login" /\ ServeLogin(i) /\ UNCHANGED <<paid, delayed>>
  <2>1. CASE /\ issued' = issued + 1 /\ accepted' = accepted \cup {issued'}
             /\ Answered(i, "ok")
    <3>1. /\ issued' \in Nat /\ issued <= issued' /\ issued' # 0
          /\ accepted' \subseteq 1..issued'
          /\ accepted' \subseteq accepted \cup (issued + 1 .. issued')
      BY <1>1, <2>1
    <3>2. "ok" \in Answers
      BY DEF Answers
    <3> QED BY <1>1, <1>3, <1>5, <1>6, <2>1, <3>1, <3>2, AnsweredKeeps
  <2>2. CASE Answered(i, "unauthorized") /\ UNCHANGED <<accepted, issued>>
    <3>1. "unauthorized" \in Answers
      BY DEF Answers
    <3> QED BY <1>1, <1>3, <1>4, <1>5, <1>6, <2>2, <3>1, AnsweredKeeps
  <2> QED BY <1>6, <2>1, <2>2 DEF ServeLogin
<1>7. CASE /\ c.kind # "login" /\ c.token \notin accepted
           /\ Answered(i, "unauthorized")
           /\ UNCHANGED <<accepted, issued, paid, delayed>>
  <2>1. "unauthorized" \in Answers /\ calls[i].token \notin accepted'
    BY <1>7 DEF Answers
  <2> QED BY <1>1, <1>3, <1>4, <1>5, <1>7, <2>1, AnsweredKeeps
<1>8. CASE /\ c.kind = "buy" /\ c.token \in accepted
           /\ Pay(p) /\ delayed' = {q \in delayed : q.key # p.key}
           /\ Answered(i, IF Paid(p) THEN "refused" ELSE "ok")
           /\ UNCHANGED <<accepted, issued>>
  <2>1. c.key = c.for /\ p \in [key : Nat, for : Nat] /\ p.key = p.for /\ p.for = c.for
    BY <1>1, <1>8 DEF Sound, Call
  <2>2. paid' = IF Paid(p) THEN paid ELSE paid \cup {p}
    BY <1>8 DEF Pay
  <2>3. \E q \in paid' : q.for = c.for
    BY <1>2, <2>1, <2>2 DEF Paid
  <2>4. PICK answer \in {"ok", "refused"} : Answered(i, answer)
    BY <1>8
  <2>5. /\ paid \subseteq paid' /\ paid' \subseteq [key : Nat, for : Nat]
        /\ delayed' \subseteq [key : Nat, for : Nat]
        /\ \A q \in paid' \cup delayed' : q.key = q.for
    BY <1>2, <1>8, <2>1, <2>2
  <2>6. \A q, r \in paid' : q.key = r.key => q = r
    BY <1>2, <2>1, <2>2 DEF Paid
  <2>7. answer \in Answers /\ answer # "unauthorized"
    BY DEF Answers
  <2> HIDE DEF p
  <2> QED BY <1>1, <1>3, <1>4, <1>8, <2>3, <2>4, <2>5, <2>6, <2>7, AnsweredKeeps
<1>9. CASE /\ c.kind \in {"me", "load"} /\ c.token \in accepted
           /\ \E answer \in {"ok", "refused"} : Answered(i, answer)
           /\ UNCHANGED <<accepted, issued, paid, delayed>>
  <2>1. PICK answer \in {"ok", "refused"} : Answered(i, answer)
    BY <1>9
  <2>2. answer \in Answers /\ answer # "unauthorized"
    BY DEF Answers
  <2> QED BY <1>1, <1>3, <1>4, <1>5, <1>9, <2>1, <2>2, AnsweredKeeps
<1> QED BY <1>6, <1>7, <1>8, <1>9 DEF Serve

\* The answer, or the request, is lost.
LEMMA LoseIInv ==
  ASSUME IInv, NEW i \in Slots, Lose(i)
  PROVE  IInv'
<1>1. /\ calls[i] # NoCall /\ calls[i] \in Call /\ Sound(calls[i])
      /\ issued \in Nat /\ accepted \subseteq 1..issued
  BY Typed DEF Lose
<1>2. /\ UNCHANGED <<session, spinning, form, wake>> /\ UNCHANGED <<accepted, issued, paid>>
      /\ Answered(i, "lost") /\ "lost" \in Answers
  BY DEF Lose, Answers
<1>3. /\ paid' \subseteq [key : Nat, for : Nat] /\ delayed \subseteq [key : Nat, for : Nat]
      /\ \A q \in paid' \cup delayed : q.key = q.for
      /\ \A q, r \in paid' : q.key = r.key => q = r
  BY <1>2 DEF IInv, TypeOK, OneKeyEach
<1>4. \A q \in delayed' : q \in [key : Nat, for : Nat] /\ q.key = q.for
  <2>1. CASE UNCHANGED delayed
    BY <1>3, <2>1
  <2>2. CASE /\ calls[i].kind = "buy"
             /\ delayed' = delayed
                  \cup Outstanding({[key |-> calls[i].key, for |-> calls[i].for]})
    <3>1. calls[i].key \in Nat /\ calls[i].for \in Nat /\ calls[i].key = calls[i].for
      BY <1>1, <2>2 DEF Sound, Call
    <3> QED BY <1>3, <2>2, <3>1 DEF Outstanding
  <2> QED BY <2>1, <2>2 DEF Lose
<1>5. /\ issued' \in Nat /\ issued <= issued' /\ accepted' \subseteq 1..issued'
      /\ accepted' \subseteq accepted \cup (issued + 1 .. issued') /\ paid \subseteq paid'
  BY <1>1, <1>2
<1>6. delayed' \subseteq [key : Nat, for : Nat] /\ \A q \in paid' \cup delayed' : q.key = q.for
  BY <1>3, <1>4
<1> QED BY <1>1, <1>2, <1>3, <1>5, <1>6, AnsweredKeeps

-----------------------------------------------------------------------------
(* The phone. *)

\* A step of the phone keeps the invariant if the calls it leaves are sound, and the
\* form's key its purchase's.
LEMMA PhoneKeeps ==
  ASSUME IInv, UNCHANGED <<accepted, issued, paid>>,
         calls' = [i \in Slots |-> calls'[i]],
         \A i \in Slots : calls'[i] = NoCall \/ \E c \in Call : calls'[i] = c /\ Sound(c),
         {user', loading', entering', leaving', spinning'} \subseteq BOOLEAN,
         token' \in Nat, token' <= issued,
         form' \in [for : Nat, key : Nat, busy : BOOLEAN, result : Nat],
         form'.key = form'.for, form'.result # 0 => IsPaid(form'.result),
         wake' \in [quiet : BOOLEAN, pinging : BOOLEAN],
         delayed' \subseteq [key : Nat, for : Nat], \A p \in delayed' : p.key = p.for
  PROVE  IInv'
<1>1. issued \in Nat /\ accepted \subseteq 1..issued
  BY Typed
<1>2. \A i \in Slots : calls'[i] \in Call \cup {NoCall}
  OBVIOUS
<1>3. calls' \in [Slots -> Call \cup {NoCall}]
  BY <1>2
<1>4. TypeOK'
  BY <1>3 DEF IInv, TypeOK
<1>5. ASSUME NEW i \in Slots, calls'[i] # NoCall
      PROVE  Sound(calls[i])'
  <2>1. PICK c \in Call : calls'[i] = c /\ Sound(c)
    BY <1>5
  <2>2. Sound(c)'
    BY <1>1, <2>1, StaysSound
  <2> QED BY <2>1, <2>2 DEF Sound, IsPaid
<1>6. OneKeyEach' /\ ResultsPaid'
  BY DEF IInv, OneKeyEach, ResultsPaid, IsPaid
<1> QED BY <1>4, <1>5, <1>6 DEF IInv, CallsSound

\* What the phone has is typed and sound to begin with.
LEMMA PhoneTyped ==
  ASSUME IInv
  PROVE  /\ calls = [i \in Slots |-> calls[i]]
         /\ \A i \in Slots : calls[i] = NoCall \/ \E c \in Call : calls[i] = c /\ Sound(c)
         /\ {user, loading, entering, leaving, spinning} \subseteq BOOLEAN
         /\ token \in Nat /\ token <= issued /\ issued \in Nat
         /\ form \in [for : Nat, key : Nat, busy : BOOLEAN, result : Nat]
         /\ form.key = form.for /\ (form.result # 0 => IsPaid(form.result))
         /\ wake \in [quiet : BOOLEAN, pinging : BOOLEAN]
         /\ delayed \subseteq [key : Nat, for : Nat] /\ \A p \in delayed : p.key = p.for
BY Typed DEF IInv, TypeOK, OneKeyEach, ResultsPaid

\* The first free slot is there if any is.
LEMMA FreeHasFirst ==
  ASSUME Free # {}
  PROVE  \E f \in Free : \A k \in Free : f <= k
<1>1. Free \subseteq Nat /\ Free # {}
  BY PhoneAssumption DEF Free, Slots
<1>2. PICK f \in Free : \A k \in Free : <<k, f>> \notin OpToRel(<, Nat)
  BY <1>1, NatLessThanWellFounded, WFMin, Zenon
<1>3. \A k \in Free : ~ (k < f)
  BY <1>1, <1>2 DEF OpToRel
<1> QED BY <1>1, <1>3

\* A new call carries the key of the form, or none.
LEMMA RequestSound ==
  ASSUME IInv, NEW kind \in Kinds, Request(kind)
  PROVE  /\ calls' = [i \in Slots |-> calls'[i]]
         /\ \A i \in Slots : calls'[i] = NoCall \/ \E c \in Call : calls'[i] = c /\ Sound(c)
         /\ wake' \in [quiet : BOOLEAN, pinging : BOOLEAN]
<1>1. PICK c : \E i \in Slots :
        /\ calls' = [calls EXCEPT ![i] = c]
        /\ c = [kind |-> kind, stage |-> IF wake.quiet THEN "waking" ELSE "sent",
                token |-> IF wake.quiet THEN NoToken ELSE token,
                key |-> IF kind = "buy" THEN form.key ELSE 0,
                for |-> IF kind = "buy" THEN form.for ELSE 0,
                answer |-> "lost", mounted |-> TRUE]
  <2> DEFINE i == CHOOSE j \in Free : \A k \in Free : j <= k
  <2>1. PICK f \in Free : \A k \in Free : f <= k
    BY FreeHasFirst DEF Request
  <2>2. i \in Slots
    BY <2>1 DEF Free
  <2> QED BY <2>2 DEF Request
<1>2. c.token \in {NoToken, token} /\ c.key \in {0, form.key} /\ c.for \in {0, form.for}
  BY <1>1
<1>3. c \in Call
  BY <1>1, PhoneTyped DEF Call, Answers, NoToken
<1>4. Sound(c)
  BY <1>1, PhoneTyped DEF Sound, NoToken
<1>5. wake' \in [quiet : BOOLEAN, pinging : BOOLEAN]
  BY PhoneTyped DEF Request
<1> QED BY <1>1, <1>3, <1>4, <1>5, PhoneTyped

\* The health check ends: the calls that waited take the token that is stored.
LEMMA PingEndsIInv ==
  ASSUME IInv, PingEnds
  PROVE  IInv'
<1>1. ASSUME NEW i \in Slots
      PROVE  calls'[i] = NoCall \/ \E c \in Call : calls'[i] = c /\ Sound(c)
  <2>1. CASE calls[i] # NoCall /\ calls[i].stage = "waking"
    <3>1. calls[i] \in Call /\ Sound(calls[i]) /\ token \in Nat /\ token <= issued
      BY <2>1, PhoneTyped
    <3>2. PICK c : c = [calls[i] EXCEPT !.stage = "sent", !.token = token]
      OBVIOUS
    <3>3. c \in Call /\ c.token = token /\ c.kind = calls[i].kind /\ c.key = calls[i].key
          /\ c.for = calls[i].for /\ c.answer = calls[i].answer
      BY <3>1, <3>2 DEF Call
    <3>4. Sound(c)
      BY <2>1, <3>1, <3>3 DEF Sound
    <3> QED BY <2>1, <3>2, <3>3, <3>4 DEF PingEnds
  <2>2. CASE ~ (calls[i] # NoCall /\ calls[i].stage = "waking")
    BY <2>2, PhoneTyped DEF PingEnds
  <2> QED BY <2>1, <2>2
<1>2. wake' \in [quiet : BOOLEAN, pinging : BOOLEAN]
  <2>1. PICK q \in BOOLEAN : wake' = [quiet |-> q, pinging |-> FALSE]
    BY DEF PingEnds
  <2> QED BY <2>1
<1>3. calls' = [i \in Slots |-> calls'[i]]
  <2>1. PICK f : calls' = [i \in Slots |-> f[i]]
    BY DEF PingEnds
  <2> QED BY <2>1
<1>4. UNCHANGED <<session, spinning, form, accepted, issued, paid, delayed>>
  BY DEF PingEnds, backend
<1>5. UNCHANGED <<token, user, loading, entering, leaving>>
  BY <1>4 DEF session
<1> QED BY <1>1, <1>2, <1>3, <1>4, <1>5, PhoneTyped, PhoneKeeps

\* Calls that are as they were, or gone, are sound.
LEMMA CallsKept ==
  ASSUME IInv, calls' = [i \in Slots |-> calls'[i]],
         \A i \in Slots : calls'[i] \in {NoCall, calls[i]},
         UNCHANGED <<accepted, issued, paid>>,
         {user', loading', entering', leaving', spinning'} \subseteq BOOLEAN,
         token' \in Nat, token' <= issued,
         form' \in [for : Nat, key : Nat, busy : BOOLEAN, result : Nat],
         form'.key = form'.for, form'.result # 0 => IsPaid(form'.result),
         wake' \in [quiet : BOOLEAN, pinging : BOOLEAN], UNCHANGED delayed
  PROVE  IInv'
BY PhoneTyped, PhoneKeeps

\* A call that ends leaves its place, and has said nothing false to the form.
LEMMA FinishIInv ==
  ASSUME IInv, NEW i \in Slots, Finish(i)
  PROVE  IInv'
<1> DEFINE c == calls[i]
<1>1. c # NoCall /\ c \in Call /\ Sound(c)
  BY Typed DEF Finish
<1>2. UNCHANGED <<accepted, issued, paid, delayed>> /\ calls' = [calls EXCEPT ![i] = NoCall]
  BY DEF Finish, backend
<1>3. calls' = [j \in Slots |-> calls'[j]] /\ \A j \in Slots : calls'[j] \in {NoCall, calls[j]}
  BY <1>2, PhoneTyped
<1>4. wake' \in [quiet : BOOLEAN, pinging : BOOLEAN]
  BY PhoneTyped DEF Finish
<1>5. c.mounted \in BOOLEAN /\ (user /\ c.stage # "cleared") \in BOOLEAN
  BY <1>1 DEF Call
<1>6. CASE c.mounted /\ c.kind = "login" /\ LoggedIn(c)
  <2>1. token' \in {issued, token} /\ entering' \in BOOLEAN
    BY <1>6 DEF LoggedIn
  <2>2. UNCHANGED <<user, loading, leaving, spinning, form>>
    BY <1>6 DEF LoggedIn
  <2> QED BY <1>2, <1>3, <1>4, <2>1, <2>2, PhoneTyped, CallsKept
<1>7. CASE c.mounted /\ c.kind = "me" /\ Refreshed(c)
  <2>1. user' \in BOOLEAN /\ loading' = FALSE /\ UNCHANGED <<token, entering, leaving, spinning, form>>
    BY <1>7 DEF Refreshed
  <2> QED BY <1>2, <1>3, <1>4, <2>1, PhoneTyped, CallsKept
<1>8. CASE c.mounted /\ c.kind = "load" /\ Loaded(c)
  <2>1. user' \in BOOLEAN /\ spinning' = FALSE /\ UNCHANGED <<token, loading, entering, leaving, form>>
    BY <1>5, <1>8 DEF Loaded, Told
  <2> QED BY <1>2, <1>3, <1>4, <2>1, PhoneTyped, CallsKept
<1>9. CASE c.mounted /\ c.kind = "buy" /\ Bought(c)
  <2>1. user' \in BOOLEAN /\ UNCHANGED <<token, loading, entering, leaving, spinning>>
    BY <1>5, <1>9 DEF Bought, Told
  <2>2. form' = [form EXCEPT !.busy = FALSE,
                             !.result = IF c.answer = "ok" THEN c.for ELSE form.result]
    BY <1>9, PhoneTyped DEF Bought
  <2>3. c.for \in Nat /\ (c.answer = "ok" => IsPaid(c.for))
    BY <1>1, <1>9 DEF Sound, Call
  <2>4. /\ form' \in [for : Nat, key : Nat, busy : BOOLEAN, result : Nat]
        /\ form'.key = form.key /\ form'.for = form.for
        /\ form'.result = IF c.answer = "ok" THEN c.for ELSE form.result
    <3> DEFINE n == IF c.answer = "ok" THEN c.for ELSE form.result
    <3>1. n \in Nat /\ form' = [form EXCEPT !.busy = FALSE, !.result = n]
      BY <2>2, <2>3, PhoneTyped
    <3> HIDE DEF n
    <3>2. /\ form' \in [for : Nat, key : Nat, busy : BOOLEAN, result : Nat]
          /\ form'.key = form.key /\ form'.for = form.for /\ form'.result = n
      BY <3>1, PhoneTyped
    <3> QED BY <3>2 DEF n
  <2>5. form'.result # 0 => IsPaid(form'.result)
    BY <2>3, <2>4, PhoneTyped
  <2> QED BY <1>2, <1>3, <1>4, <2>1, <2>4, <2>5, PhoneTyped, CallsKept
<1>10. CASE ~ c.mounted /\ Unheard(c)
  <2>1. user' \in BOOLEAN /\ UNCHANGED <<token, loading, entering, leaving, spinning, form>>
    BY <1>5, <1>10 DEF Unheard, Told
  <2> QED BY <1>2, <1>3, <1>4, <2>1, PhoneTyped, CallsKept
<1> QED BY <1>6, <1>7, <1>8, <1>9, <1>10 DEF Finish

\* A refused session's token is cleared, the call waits for the screen to hear.
LEMMA ClearTokenIInv ==
  ASSUME IInv, NEW i \in Slots, ClearToken(i)
  PROVE  IInv'
<1>1. calls[i] \in Call /\ Sound(calls[i])
  BY Typed DEF ClearToken
<1>2. PICK d : d = [calls[i] EXCEPT !.stage = "cleared"]
  OBVIOUS
<1>3. d \in Call /\ Sound(d)
  BY <1>1, <1>2 DEF Call, Sound
<1>4. calls' = [calls EXCEPT ![i] = d]
  BY <1>2, PhoneTyped DEF ClearToken
<1>5. /\ calls' = [j \in Slots |-> calls'[j]]
      /\ \A j \in Slots : calls'[j] = NoCall \/ \E c \in Call : calls'[j] = c /\ Sound(c)
  BY <1>3, <1>4, PhoneTyped
<1>6. /\ token' \in Nat /\ token' <= issued
      /\ UNCHANGED <<user, loading, entering, leaving, spinning, form, wake>>
      /\ UNCHANGED <<accepted, issued, paid, delayed>>
  BY PhoneTyped DEF ClearToken, NoToken, backend
<1> QED BY <1>5, <1>6, PhoneTyped, PhoneKeeps

-----------------------------------------------------------------------------
\* The next purchase has the next key.
LEMMA NewPurchaseOwn ==
  ASSUME IInv
  PROVE  /\ NewPurchase \in [for : Nat, key : Nat, busy : BOOLEAN, result : Nat]
         /\ NewPurchase.key = NewPurchase.for /\ NewPurchase.result = form.result
         /\ [NewPurchase EXCEPT !.result = 0]
              \in [for : Nat, key : Nat, busy : BOOLEAN, result : Nat]
         /\ [NewPurchase EXCEPT !.result = 0].key = [NewPurchase EXCEPT !.result = 0].for
         /\ [NewPurchase EXCEPT !.result = 0].result = 0
         /\ [NewPurchase EXCEPT !.busy = FALSE, !.result = 0]
              \in [for : Nat, key : Nat, busy : BOOLEAN, result : Nat]
         /\ [NewPurchase EXCEPT !.busy = FALSE, !.result = 0].key
              = [NewPurchase EXCEPT !.busy = FALSE, !.result = 0].for
         /\ [NewPurchase EXCEPT !.busy = FALSE, !.result = 0].result = 0
<1>1. form \in [for : Nat, key : Nat, busy : BOOLEAN, result : Nat] /\ form.key = form.for
  BY PhoneTyped
<1>2. /\ NewPurchase \in [for : Nat, key : Nat, busy : BOOLEAN, result : Nat]
      /\ NewPurchase.key = NewPurchase.for /\ NewPurchase.result = form.result
  <2>1. form.for + 1 \in Nat /\ form.key + 1 \in Nat
    BY <1>1
  <2>2. PICK n \in Nat : n = form.for + 1 /\ n = form.key + 1
    BY <1>1, <2>1
  <2>3. NewPurchase = [form EXCEPT !.for = n, !.key = n]
    BY <1>1, <2>2 DEF NewPurchase
  <2> QED BY <1>1, <2>3
<1> QED BY <1>2

\* What the user does sends the key of the purchase meant.
LEMMA UserIInv ==
  ASSUME IInv, Login \/ Enter \/ SignOut \/ SignedOff \/ Focus \/ Edit \/ Submit \/ Done
  PROVE  IInv'
<1> USE DEF session, backend
<1>1. CASE Login
  <2>1. Request("login") /\ UNCHANGED <<session, spinning, form, backend>> /\ "login" \in Kinds
    BY <1>1 DEF Login, Kinds
  <2> QED BY <2>1, RequestSound, PhoneTyped, PhoneKeeps
<1>2. CASE Focus
  <2>1. /\ Request("load") /\ UNCHANGED <<session, form, backend>> /\ spinning' = TRUE
        /\ "load" \in Kinds
    BY <1>2 DEF Focus, Kinds
  <2> QED BY <2>1, RequestSound, PhoneTyped, PhoneKeeps
<1>3. CASE Submit
  <2>1. /\ Request("buy") /\ UNCHANGED <<session, spinning, backend>> /\ "buy" \in Kinds
        /\ form' = [form EXCEPT !.busy = TRUE]
    BY <1>3 DEF Submit, Kinds
  <2>2. /\ form' \in [for : Nat, key : Nat, busy : BOOLEAN, result : Nat]
        /\ form'.key = form.key /\ form'.for = form.for /\ form'.result = form.result
    BY <2>1, PhoneTyped
  <2> QED BY <2>1, <2>2, RequestSound, PhoneTyped, PhoneKeeps
<1>4. CASE Enter \/ SignOut \/ SignedOff
  <2>1. /\ UNCHANGED <<calls, spinning, form, wake, backend>> /\ token' \in {token, NoToken}
        /\ {user', loading', entering', leaving'} \subseteq BOOLEAN
    BY <1>4, PhoneTyped DEF Enter, SignOut, SignedOff
  <2> QED BY <2>1, PhoneTyped, PhoneKeeps DEF NoToken
<1>5. CASE Edit \/ Done
  <2>1. /\ UNCHANGED <<calls, session, spinning, wake, backend>>
        /\ form' \in {NewPurchase, [NewPurchase EXCEPT !.result = 0]}
    BY <1>5 DEF Edit, Done
  <2> QED BY <2>1, NewPurchaseOwn, PhoneTyped, PhoneKeeps
<1> QED BY <1>1, <1>2, <1>3, <1>4, <1>5

\* The screens that are left hear nothing more.
LEMMA LeaveIInv ==
  ASSUME IInv, Leave
  PROVE  IInv'
<1>1. ASSUME NEW i \in Slots
      PROVE  calls'[i] = NoCall \/ \E c \in Call : calls'[i] = c /\ Sound(c)
  <2>1. CASE calls[i] # NoCall
    <3>1. PICK c : c = [calls[i] EXCEPT !.mounted = FALSE]
      OBVIOUS
    <3>2. calls[i] \in Call /\ Sound(calls[i])
      BY <2>1, PhoneTyped
    <3>3. /\ c \in Call /\ c.stage = calls[i].stage /\ c.answer = calls[i].answer
          /\ c.token = calls[i].token /\ c.kind = calls[i].kind
          /\ c.key = calls[i].key /\ c.for = calls[i].for
      BY ONLY <3>1, <3>2 DEF Call
    <3>4. Sound(c)
      BY ONLY <3>2, <3>3 DEF Sound
    <3> QED BY <2>1, <3>1, <3>3, <3>4 DEF Leave, Unmounted
  <2>2. CASE calls[i] = NoCall
    BY <2>2 DEF Leave, Unmounted
  <2> QED BY <2>1, <2>2
<1>2. calls' = [i \in Slots |-> calls'[i]]
  <2>1. Unmounted = [i \in Slots |-> Unmounted[i]]
    BY Zenon DEF Unmounted
  <2> QED BY <2>1 DEF Leave
<1>3. /\ spinning' = FALSE /\ UNCHANGED <<session, wake, backend>>
      /\ form' = [NewPurchase EXCEPT !.busy = FALSE, !.result = 0]
  BY DEF Leave
<1> QED BY <1>1, <1>2, <1>3, NewPurchaseOwn, PhoneTyped, PhoneKeeps DEF session, backend

\* What a killed app had sent may arrive yet, with the key it was sent with.
LEMMA RestartIInv ==
  ASSUME IInv, Restart
  PROVE  IInv'
<1>1. PICK c : c = [kind |-> "me", stage |-> "waking", token |-> NoToken, key |-> 0,
                    for |-> 0, answer |-> "lost", mounted |-> TRUE]
  OBVIOUS
<1>2. c \in Call /\ Sound(c)
  BY <1>1, PhoneTyped DEF Call, Kinds, Answers, Sound, NoToken
<1>3. calls' = [i \in Slots |-> IF i = 1 /\ token # NoToken THEN c ELSE NoCall]
  BY <1>1 DEF Restart
<1>4. /\ calls' = [i \in Slots |-> calls'[i]]
      /\ \A i \in Slots : calls'[i] = NoCall \/ \E d \in Call : calls'[i] = d /\ Sound(d)
  BY <1>2, <1>3
<1>5. \A p \in delayed' : p \in [key : Nat, for : Nat] /\ p.key = p.for
  <2>1. \A i \in Calls("buy") : calls[i].key \in Nat /\ calls[i].for = calls[i].key
    BY PhoneTyped, NoCallIsNone DEF Calls, Kinds, Sound, Call
  <2>2. ASSUME NEW p \in delayed', p \notin delayed
        PROVE  \E i \in Calls("buy") : p = [key |-> calls[i].key, for |-> calls[i].for]
    BY <2>2 DEF Restart, Outstanding
  <2> QED BY <2>1, <2>2, PhoneTyped
<1>6. /\ {user', loading', entering', leaving', spinning'} \subseteq BOOLEAN
      /\ wake' \in [quiet : BOOLEAN, pinging : BOOLEAN]
      /\ UNCHANGED <<token, accepted, issued, paid>>
      /\ form' = [NewPurchase EXCEPT !.busy = FALSE, !.result = 0]
  BY DEF Restart
<1> QED BY <1>4, <1>5, <1>6, NewPurchaseOwn, PhoneTyped, PhoneKeeps

-----------------------------------------------------------------------------
\* What happens behind the phone's back: a session ends, a purchase arrives late.
LEMMA BehindIInv ==
  ASSUME IInv, Arrive \/ EndSession
  PROVE  IInv'
<1>1. UNCHANGED <<calls, session, spinning, form, wake, issued>> /\ accepted' \subseteq accepted
  BY DEF Arrive, EndSession
<1>2. /\ paid \subseteq [key : Nat, for : Nat] /\ delayed \subseteq [key : Nat, for : Nat]
      /\ \A q \in paid \cup delayed : q.key = q.for
      /\ \A q, r \in paid : q.key = r.key => q = r
  BY DEF IInv, TypeOK, OneKeyEach
<1>3. /\ paid \subseteq paid' /\ paid' \cup delayed' \subseteq paid \cup delayed
      /\ \A q, r \in paid' : q.key = r.key => q = r
  <2>1. CASE Arrive
    <3>1. PICK p \in delayed : Pay(p) /\ delayed' = delayed \ {p}
      BY <2>1 DEF Arrive
    <3> QED BY <1>2, <3>1 DEF Pay, Paid
  <2>2. CASE EndSession
    BY <1>2, <2>2 DEF EndSession
  <2> QED BY <2>1, <2>2
<1>4. TypeOK'
  BY <1>1, <1>2, <1>3 DEF IInv, TypeOK, session
<1>5. ASSUME NEW i \in Slots, calls'[i] # NoCall
      PROVE  Sound(calls[i])'
  <2>1. PICK c : c = calls[i]
    OBVIOUS
  <2>2. c \in Call /\ Sound(c) /\ issued \in Nat
    BY <1>1, <1>5, <2>1, Typed
  <2>3. Sound(c)'
    BY <1>1, <1>3, <2>2, StaysSound
  <2> QED BY <1>1, <2>1, <2>3 DEF Sound, IsPaid
<1>6. OneKeyEach' /\ ResultsPaid'
  BY <1>1, <1>2, <1>3 DEF IInv, OneKeyEach, ResultsPaid, IsPaid
<1>7. token' <= issued'
  BY <1>1 DEF IInv, session
<1> QED BY <1>4, <1>5, <1>6, <1>7 DEF IInv, CallsSound

\* Every step keeps the invariant.
LEMMA NextIInv ==
  ASSUME IInv, [Next]_vars
  PROVE  IInv'
<1>1. CASE UNCHANGED vars
  BY <1>1, PhoneTyped, PhoneKeeps DEF vars, session, backend
<1>2. CASE QuietSpell
  <2>1. wake' \in [quiet : BOOLEAN, pinging : BOOLEAN]
    BY <1>2, PhoneTyped DEF QuietSpell
  <2> QED BY <1>2, <2>1, PhoneTyped, PhoneKeeps DEF QuietSpell, session, backend
<1>3. CASE \E i \in Slots : Serve(i) \/ Lose(i) \/ ClearToken(i) \/ Finish(i)
  BY <1>3, ServeIInv, LoseIInv, ClearTokenIInv, FinishIInv
<1> QED BY <1>1, <1>2, <1>3, PingEndsIInv, BehindIInv, UserIInv, LeaveIInv, RestartIInv DEF Next

\* What a key promises follows from what holds of the keys.
LEMMA KeysFollow ==
  ASSUME IInv
  PROVE  KeysFollowPurchases
<1>1. \A p, q \in paid : p.for = q.for => p = q
  BY DEF IInv, OneKeyEach
<1>2. ASSUME NEW i \in Calls("buy"), calls[i].answer = "refused"
      PROVE  \E p \in paid : p.for = calls[i].for
  <2>1. i \in Slots /\ calls[i] # NoCall /\ calls[i].kind = "buy"
    BY NoCallIsNone DEF Calls, Kinds
  <2> QED BY <1>2, <2>1, Typed DEF Sound, IsPaid
<1> QED BY <1>1, <1>2 DEF IInv, ResultsPaid, IsPaid, KeysFollowPurchases

\* A step that forgets the session has signed the user out, or has been told that the
\* backend does not accept it.
LEMMA StepForgets ==
  ASSUME IInv, [Next]_vars, token' = NoToken, token # NoToken
  PROVE  \/ leaving'
         \/ \E i \in Slots : calls[i] # NoCall /\ calls[i].kind # "login"
              /\ calls[i].answer = "unauthorized" /\ calls[i].token \notin accepted
<1>1. \/ SignOut
      \/ \E i \in Slots : ClearToken(i) \/ Finish(i)
  BY DEF Next, vars, session, backend, PingEnds, QuietSpell, Arrive, EndSession, Serve, Lose,
         Login, Enter, SignedOff, Focus, Edit, Submit, Done, Leave, Restart
<1>2. CASE SignOut
  BY <1>2 DEF SignOut
<1>3. ASSUME NEW i \in Slots, ClearToken(i)
      PROVE  /\ calls[i] # NoCall /\ calls[i].kind # "login"
             /\ calls[i].answer = "unauthorized" /\ calls[i].token \notin accepted
  BY <1>3, Typed DEF ClearToken, endsSession, Sound
<1>4. ASSUME NEW i \in Slots, Finish(i)
      PROVE  FALSE
  <2>1. calls[i] # NoCall /\ Sound(calls[i])
    BY <1>4, Typed DEF Finish
  <2>2. calls[i].kind = "login" /\ LoggedIn(calls[i])
    BY <1>4 DEF Finish, Refreshed, Loaded, Bought, Unheard, Told
  <2> QED BY <2>1, <2>2 DEF LoggedIn, Sound, NoToken
<1> QED BY <1>1, <1>2, <1>3, <1>4

\* One purchase meant is paid at most once, a refusal as a repeat is of a purchase that
\* is paid, and so is every one the form shows as done (simulate.tsx:36-44, 67-72).
THEOREM KeysAreFollowed == Spec => []KeysFollowPurchases
<1>1. IInv => KeysFollowPurchases
  BY KeysFollow
<1> QED BY <1>1, InitIInv, NextIInv, PTL DEF Spec

\* The stored session goes only when the user signs out, or because of an answer to a
\* session that the backend had ended (api.ts:60-72, auth.tsx:22-60).
THEOREM SessionsKeptUntilEnded == Spec => ForgottenOnlyWhenEnded
<1>1. IInv /\ [Next]_vars => [token' = NoToken /\ token # NoToken =>
        \/ leaving'
        \/ \E i \in Slots : calls[i] # NoCall /\ calls[i].kind # "login"
             /\ calls[i].answer = "unauthorized" /\ calls[i].token \notin accepted]_vars
  BY StepForgets
<1> QED BY <1>1, InitIInv, NextIInv, PTL DEF Spec, ForgottenOnlyWhenEnded
=============================================================================
