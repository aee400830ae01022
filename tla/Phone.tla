------------------------------- MODULE Phone -------------------------------
(***************************************************************************)
(* The mobile client's session and its purchases: the calls it has in      *)
(* flight (mobile/lib/api.ts), the wake-up they may wait for (wake.ts),    *)
(* the token it stores (auth.tsx, session.ts), one screen that loads data  *)
(* (useApi.ts) and the form that pays (app/(tabs)/simulate.tsx).           *)
(*                                                                         *)
(* The backend is external: it accepts or refuses a session, pays a key    *)
(* once, and its answers may be lost.                                      *)
(***************************************************************************)
EXTENDS Integers, FiniteSets

CONSTANTS
  MaxCalls,      \* bounds the calls in flight
  MaxMeant,      \* bounds the purchases the user means to make
  MaxSessions    \* bounds the sessions

ASSUME PhoneAssumption == {MaxCalls, MaxMeant, MaxSessions} \subseteq Nat \ {0}

VARIABLES
  calls,     \* the calls in flight
  token,     \* tokenStore; NoToken is its null
  user,      \* AuthProvider: somebody is signed in
  loading,   \* AuthProvider: the cold start is not over
  entering,  \* signIn has stored its token and not yet set the user
  leaving,   \* signOut has cleared the token and not yet the user
  spinning,  \* useApi: loading; refreshing, for a screen pulled down, goes the same way
  form,      \* simulate.tsx's state
  wake,      \* wake.ts's state
  accepted,  \* external: the sessions the backend accepts
  issued,    \* external: how many it has issued
  paid,      \* external: the purchases it has recorded
  delayed    \* external: purchases that reach it after the phone gave up

session == <<token, user, loading, entering, leaving>>
backend == <<accepted, issued, paid, delayed>>
vars == <<calls, session, spinning, form, wake, backend>>

NoToken == 0

Slots == 1..MaxCalls

Kinds == {"login", "me", "load", "buy"}

Answers == {"ok", "unauthorized", "refused", "lost"}

\* for is the purchase the user means, key the one the form sends for it.
Call == [kind : Kinds, stage : {"waking", "sent", "answered", "cleared"},
         token : Nat, key : Nat, for : Nat, answer : Answers, mounted : BOOLEAN]

NoCall == [kind |-> "none"]

TypeOK ==
  /\ calls \in [Slots -> Call \cup {NoCall}]
  /\ token \in Nat /\ issued \in Nat /\ accepted \subseteq 1..issued
  /\ {user, loading, entering, leaving, spinning} \subseteq BOOLEAN
  /\ form \in [for : Nat, key : Nat, busy : BOOLEAN, result : Nat]
  /\ wake \in [quiet : BOOLEAN, pinging : BOOLEAN]
  /\ paid \subseteq [key : Nat, for : Nat] /\ delayed \subseteq [key : Nat, for : Nat]

Init ==
  /\ calls = [i \in Slots |-> NoCall]
  /\ token = NoToken /\ user = FALSE /\ loading = FALSE
  /\ entering = FALSE /\ leaving = FALSE
  /\ spinning = FALSE
  /\ form = [for |-> 1, key |-> 1, busy |-> FALSE, result |-> 0]
  /\ wake = [quiet |-> TRUE, pinging |-> FALSE]
  /\ accepted = {} /\ issued = 0 /\ paid = {} /\ delayed = {}

-----------------------------------------------------------------------------
(* The request interceptor: a call waits for the wake-up, then takes the   *)
(* token that is stored.                                                   *)

Free == {i \in Slots : calls[i] = NoCall}

Calls(kind) == {i \in Slots : calls[i].kind = kind}

\* Request(kind): the first free slot holds the call.
Request(kind) ==
  /\ Free # {}
  /\ LET i == CHOOSE j \in Free : \A k \in Free : j <= k
     IN calls' = [calls EXCEPT ![i] =
          [kind |-> kind, stage |-> IF wake.quiet THEN "waking" ELSE "sent",
           token |-> IF wake.quiet THEN NoToken ELSE token,
           key |-> IF kind = "buy" THEN form.key ELSE 0, for |-> IF kind = "buy" THEN form.for ELSE 0,
           answer |-> "lost", mounted |-> TRUE]]
  /\ wake' = [wake EXCEPT !.pinging = wake.quiet \/ @]

\* The one health check ends: markAwake if it was answered; every call goes on.
PingEnds ==
  /\ wake.pinging
  /\ \E answered \in BOOLEAN : wake' = [quiet |-> ~answered, pinging |-> FALSE]
  /\ calls' = [i \in Slots |->
       IF calls[i] # NoCall /\ calls[i].stage = "waking"
       THEN [calls[i] EXCEPT !.stage = "sent", !.token = token] ELSE calls[i]]
  /\ UNCHANGED <<session, spinning, form, backend>>

\* ASSUME_ASLEEP_AFTER_MS without an answer.
QuietSpell ==
  /\ Free = Slots
  /\ wake' = [wake EXCEPT !.quiet = TRUE]
  /\ UNCHANGED <<calls, session, spinning, form, backend>>

-----------------------------------------------------------------------------
(* The backend. *)

\* What was sent with a call matters afterwards only to a 401.
Answered(i, answer) ==
  calls' = [calls EXCEPT ![i].stage = "answered", ![i].answer = answer,
                         ![i].token = IF answer = "unauthorized" THEN @ ELSE NoToken]

Paid(p) == \E q \in paid : q.key = p.key

Pay(p) == paid' = IF Paid(p) THEN paid ELSE paid \cup {p}

\* One whose key is paid has nothing left to do.
Outstanding(ps) == {p \in ps : ~Paid(p)}

ServeLogin(i) ==
  \/ /\ issued < MaxSessions
     /\ issued' = issued + 1
     /\ accepted' = accepted \cup {issued'}
     /\ Answered(i, "ok")
  \/ Answered(i, "unauthorized") /\ UNCHANGED <<accepted, issued>>

Serve(i) ==
  /\ calls[i] # NoCall /\ calls[i].stage = "sent"
  /\ LET c == calls[i] p == [key |-> c.key, for |-> c.for] IN
     \/ c.kind = "login" /\ ServeLogin(i) /\ UNCHANGED <<paid, delayed>>
     \/ /\ c.kind # "login" /\ c.token \notin accepted
        /\ Answered(i, "unauthorized")
        /\ UNCHANGED <<accepted, issued, paid, delayed>>
     \/ /\ c.kind = "buy" /\ c.token \in accepted
        /\ Pay(p) /\ delayed' = {q \in delayed : q.key # p.key}
        /\ Answered(i, IF Paid(p) THEN "refused" ELSE "ok")
        /\ UNCHANGED <<accepted, issued>>
     \/ /\ c.kind \in {"me", "load"} /\ c.token \in accepted
        /\ \E answer \in {"ok", "refused"} : Answered(i, answer)
        /\ UNCHANGED <<accepted, issued, paid, delayed>>
  /\ UNCHANGED <<session, spinning, form, wake>>

\* The answer is lost, or the request, or the phone stops waiting for either.
Lose(i) ==
  /\ calls[i] # NoCall
  /\ \/ calls[i].stage = "sent"
     \/ calls[i].stage = "answered" /\ calls[i].answer # "lost"
  /\ Answered(i, "lost")
  /\ \/ UNCHANGED delayed
     \/ /\ calls[i].kind = "buy" /\ calls[i].stage = "sent" /\ calls[i].token \in accepted
        /\ delayed' = delayed \cup Outstanding({[key |-> calls[i].key, for |-> calls[i].for]})
  /\ UNCHANGED <<session, spinning, form, wake, accepted, issued, paid>>

\* A request the phone has given up on arrives after all.
Arrive ==
  /\ \E p \in delayed : Pay(p) /\ delayed' = delayed \ {p}
  /\ UNCHANGED <<calls, session, spinning, form, wake, accepted, issued>>

\* A session expires, or its password is changed elsewhere.
EndSession ==
  /\ accepted # {}
  /\ accepted' = {}
  /\ UNCHANGED <<calls, session, spinning, form, wake, issued, paid, delayed>>

-----------------------------------------------------------------------------
(* The response interceptor, and the code that awaits the answer. *)

\* On the credential endpoints a 401 means the details typed were wrong.
endsSession_Everywhere(c) == c.answer = "unauthorized" /\ c.token # NoToken

endsSession(c) == c.answer = "unauthorized" /\ c.token # NoToken /\ c.kind # "login"

\* The first half of a 401: the stored token is cleared, whatever it is by now.
ClearToken(i) ==
  /\ calls[i] # NoCall /\ calls[i].stage = "answered" /\ endsSession(calls[i])
  /\ token' = NoToken
  /\ calls' = [calls EXCEPT ![i].stage = "cleared"]
  /\ UNCHANGED <<user, loading, entering, leaving, spinning, form, wake, backend>>

\* signIn's first half, or the sign-in screen's error.
LoggedIn(c) ==
  /\ token' = IF c.answer = "ok" THEN issued ELSE token
  /\ entering' = (entering \/ c.answer = "ok")
  /\ UNCHANGED <<user, loading, leaving, spinning, form>>

\* The cold start's refresh.
Refreshed(c) ==
  /\ user' = (c.answer = "ok")
  /\ loading' = FALSE
  /\ UNCHANGED <<token, entering, leaving, spinning, form>>

\* What a call leaves of the session when it is not about it.
Told(c) ==
  /\ user' = (user /\ c.stage # "cleared")
  /\ UNCHANGED <<token, loading, entering, leaving>>

\* useApi's run, from its await to its finally.
Loaded_NoFinally(c) == Told(c) /\ spinning' = (spinning /\ c.answer # "ok") /\ UNCHANGED form

Loaded(c) == Told(c) /\ spinning' = FALSE /\ UNCHANGED form

\* submit: a failure leaves the form and its key as they are.
Bought_NewKey(c) ==
  /\ Told(c)
  /\ form' = [form EXCEPT !.busy = FALSE,
       !.result = IF c.answer = "ok" THEN c.for ELSE @,
       !.key = IF c.answer = "ok" THEN @ ELSE @ + 1]
  /\ UNCHANGED spinning

Bought(c) ==
  /\ Told(c)
  /\ form' = [form EXCEPT !.busy = FALSE, !.result = IF c.answer = "ok" THEN c.for ELSE @]
  /\ UNCHANGED spinning

\* A screen that has gone hears nothing.
Unheard(c) == Told(c) /\ UNCHANGED <<spinning, form>>

Finish(i) ==
  /\ calls[i] # NoCall
  /\ \/ calls[i].stage = "cleared"
     \/ calls[i].stage = "answered" /\ ~endsSession(calls[i])
  /\ LET c == calls[i] IN
     \/ c.mounted /\ c.kind = "login" /\ LoggedIn(c)
     \/ c.mounted /\ c.kind = "me" /\ Refreshed(c)
     \/ c.mounted /\ c.kind = "load" /\ Loaded(c)
     \/ c.mounted /\ c.kind = "buy" /\ Bought(c)
     \/ ~c.mounted /\ Unheard(c)
  /\ calls' = [calls EXCEPT ![i] = NoCall]
  /\ wake' = [wake EXCEPT !.quiet = @ /\ calls[i].answer = "lost"]
  /\ UNCHANGED backend

-----------------------------------------------------------------------------
(* What the user does. *)

SignedOut == ~user /\ ~loading /\ ~entering

\* login.tsx: one attempt at a time; the button is disabled while it is busy.
Login ==
  /\ SignedOut /\ Calls("login") = {}
  /\ Request("login")
  /\ UNCHANGED <<session, spinning, form, backend>>

\* signIn's second half.
Enter ==
  /\ entering
  /\ entering' = FALSE /\ user' = TRUE
  /\ UNCHANGED <<calls, token, loading, leaving, spinning, form, wake, backend>>

SignOut ==
  /\ user /\ ~leaving
  /\ token' = NoToken /\ leaving' = TRUE
  /\ UNCHANGED <<calls, user, loading, entering, spinning, form, wake, backend>>

SignedOff ==
  /\ leaving
  /\ leaving' = FALSE /\ user' = FALSE
  /\ UNCHANGED <<calls, token, loading, entering, spinning, form, wake, backend>>

\* The screen gains focus, or is asked to try again.
Focus ==
  /\ user /\ Request("load")
  /\ spinning' = TRUE
  /\ UNCHANGED <<session, form, backend>>

\* newIdempotencyKey: one no form has sent.
NewPurchase == [form EXCEPT !.for = @ + 1, !.key = @ + 1]

\* The user changes the amount, the category or the merchant: another purchase.
Edit_KeepsKey ==
  /\ user /\ form.result = 0 /\ form.for < MaxMeant
  /\ form' = [form EXCEPT !.for = @ + 1]
  /\ UNCHANGED <<calls, session, spinning, wake, backend>>

Edit ==
  /\ user /\ form.result = 0 /\ form.for < MaxMeant
  /\ form' = NewPurchase
  /\ UNCHANGED <<calls, session, spinning, wake, backend>>

\* The button is disabled while it is busy; a double tap beats that.
Submit ==
  /\ user /\ form.result = 0
  /\ form.busy => \E i \in Calls("buy") : calls[i].key = form.key
  /\ Request("buy")
  /\ form' = [form EXCEPT !.busy = TRUE]
  /\ UNCHANGED <<session, spinning, backend>>

\* onDone.
Done ==
  /\ form.result # 0 /\ form.for < MaxMeant
  /\ form' = [NewPurchase EXCEPT !.result = 0]
  /\ UNCHANGED <<calls, session, spinning, wake, backend>>

\* The calls whose screens have gone.
Unmounted == [i \in Slots |-> IF calls[i] = NoCall THEN NoCall ELSE [calls[i] EXCEPT !.mounted = FALSE]]

\* The screens are left for the sign-in screen: they start afresh.
Leave ==
  /\ ~user /\ form.for < MaxMeant /\ Calls("login") \cup Calls("me") = {}
  /\ calls' = Unmounted
  /\ spinning' = FALSE
  /\ form' = [NewPurchase EXCEPT !.busy = FALSE, !.result = 0]
  /\ UNCHANGED <<session, wake, backend>>

\* The app is killed and opened again: what is in flight is forgotten, not undone.
Restart ==
  /\ form.for < MaxMeant
  /\ calls' = [i \in Slots |->
       IF i = 1 /\ token # NoToken
       THEN [kind |-> "me", stage |-> "waking", token |-> NoToken, key |-> 0,
             for |-> 0, answer |-> "lost", mounted |-> TRUE]
       ELSE NoCall]
  /\ delayed' = delayed \cup Outstanding(
       {[key |-> calls[i].key, for |-> calls[i].for] : i \in
          {j \in Calls("buy") : calls[j].stage = "sent" /\ calls[j].token \in accepted}})
  /\ user' = FALSE /\ loading' = (token # NoToken) /\ entering' = FALSE /\ leaving' = FALSE
  /\ spinning' = FALSE
  /\ form' = [NewPurchase EXCEPT !.busy = FALSE, !.result = 0]
  /\ wake' = [quiet |-> TRUE, pinging |-> token # NoToken]
  /\ UNCHANGED <<token, accepted, issued, paid>>

Next ==
  \/ PingEnds \/ QuietSpell \/ Arrive \/ EndSession
  \/ \E i \in Slots : Serve(i) \/ Lose(i) \/ ClearToken(i) \/ Finish(i)
  \/ Login \/ Enter \/ SignOut \/ SignedOff \/ Focus
  \/ Edit \/ Submit \/ Done \/ Leave \/ Restart

\* The health check and the requests have timeouts; what is answered is handled.
Fairness ==
  /\ WF_vars(PingEnds) /\ WF_vars(Enter) /\ WF_vars(SignedOff)
  /\ \A i \in Slots : WF_vars(Serve(i) \/ Lose(i)) /\ WF_vars(ClearToken(i)) /\ WF_vars(Finish(i))

Spec == Init /\ [][Next]_vars /\ Fairness

-----------------------------------------------------------------------------
(* One purchase the user means is paid at most once, however often it is   *)
(* submitted, given up or delayed, and a purchase that has not been paid   *)
(* is never refused as a repeat of another: simulate.tsx's one key per     *)
(* intended transaction.                                                   *)
KeysFollowPurchases ==
  /\ \A p, q \in paid : p.for = q.for => p = q
  /\ \A i \in Calls("buy") :
       calls[i].stage = "answered" /\ calls[i].answer = "refused" =>
         \E p \in paid : p.for = calls[i].for
  /\ form.result # 0 => \E p \in paid : p.for = form.result

(* The stored session is forgotten only when its user signs out or when    *)
(* the backend has refused a session it had ended: never for a wrong       *)
(* password, a restart without a network or a lost answer.                 *)
ForgottenOnlyWhenEnded ==
  [][token' = NoToken /\ token # NoToken =>
       \/ leaving'
       \/ \E i \in Slots : calls[i] # NoCall /\ calls[i].kind # "login"
            /\ calls[i].answer = "unauthorized" /\ calls[i].token \notin accepted]_vars

(* A screen never keeps its spinner: whatever becomes of its calls, of the *)
(* wake-up they wait for and of the calls that overtake them, loading ends.*)
SpinnersEnd == spinning ~> ~spinning
=============================================================================
