---------------------------- MODULE AlertDelivery ----------------------------
(***************************************************************************)
(* How decided notifications reach the users: the notification loop of     *)
(* runAlertCron (src/src/cron/alerts-cron.ts), the FCM sender with its      *)
(* retries (src/src/notifications/fcm-sender.ts) and the administrator's    *)
(* "retry" of a log row (src/src/api/admin.ts).  It details the actions     *)
(* Deliver, Finish and AbortSend of AlertCron.                             *)
(*                                                                         *)
(* A push is a pair <<alert, token>>.  FCM is external: it may accept a     *)
(* request and its answer may be lost on the way back.                     *)
(***************************************************************************)
EXTENDS Integers, FiniteSets

CONSTANTS
    None,
    Notifications,  \* alerts the run decided to notify
    Tokens,         \* push tokens
    ExpoTokens,     \* the tokens that start with "ExponentPushToken["
    Cron,           \* the sender that is the cron run
    Admins,         \* retry requests, each made at most once
    MAX_RETRIES,
    Faults          \* what may go wrong, see below

(* "insert" an insert into notifications_log may throw                     *)
(* "query"  the select of a user's tokens may throw                        *)
(* "evict"  the isolate of the run, or of a retry, may be evicted          *)
KnownFaults == {"insert", "query", "evict"}

ASSUME DeliveryAssumption ==
    /\ ExpoTokens \subseteq Tokens
    /\ IsFiniteSet(Admins) /\ Cron \notin Admins
    /\ MAX_RETRIES \in Nat \ {0}
    /\ Faults \subseteq KnownFaults
    /\ None \notin Notifications /\ None \notin Notifications \X Tokens

Senders == {Cron} \cup Admins
Pushes  == Notifications \X Tokens

VARIABLES
    running,   \* is the run in its loop
    todo,      \* notifications not yet begun
    current,   \* the notification in hand, or None
    targets,   \* tokens of the current notification not yet taken
    stage,     \* per sender: where it is
    job,       \* per sender: its push, or None
    attempt,   \* per sender: number of the current attempt
    outcome,   \* per sender: what sendFCMNotification returns, as a status
    log,       \* rows of notifications_log
    asked,     \* retry requests made so far
    taken,     \* history: pushes the loop has taken in hand
    sends,     \* history: how often a push was handed to the FCM sender
    accepted,  \* history: how often FCM accepted it
    lost       \* history: how often FCM accepted it and the answer was lost

loopVars   == <<running, todo, current, targets>>
senderVars == <<stage, job, attempt, outcome>>
history    == <<taken, sends, accepted, lost>>
vars       == <<loopVars, senderVars, log, asked, history>>

Stages == {"idle", "expo", "prepare", "post", "wait", "log", "error"}

Rows == [push : Pushes, status : {"success", "failed", "error"},
         by : {"loop", "retry"}]

May(what) == what \in Faults

TypeOK ==
    /\ running \in BOOLEAN
    /\ todo \subseteq Notifications
    /\ current \in Notifications \cup {None}
    /\ targets \subseteq Tokens
    /\ targets # {} => current # None
    /\ stage \in [Senders -> Stages]
    /\ job \in [Senders -> Pushes \cup {None}]
    /\ \A s \in Senders : stage[s] = "idle" <=> job[s] = None
    /\ attempt \in [Senders -> 0 .. MAX_RETRIES]
    /\ outcome \in [Senders -> {"success", "failed"}]
    /\ log \subseteq Rows
    /\ asked \subseteq Admins
    /\ taken \subseteq Pushes
    /\ sends \in [Pushes -> Nat]
    /\ accepted \in [Pushes -> Nat]
    /\ lost \in [Pushes -> Nat]

Init ==
    /\ running = TRUE
    /\ todo \in SUBSET Notifications
    /\ current = None
    /\ targets = {}
    /\ stage = [s \in Senders |-> "idle"]
    /\ job = [s \in Senders |-> None]
    /\ attempt = [s \in Senders |-> 0]
    /\ outcome = [s \in Senders |-> "failed"]
    /\ log = {}
    /\ asked = {}
    /\ taken = {}
    /\ sends = [p \in Pushes |-> 0]
    /\ accepted = [p \in Pushes |-> 0]
    /\ lost = [p \in Pushes |-> 0]

-----------------------------------------------------------------------------
(* What several steps share.                                               *)

(* Sender s has nothing more to do with its push.                           *)
Release(s) ==
    /\ stage' = [stage EXCEPT ![s] = "idle"]
    /\ job' = [job EXCEPT ![s] = None]
    /\ attempt' = [attempt EXCEPT ![s] = 0]
    /\ outcome' = [outcome EXCEPT ![s] = "failed"]

(* sendFCMNotification of sender s returns true or false.                    *)
Return(s, status) ==
    /\ stage' = [stage EXCEPT ![s] = "log"]
    /\ outcome' = [outcome EXCEPT ![s] = status]
    /\ UNCHANGED <<job, attempt>>

(* The run ends, with what is left of its notifications unsent.             *)
EndLoop ==
    /\ running' = FALSE
    /\ todo' = {}
    /\ current' = None
    /\ targets' = {}
    /\ Release(Cron)

Insert(s, status) ==
    log' = log \cup {[push |-> job[s], status |-> status,
                      by |-> IF s = Cron THEN "loop" ELSE "retry"]}

-----------------------------------------------------------------------------
(* The loop over the notifications and the tokens of each user.             *)

(* Mutant: a notification without tokens is not passed over.                *)
NextNotificationAgain(a) ==
    /\ running /\ stage[Cron] = "idle" /\ targets = {}
    /\ a \in todo
    /\ current' = a
    /\ targets' \in SUBSET Tokens
    /\ todo' = IF targets' = {} THEN todo ELSE todo \ {a}
    /\ UNCHANGED <<running, senderVars, log, asked, history>>

(* The tokens are read once per notification; a user may have none.         *)
NextNotification(a) ==
    /\ running /\ stage[Cron] = "idle" /\ targets = {}
    /\ a \in todo
    /\ todo' = todo \ {a}
    /\ current' = a
    /\ targets' \in SUBSET Tokens
    /\ UNCHANGED <<running, senderVars, log, asked, history>>

QueryFails ==
    /\ May("query")
    /\ running /\ stage[Cron] = "idle" /\ targets = {} /\ todo # {}
    /\ EndLoop
    /\ UNCHANGED <<log, asked, history>>

TakeToken(t) ==
    /\ running /\ stage[Cron] = "idle"
    /\ t \in targets
    /\ targets' = targets \ {t}
    /\ job' = [job EXCEPT ![Cron] = <<current, t>>]
    /\ taken' = taken \cup {<<current, t>>}
    /\ \/ /\ t \in ExpoTokens
          /\ stage' = [stage EXCEPT ![Cron] = "expo"]
          /\ UNCHANGED sends
       \/ /\ t \notin ExpoTokens
          /\ stage' = [stage EXCEPT ![Cron] = "prepare"]
          /\ sends' = [sends EXCEPT ![<<current, t>>] = @ + 1]
    /\ UNCHANGED <<running, todo, current, attempt, outcome, log, asked,
                   accepted, lost>>

(* An old Expo token is logged and skipped; a failing insert ends the run.  *)
SkipExpo ==
    /\ stage[Cron] = "expo"
    /\ \/ Insert(Cron, "error") /\ Release(Cron) /\ UNCHANGED loopVars
       \/ May("insert") /\ EndLoop /\ UNCHANGED log
    /\ UNCHANGED <<asked, history>>

(* Mutant: the failing branch forgets its row.                              *)
LogSuccessOnly ==
    /\ stage[Cron] = "log"
    /\ \/ /\ IF outcome[Cron] = "success" THEN Insert(Cron, "success")
                                         ELSE UNCHANGED log
          /\ Release(Cron)
       \/ /\ May("insert")
          /\ stage' = [stage EXCEPT ![Cron] = "error"]
          /\ UNCHANGED <<job, attempt, outcome, log>>
    /\ UNCHANGED <<loopVars, asked, history>>

(* The result is logged; if that throws, the catch block logs an error.     *)
LogResult ==
    /\ stage[Cron] = "log"
    /\ \/ /\ Insert(Cron, outcome[Cron])
          /\ Release(Cron)
       \/ /\ May("insert")
          /\ stage' = [stage EXCEPT ![Cron] = "error"]
          /\ UNCHANGED <<job, attempt, outcome, log>>
    /\ UNCHANGED <<loopVars, asked, history>>

(* If that throws as well, the exception ends the run.                      *)
LogError ==
    /\ stage[Cron] = "error"
    /\ \/ Insert(Cron, "error") /\ Release(Cron) /\ UNCHANGED loopVars
       \/ May("insert") /\ EndLoop /\ UNCHANGED log
    /\ UNCHANGED <<asked, history>>

LoopDone ==
    /\ running /\ stage[Cron] = "idle" /\ targets = {} /\ todo = {}
    /\ EndLoop
    /\ UNCHANGED <<log, asked, history>>

EvictRun ==
    /\ May("evict")
    /\ running
    /\ EndLoop
    /\ UNCHANGED <<log, asked, history>>

-----------------------------------------------------------------------------
(* sendFCMNotificationWithLogs, for the run or for a retry.                 *)

(* Mutant: nothing is wrong with an access token that could not be had.     *)
PrepareOptimistic(s) ==
    /\ stage[s] = "prepare"
    /\ \/ Return(s, "success")
       \/ /\ stage' = [stage EXCEPT ![s] = "post"]
          /\ attempt' = [attempt EXCEPT ![s] = 1]
          /\ UNCHANGED <<job, outcome>>
    /\ UNCHANGED <<loopVars, log, asked, history>>

(* Token format, service account and access token are in order, or not.     *)
Prepare(s) ==
    /\ stage[s] = "prepare"
    /\ \/ Return(s, "failed")
       \/ /\ stage' = [stage EXCEPT ![s] = "post"]
          /\ attempt' = [attempt EXCEPT ![s] = 1]
          /\ UNCHANGED <<job, outcome>>
    /\ UNCHANGED <<loopVars, log, asked, history>>

(* FCM answers the request of sender s that reached it.                     *)
Accept(s) == accepted' = [accepted EXCEPT ![job[s]] = @ + 1]

(* Mutant: one attempt more than MAX_RETRIES.                               *)
TryAgainOnceMore(s) ==
    \/ attempt[s] > MAX_RETRIES /\ Return(s, "failed")
    \/ /\ attempt[s] <= MAX_RETRIES
       /\ stage' = [stage EXCEPT ![s] = "post"]
       /\ attempt' = [attempt EXCEPT ![s] = @ + 1]
       /\ UNCHANGED <<job, outcome>>

(* A temporary error or no answer: another attempt, unless it was the last. *)
(* The delay before it changes nothing.                                     *)
TryAgain(s) ==
    \/ attempt[s] = MAX_RETRIES /\ Return(s, "failed")
    \/ /\ attempt[s] < MAX_RETRIES
       /\ stage' = [stage EXCEPT ![s] = "post"]
       /\ attempt' = [attempt EXCEPT ![s] = @ + 1]
       /\ UNCHANGED <<job, outcome>>

(* FCM accepts the request, or rejects it or never gets it.                 *)
Post(s) ==
    /\ stage[s] = "post"
    /\ \/ /\ Accept(s)
          /\ stage' = [stage EXCEPT ![s] = "wait"]
          /\ UNCHANGED <<job, attempt, outcome>>
       \/ UNCHANGED accepted /\ Return(s, "failed")
       \/ UNCHANGED accepted /\ TryAgain(s)
    /\ UNCHANGED <<loopVars, log, asked, taken, sends, lost>>

(* Mutant: no return after a success.                                       *)
AnswerNoReturn(s) ==
    /\ stage[s] = "wait"
    /\ \/ TryAgain(s) /\ UNCHANGED lost
       \/ TryAgain(s) /\ lost' = [lost EXCEPT ![job[s]] = @ + 1]
    /\ UNCHANGED <<loopVars, log, asked, taken, sends, accepted>>

(* The answer of an accepted request arrives and can be read, or it is lost. *)
Answer(s) ==
    /\ stage[s] = "wait"
    /\ \/ Return(s, "success") /\ UNCHANGED lost
       \/ TryAgain(s) /\ lost' = [lost EXCEPT ![job[s]] = @ + 1]
    /\ UNCHANGED <<loopVars, log, asked, taken, sends, accepted>>

-----------------------------------------------------------------------------
(* retryNotification: an administrator sends the push of a row again.       *)

AskRetry(s) ==
    /\ s \in Admins \ asked
    /\ asked' = asked \cup {s}
    /\ \E row \in log :
          /\ job' = [job EXCEPT ![s] = row.push]
          /\ sends' = [sends EXCEPT ![row.push] = @ + 1]
    /\ stage' = [stage EXCEPT ![s] = "prepare"]
    /\ UNCHANGED <<attempt, outcome, loopVars, log, taken, accepted, lost>>

LogRetry(s) ==
    /\ s \in Admins
    /\ stage[s] = "log"
    /\ \/ Insert(s, outcome[s])
       \/ May("insert") /\ UNCHANGED log
    /\ Release(s)
    /\ UNCHANGED <<loopVars, asked, history>>

(* The request is gone with its isolate.                                    *)
EvictRetry(s) ==
    /\ May("evict")
    /\ s \in Admins
    /\ stage[s] # "idle"
    /\ Release(s)
    /\ UNCHANGED <<loopVars, log, asked, history>>

-----------------------------------------------------------------------------
SenderStep(s) ==
    Prepare(s) \/ Post(s) \/ Answer(s) \/ LogRetry(s)

LoopStep ==
    \/ \E a \in Notifications : NextNotification(a)
    \/ \E t \in Tokens : TakeToken(t)
    \/ SkipExpo \/ LogResult \/ LogError \/ LoopDone
    \/ SenderStep(Cron)

Next ==
    \/ LoopStep \/ QueryFails \/ EvictRun
    \/ \E s \in Admins : AskRetry(s) \/ SenderStep(s) \/ EvictRetry(s)

(* The runtime keeps running what a live isolate awaits, and every fetch    *)
(* settles with an answer or an exception.                                  *)
Spec == Init /\ [][Next]_vars /\ WF_vars(LoopStep)
             /\ \A s \in Admins : WF_vars(SenderStep(s))

-----------------------------------------------------------------------------
(* Properties.                                                             *)

Logged(p) == \E row \in log : row.push = p /\ row.by = "loop"

(* Of the pushes the loop has taken in hand, at most one has no row in the  *)
(* log: the one in hand, or the one in hand when the run was cut short      *)
(* (the inserts of runAlertCron, in every branch of the loop).              *)
AtMostOneUnlogged ==
    /\ Cardinality({p \in taken : ~Logged(p)}) <= 1
    /\ \A p \in taken : running /\ ~Logged(p) => job[Cron] = p

(* A row that says "success" is about a push FCM accepted.                  *)
SuccessWasAccepted ==
    \A row \in log : row.status = "success" => accepted[row.push] > 0

(* A user gets the same push again only because an answer was lost or an    *)
(* administrator asked for it: the loop hands a push to the sender once     *)
(* (runAlertCron, retryNotification, sendFCMNotificationWithLogs).          *)
RepeatsExplained ==
    \A p \in Pushes : /\ accepted[p] <= sends[p] + lost[p]
                      /\ sends[p] <= 1 + Cardinality(asked)

(* FCM accepts a push at most MAX_RETRIES times per send, whichever way the  *)
(* attempts fail (the retry loop of sendFCMNotificationWithLogs).           *)
AttemptsBounded == \A p \in Pushes : accepted[p] <= MAX_RETRIES * sends[p]

(* The loop comes to its end, and every retry request is answered.          *)
LoopEnds ==
    /\ <>~running
    /\ \A s \in Admins : (stage[s] # "idle") ~> (stage[s] = "idle")

(* What makes the safety properties inductive.  A sender that waits for an  *)
(* answer, or will return success, has a push FCM accepted; an idle one has  *)
(* no result, and a retry begins when it is asked for.                      *)
ResultsKnown ==
    \A s \in Senders :
        /\ stage[s] = "wait" \/ outcome[s] = "success"
             => job[s] # None /\ accepted[job[s]] > 0
        /\ stage[s] = "idle" => outcome[s] = "failed"
        /\ s \in Admins \ asked => stage[s] = "idle"

(* The loop takes a push once, and every other send was asked for.          *)
TakenOnce ==
    /\ current \notin todo
    /\ \A p \in taken : /\ p[1] \notin todo
                        /\ p[1] = current => p[2] \notin targets
    /\ \A p \in Pushes :
          sends[p] <= Cardinality(asked) + (IF p \in taken THEN 1 ELSE 0)

(* Senders with an attempt at push p before them.                           *)
Open(p) == {s \in Senders : job[s] = p /\ stage[s] \in {"prepare", "post"}}

AcceptsCounted ==
    \A p \in Pushes : accepted[p] + Cardinality(Open(p)) <= sends[p] + lost[p]

(* The attempts at push p that its senders may still make, by number.       *)
Left(s) ==
    {k \in 1 .. MAX_RETRIES : \/ stage[s] = "prepare"
                              \/ stage[s] = "post" /\ k >= attempt[s]
                              \/ stage[s] = "wait" /\ k > attempt[s]}

AttemptsLeft(p) ==
    {a \in Senders \X (1 .. MAX_RETRIES) : job[a[1]] = p /\ a[2] \in Left(a[1])}

AttemptsCounted ==
    /\ \A s \in Senders : stage[s] \in {"post", "wait"} => attempt[s] > 0
    /\ \A p \in Pushes :
          accepted[p] + Cardinality(AttemptsLeft(p)) <= MAX_RETRIES * sends[p]

OneUnlogged ==
    \A p \in taken : ~Logged(p) => /\ running => job[Cron] = p
                                   /\ \A q \in taken : ~Logged(q) => p = q

DeliveryInv ==
    /\ SuccessWasAccepted /\ ResultsKnown /\ TakenOnce
    /\ AcceptsCounted /\ AttemptsCounted /\ OneUnlogged
=============================================================================
